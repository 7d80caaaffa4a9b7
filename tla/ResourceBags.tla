---------------------------- MODULE ResourceBags ----------------------------
(***************************************************************************)
(* ResTable (libs/androidfw/ResourceTypes.cpp), continued: how references    *)
(* are followed through the table of ResourceTable, and the bags, which      *)
(* inherit from bags and are cached.                                         *)
(***************************************************************************)
EXTENDS ResourceTable

VARIABLE bags   \* the cached bags of all groups: ID -> its bag, or its mark

bagVars == <<tableVars, bags>>

-----------------------------------------------------------------------------
(* References.                                                              *)

(* getResource: what it leaves in the value that was old, and whether it     *)
(* found it; bags are not read, and what has no mapping is left untranslated.*)
getResource(id, old) ==
  UNION {LET v == ValueOf(e)
             known == lookupResourceValue(table.groups[GroupOf(id)], v)
         IN IF v.kind = "bag" THEN {[found |-> FALSE, value |-> old]}
            ELSE IF known = {} THEN {[found |-> FALSE, value |-> v]}
            ELSE {[found |-> TRUE, value |-> r] : r \in known} : e \in getEntry(id)}
(* References are followed to their end, at most 20 of them.                 *)
RECURSIVE resolveReference(_, _)
resolveReference(value, count) ==
  IF value.kind # "reference" \/ count = 20 THEN {value}
  ELSE UNION {IF r.found THEN resolveReference(r.value, count + 1) ELSE {r.value} :
              r \in getResource(value.data, value)}

-----------------------------------------------------------------------------
(* Bags.                                                                    *)

Less(a, b) == \/ a[1] < b[1]
              \/ a[1] = b[1] /\ (a[2] < b[2] \/ (a[2] = b[2] /\ a[3] < b[3]))

(* Mutant: an attribute of the parent is not replaced.                       *)
Bug_AppendOnly(m, attr) == [bag |-> Append(m.bag, attr), cur |-> Len(m.bag) + 1]

(* One round of the merge: cur is where the last one went.                   *)
Merge(m, attr) ==
  LET behind == {i \in m.cur + 1 .. Len(m.bag) : ~Less(m.bag[i][1], attr[1])}
      at == IF behind = {} THEN Len(m.bag) + 1
            ELSE CHOOSE i \in behind : \A j \in behind : i <= j
  IN IF behind # {} /\ m.bag[at][1] = attr[1]
     THEN [bag |-> [m.bag EXCEPT ![at] = attr], cur |-> at]
     ELSE [bag |-> SubSeq(m.bag, 1, at - 1) \o <<attr>> \o SubSeq(m.bag, at, Len(m.bag)),
           cur |-> at]

(* The IDs of types and entries known.                                        *)
KnownIDs ==
  UNION {UNION {{<<g.id, t, e>> : e \in DOMAIN g.types[t][1].type.entries} :
                t \in DOMAIN g.types} : g \in ToSet(table.groups)}

(* An attribute with its name and value translated, or none.                 *)
Translated(group, attr) ==
  {<<name, value>> : name \in lookupResourceId(group, attr[1]),
                     value \in lookupResourceValue(group, attr[2])}

(* A cached bag, or the mark 0xFFFFFFFF: in work, or failed.  With it, how   *)
(* many files were there when the oldest bag it is made of was computed.     *)
Mark == [done |-> FALSE, attrs |-> <<>>, files |-> Len(loaded)]
Bag(attrs, files) == [done |-> TRUE, attrs |-> attrs, files |-> files]

(* The cache after asking for id: what is not there is marked, its parent    *)
(* asked for, and its own attributes merged into those of the parent.        *)
RECURSIVE getBagLocked(_, _)
getBagLocked(cache, id) ==
  IF id \notin KnownIDs \/ id \in DOMAIN cache THEN cache
  ELSE
  LET group == table.groups[GroupOf(id)]
      marked == Put(cache, id, Mark)
      value == {ValueOf(e) : e \in getEntry(id)}
  IN IF value = {} THEN marked
     ELSE
     LET v == CHOOSE x \in value : TRUE
         parent == IF v.parent = NoID THEN {NoID} ELSE lookupResourceId(group, v.parent)
         after == UNION {IF p = NoID THEN {marked} ELSE {getBagLocked(marked, p)} : p \in parent}
         attrs == [i \in DOMAIN v.attrs |-> Translated(group, v.attrs[i])]
     IN IF parent = {} THEN marked
        ELSE
        LET p == CHOOSE x \in parent : TRUE
            c == CHOOSE x \in after : TRUE
            above == IF p \in DOMAIN c THEN c[p] ELSE Mark
        IN IF \E i \in DOMAIN attrs : attrs[i] = {} THEN c
           ELSE Put(c, id, Bag(FoldLeft(
                  LAMBDA m, a : Merge(m, CHOOSE x \in a : TRUE),
                  [bag |-> above.attrs, cur |-> 0], attrs).bag, above.files))

(* Only bags are asked for.                                                  *)
IsBag(id) == \E e \in getEntry(id) : ValueOf(e).kind = "bag"
lockBag(id) ==
  /\ IsBag(id)
  /\ bags' = getBagLocked(bags, id)
  /\ UNCHANGED tableVars

(* Adding a package leaves the cache as it is; only setParameters clears it.  *)
AddKeepingBags == AddPackage /\ UNCHANGED bags
clearBagCache == (\E p \in Config : setParameters(p)) /\ bags' = << >>

BagsInit == TableInit /\ bags = << >>
BagsNext ==
  \/ AddKeepingBags
  \/ \E id \in KnownIDs : lockBag(id)
  \/ clearBagCache
BagsSpec == BagsInit /\ [][BagsNext]_bagVars

-----------------------------------------------------------------------------
(* What the files mean, by name.                                            *)

(* The file that an ID in a file f means, if it is loaded.                   *)
Means(f, id) ==
  IF id[1] = 0 THEN {f}
  ELSE {x \in ToSet(loaded) :
          \/ x.id = id[1]
          \/ x.name \in DOMAIN f.libs /\ f.libs[x.name] = id[1]}
RuntimeID(f) == (CHOOSE g \in ToSet(table.groups) : f \in ToSet(g.files)).id

(* What a value in file f denotes: where the references of the files lead.   *)
RECURSIVE Denotes(_, _)
Denotes(f, v) ==
  IF v.kind # "dynamic" THEN {v}
  ELSE UNION {Denotes(m, m.types[v.data[2]].entries[v.data[3]].defs["any"]) :
              m \in Means(f, v.data)}

(* Whatever the order in which packages are added, following a reference of  *)
(* one of them, through getResource and resolveReference, ends at the value  *)
(* it was compiled against, and finds none only while a package on the way   *)
(* is not loaded.                                                            *)
ReferencesReachTheirPackage ==
  \A f \in ToSet(loaded) : f.target = NoName =>
    \A t \in DOMAIN f.types : \A e \in DOMAIN f.types[t].entries :
      LET id == <<RuntimeID(f), t, e>>
          reference == [kind |-> "reference", data |-> id]
      IN \A best \in getEntry(id) :
           best.file = f.name /\ ValueOf(best).kind = "dynamic" =>
             {x \in resolveReference(reference, 0) : x.kind = "datum"}
               = Denotes(f, ValueOf(best))

(* Its chain of parents resolves, and what the attributes on it then are, the *)
(* nearest first.                                                           *)
RECURSIVE Resolves(_), Chain(_)
Parents(id, v) ==
  IF v.parent = NoID THEN {} ELSE lookupResourceId(table.groups[GroupOf(id)], v.parent)
Resolves(id) ==
  /\ HasGroup(id)
  /\ \E e \in getEntry(id) : LET v == ValueOf(e) IN
       /\ \A i \in DOMAIN v.attrs : Translated(table.groups[GroupOf(id)], v.attrs[i]) # {}
       /\ v.parent # NoID => \E p \in Parents(id, v) : Resolves(p)
Chain(id) ==
  UNION {LET v == ValueOf(e)
             own == UNION {Translated(table.groups[GroupOf(id)], v.attrs[i]) : i \in DOMAIN v.attrs}
         IN own \cup {a \in UNION {Chain(p) : p \in Parents(id, v)} : \A o \in own : o[1] # a[1]} :
         e \in getEntry(id)}

(* getBagLocked: in whatever order bags are asked for and from whatever is   *)
(* cached, a bag is what its chain of parents says, sorted, and never        *)
(* fails if they resolve, as long as no package has come since.              *)
BagsInherit ==
  \A id \in DOMAIN bags : bags[id].files = Len(loaded) /\ Resolves(id) =>
    LET attrs == bags[id].attrs IN
    /\ bags[id].done
    /\ ToSet(attrs) = Chain(id)
    /\ \A i \in 1 .. Len(attrs) - 1 : Less(attrs[i][1], attrs[i + 1][1])
=============================================================================
