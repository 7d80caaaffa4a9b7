-------------------------- MODULE ResTableConfig --------------------------
(***************************************************************************)
(* ResTable_config (libs/androidfw/ResourceTypes.cpp): which configurations  *)
(* match a device, and which of two is the better one for it; and the scan   *)
(* of ResTable::getEntry that picks the best candidate of an entry.          *)
(*                                                                          *)
(* A configuration is a function from qualifiers to numbers, 0 for "any".    *)
(* Fields packed into one word (inputFlags, screenLayout, uiMode) are        *)
(* qualifiers of their own.  A script or variant is its first letter.        *)
(***************************************************************************)
EXTENDS Integers, Sequences, FiniteSets

CONSTANTS
  ValuesOf,   \* qualifier -> the values that configurations and devices have
  Focus       \* <<Q, n>>: n candidates that differ in the qualifiers Q only

DENSITY_MEDIUM == 160
DENSITY_ANY == 65534     \* 0xfffe
SCREENSIZE_NORMAL == 2
KEYSHIDDEN_NO == 1
KEYSHIDDEN_SOFT == 3

(* The qualifiers in the order in which isBetterThan looks at them; the two  *)
(* dimensions of a screen are looked at together.                            *)
Qualifiers ==
  <<"mcc", "mnc", "language", "country", "localeScript", "localeVariant",
    "layoutDir", "smallestScreenWidthDp", "screenWidthDp", "screenHeightDp",
    "screenLayoutSize", "screenLong", "orientation", "uiModeType", "uiModeNight",
    "density", "touchscreen", "keysHidden", "navHidden", "keyboard",
    "navigation", "screenWidth", "screenHeight", "sdkVersion", "minorVersion">>
Qualifier == {Qualifiers[i] : i \in DOMAIN Qualifiers}

ASSUME ValuesAssumption == ValuesOf \in [Qualifier -> SUBSET Nat]
ASSUME FocusAssumption == \A f \in Focus : f[1] \subseteq Qualifier /\ f[2] \in Nat

AtMost == {"screenLayoutSize", "smallestScreenWidthDp", "screenWidthDp",
           "screenHeightDp", "screenWidth", "screenHeight", "sdkVersion"}
Unmatched == {"localeScript", "localeVariant", "density"}

-----------------------------------------------------------------------------
(* match: settings is the configuration of the device.  A value must be that *)
(* of the device, or not exceed it; a device with a soft keyboard also takes *)
(* what is meant for visible keys.                                           *)
match(c, settings) ==
  \A q \in Qualifier \ Unmatched :
    \/ c[q] = 0
    \/ c[q] = settings[q]
    \/ q \in AtMost /\ c[q] < settings[q]
    \/ q = "keysHidden" /\ c[q] = KEYSHIDDEN_NO /\ settings[q] = KEYSHIDDEN_SOFT

(* What a qualifier says of configurations c and o: which is better, or      *)
(* Neither.                                                                  *)
Neither == "neither"
Mine == "mine"
Other == "other"
If(better) == IF better THEN Mine ELSE Other

(* Any value is better than none, if the device has one.                     *)
Named(c, o, r) == IF c # o /\ r # 0 THEN If(c # 0) ELSE Neither

(* The sum of the differences to the requested width and height.             *)
Delta(c, r, width, height) ==
  (IF r[width] # 0 THEN r[width] - c[width] ELSE 0)
    + (IF r[height] # 0 THEN r[height] - c[height] ELSE 0)
Closer(c, o, r, width, height) ==
  LET mine == Delta(c, r, width, height)
      other == Delta(o, r, width, height)
  IN IF mine = other THEN Neither ELSE If(mine < other)

(* An undefined size counts as normal, if the device is at least normal.     *)
ScreenSize(c, o, r) ==
  LET fixed(size) == IF size = 0 /\ r >= SCREENSIZE_NORMAL THEN SCREENSIZE_NORMAL
                                                           ELSE size
  IN IF c = o \/ r = 0 THEN Neither
     ELSE IF fixed(c) = fixed(o) THEN If(c # 0) ELSE If(fixed(c) > fixed(o))

(* DENSITY_ANY is never scaled; scaling down is better than scaling up.      *)
Density(c, o, r) ==
  LET mine == IF c = 0 THEN DENSITY_MEDIUM ELSE c
      other == IF o = 0 THEN DENSITY_MEDIUM ELSE o
      want == IF r \in {0, DENSITY_ANY} THEN DENSITY_MEDIUM ELSE r
      bigger == mine >= other
      h == IF bigger THEN mine ELSE other
      l == IF bigger THEN other ELSE mine
  IN IF c = o THEN Neither
     ELSE IF mine = DENSITY_ANY THEN Mine
     ELSE IF other = DENSITY_ANY THEN Other
     ELSE IF want >= h THEN If(bigger)
     ELSE IF l >= want THEN If(~bigger)
     ELSE IF (2 * l - want) * h > want * want THEN If(~bigger) ELSE If(bigger)

(* Mutant: visible keys and a soft keyboard are as good as each other.       *)
Bug_SoftIsVisible(c, o, r) ==
  IF c = o \/ r = 0 THEN Neither ELSE IF c = 0 THEN Other
  ELSE IF o = 0 THEN Mine ELSE Neither
(* An exact match is better than the one that is there for compatibility.    *)
KeysHidden(c, o, r) ==
  IF c = o \/ r = 0 THEN Neither
  ELSE IF c = 0 THEN Other
  ELSE IF o = 0 \/ r = c THEN Mine
  ELSE IF r = o THEN Other ELSE Neither
(* Of two different values for hidden navigation none is preferred.          *)
NavHidden(c, o, r) ==
  IF c # 0 /\ o # 0 THEN Neither ELSE Named(c, o, r)

Says(q, c, o, r) ==
  CASE q = "layoutDir" ->
         IF c[q] # o[q] /\ r[q] # 0 THEN If(c[q] > o[q]) ELSE Neither
    [] q = "smallestScreenWidthDp" ->
         IF c[q] # o[q] THEN If(c[q] > o[q]) ELSE Neither
    [] q = "screenWidthDp" -> Closer(c, o, r, q, "screenHeightDp")
    [] q = "screenWidth" -> Closer(c, o, r, q, "screenHeight")
    [] q \in {"screenHeightDp", "screenHeight"} -> Neither
    [] q = "screenLayoutSize" -> ScreenSize(c[q], o[q], r[q])
    [] q = "density" -> Density(c[q], o[q], r[q])
    [] q = "keysHidden" -> KeysHidden(c[q], o[q], r[q])
    [] q = "navHidden" -> NavHidden(c[q], o[q], r[q])
    [] q = "sdkVersion" ->
         IF c[q] # o[q] /\ r[q] # 0 THEN If(c[q] > o[q]) ELSE Neither
    [] OTHER -> Named(c[q], o[q], r[q])

(* The first qualifier that says something decides.                          *)
isBetterThan(c, o, requested) ==
  \E i \in DOMAIN Qualifiers :
    /\ Says(Qualifiers[i], c, o, requested) = Mine
    /\ \A j \in 1 .. i - 1 : Says(Qualifiers[j], c, o, requested) = Neither

-----------------------------------------------------------------------------
(* getEntry: the candidates are the configurations of all types that have    *)
(* the entry, those of overlays behind those of the package they lie over.   *)

VARIABLES
  settings,    \* what the device is
  candidates,  \* the sequence of [config, overlay]
  scanned,     \* how many of them have been looked at
  best         \* the place of the best one so far, or 0

configVars == <<settings, candidates, scanned, best>>

(* An overlay replaces what it is equal to.                                  *)
Replaces(c, o, requested) ==
  isBetterThan(c.config, o.config, requested) \/ (c.overlay /\ c.config = o.config)

(* The configurations that say nothing beyond the qualifiers Q.             *)
Varied(Q) ==
  {[q \in Qualifier |-> IF q \in Q THEN v[q] ELSE 0] :
     v \in {w \in [Q -> UNION {ValuesOf[q] : q \in Q}] : \A q \in Q : w[q] \in ValuesOf[q]}}

ConfigInit ==
  /\ \E f \in Focus :
       /\ settings \in Varied(f[1])
       /\ \E configs \in [1 .. f[2] -> Varied(f[1])], own \in 0 .. f[2] :
            candidates = [i \in 1 .. f[2] |-> [config |-> configs[i], overlay |-> i > own]]
  /\ scanned = 0 /\ best = 0

ScanEntry ==
  LET i == scanned + 1
      c == candidates[i]
  IN /\ scanned < Len(candidates)
     /\ scanned' = i
     /\ best' = IF /\ match(c.config, settings)
                   /\ best # 0 => Replaces(c, candidates[best], settings)
                THEN i ELSE best
     /\ UNCHANGED <<settings, candidates>>

ConfigSpec == ConfigInit /\ [][ScanEntry]_configVars

-----------------------------------------------------------------------------
(* isBetterThan does not order two configurations with different scripts or *)
(* variants (each is better than the other), nor one without density and one *)
(* with the density that it stands for.                                      *)
Ordered(c, o) ==
  /\ \A q \in {"localeScript", "localeVariant"} : 0 \in {c[q], o[q]} \/ c[q] = o[q]
  /\ {c["density"], o["density"]} # {0, DENSITY_MEDIUM}

(* What is as good as the device's own configuration, or better: a density   *)
(* that needs no scaling, and a script that the device does not ask for.     *)
AsGoodAsOwn(c) ==
  \/ c["density"] = DENSITY_ANY
  \/ \E q \in {"localeScript", "localeVariant"} : settings[q] = 0 /\ c[q] # 0

(* One scan, which never looks back, finds the best candidate whatever their *)
(* order: it matches, nothing that matches is better than it, it is the      *)
(* device's own configuration if there is that, and the last overlay of it   *)
(* has replaced it.                                                          *)
BestConfigWins ==
  LET fits == {i \in 1 .. scanned : match(candidates[i].config, settings)}
      config(i) == candidates[i].config
  IN (\A i, j \in fits : Ordered(config(i), config(j))) =>
     IF fits = {} THEN best = 0
     ELSE /\ best \in fits
          /\ \A i \in fits : ~ isBetterThan(config(i), config(best), settings)
          /\ settings \in {config(i) : i \in fits} =>
               config(best) = settings \/ \E i \in fits : AsGoodAsOwn(config(i))
          /\ \A i \in fits : config(i) = config(best) /\ candidates[i].overlay => i <= best
=============================================================================
