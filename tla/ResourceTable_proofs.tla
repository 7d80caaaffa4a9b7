------------------------ MODULE ResourceTable_proofs ------------------------
(***************************************************************************)
(* Proofs about ResTableConfig for any configurations, any number of       *)
(* candidates and any numbers as values: isBetterThan is transitive, and   *)
(* the scan of getEntry therefore finds the best candidate.                *)
(*                                                                         *)
(* Proofs about ResourceTable for any package files as aapt makes them,    *)
(* in any order: a definition comes from the last overlay that has it, and *)
(* an ID compiled for something in a library is translated to the ID that  *)
(* the library got.                                                        *)
(***************************************************************************)
EXTENDS ResTableConfig, ResourceTable, TLAPS, NaturalsInduction, WellFoundedInduction, FiniteSetTheorems

-----------------------------------------------------------------------------
(* What one qualifier says                                                  *)

Configuration == [Qualifier -> Nat]

\* s is said of a first and a second, t of the second and a third, u of the
\* first and the third.
Chains(s, t, u) ==
  s # Other /\ t # Other => u = IF s = Neither /\ t = Neither THEN Neither ELSE Mine

\* The values of a qualifier for which Named is an order.
NamedValues(c, o) == 0 \in {c, o} \/ c = o

LEMMA NamedChains ==
  ASSUME NEW c \in Nat, NEW o \in Nat, NEW e \in Nat, NEW r \in Nat,
         NamedValues(c, o), NamedValues(o, e), NamedValues(c, e)
  PROVE  Chains(Named(c, o, r), Named(o, e, r), Named(c, e, r))
BY DEF Chains, NamedValues, Named, If, Mine, Other, Neither

LEMMA NavHiddenChains ==
  ASSUME NEW c \in Nat, NEW o \in Nat, NEW e \in Nat, NEW r \in Nat,
         NamedValues(c, o), NamedValues(o, e), NamedValues(c, e)
  PROVE  Chains(NavHidden(c, o, r), NavHidden(o, e, r), NavHidden(c, e, r))
BY DEF Chains, NamedValues, NavHidden, Named, If, Mine, Other, Neither

Larger(c, o) == IF c # o THEN If(c > o) ELSE Neither

LEMMA LargerChains ==
  ASSUME NEW c \in Nat, NEW o \in Nat, NEW e \in Nat
  PROVE  Chains(Larger(c, o), Larger(o, e), Larger(c, e))
BY DEF Chains, Larger, If, Mine, Other, Neither

LEMMA NeitherChains == Chains(Neither, Neither, Neither)
BY DEF Chains, Neither, Other

LEMMA DeltaType ==
  ASSUME NEW c \in Configuration, NEW r \in Configuration, NEW w \in Qualifier, NEW h \in Qualifier
  PROVE  Delta(c, r, w, h) \in Int
BY DEF Delta, Configuration

LEMMA CloserChains ==
  ASSUME NEW c \in Configuration, NEW o \in Configuration, NEW e \in Configuration, NEW r \in Configuration,
         NEW w \in Qualifier, NEW h \in Qualifier
  PROVE  Chains(Closer(c, o, r, w, h), Closer(o, e, r, w, h), Closer(c, e, r, w, h))
<1>1. /\ Delta(c, r, w, h) \in Int
      /\ Delta(o, r, w, h) \in Int
      /\ Delta(e, r, w, h) \in Int
  BY DeltaType
<1> QED BY <1>1 DEF Chains, Closer, If, Mine, Other, Neither

LEMMA ScreenSizeChains ==
  ASSUME NEW c \in Nat, NEW o \in Nat, NEW e \in Nat, NEW r \in Nat
  PROVE  Chains(ScreenSize(c, o, r), ScreenSize(o, e, r), ScreenSize(c, e, r))
BY DEF Chains, ScreenSize, SCREENSIZE_NORMAL, If, Mine, Other, Neither

\* What matches a device with keys r.
KeysValue(c, r) == c = 0 \/ c = r \/ (c = KEYSHIDDEN_NO /\ r = KEYSHIDDEN_SOFT)

LEMMA KeysHiddenChains ==
  ASSUME NEW c \in Nat, NEW o \in Nat, NEW e \in Nat, NEW r \in Nat,
         KeysValue(c, r), KeysValue(o, r), KeysValue(e, r)
  PROVE  Chains(KeysHidden(c, o, r), KeysHidden(o, e, r), KeysHidden(c, e, r))
BY DEF Chains, KeysHidden, KeysValue, KEYSHIDDEN_NO, KEYSHIDDEN_SOFT, Mine, Other, Neither

-----------------------------------------------------------------------------
(* Densities                                                                *)

\* A device of density w scales the larger h down rather than the smaller l up,
\* unless this holds.
UpIsBetter(l, h, w) == (2 * l - w) * h > w * w

LEMMA TimesMonotone ==
  ASSUME NEW a \in Int, NEW b \in Int, NEW h \in Nat, a <= b
  PROVE  a * h <= b * h
<1>1. (b - a) * h \in Nat
  OBVIOUS
<1>2. (b - a) * h = b * h - a * h
  OBVIOUS
<1> QED BY <1>1, <1>2

LEMMA UpIsBetterMonotone ==
  ASSUME NEW l \in Nat, NEW k \in Nat, NEW h \in Nat, NEW i \in Nat, NEW w \in Nat,
         l <= k, h <= i, UpIsBetter(l, h, w)
  PROVE  UpIsBetter(k, i, w)
<1> DEFINE a == 2 * l - w
           b == 2 * k - w
<1>1. a \in Int /\ b \in Int /\ a <= b
  OBVIOUS
<1>2. w * w \in Nat
  OBVIOUS
<1>3. a * h > w * w
  BY DEF UpIsBetter
<1> HIDE DEF a, b
<1>4. a > 0
  <2>1. a <= 0 => a * h <= 0 * h
    BY <1>1, TimesMonotone
  <2>2. a * h \in Int
    BY <1>1
  <2> QED BY <2>1, <2>2, <1>1, <1>2, <1>3
<1>5. a * h <= b * h
  BY <1>1, TimesMonotone
<1>6. h * b <= i * b
  BY <1>1, <1>4, TimesMonotone
<1>7. b * h \in Int /\ b * i \in Int /\ a * h \in Int /\ h * b = b * h /\ i * b = b * i
  BY <1>1
<1>8. b * i > w * w
  BY <1>2, <1>3, <1>5, <1>6, <1>7
<1> QED BY <1>8 DEF UpIsBetter, b

Dense(c) == IF c = 0 THEN DENSITY_MEDIUM ELSE c
Wanted(r) == IF r \in {0, DENSITY_ANY} THEN DENSITY_MEDIUM ELSE r

\* A density m is better than another density n for a device of density w.
Sharper(m, n, w) ==
  IF m = DENSITY_ANY THEN TRUE
  ELSE IF n = DENSITY_ANY THEN FALSE
  ELSE IF m <= w /\ n <= w THEN m > n
  ELSE IF m >= w /\ n >= w THEN m < n
  ELSE IF m < w THEN UpIsBetter(m, n, w) ELSE ~ UpIsBetter(n, m, w)

\* The values of density that are in an order.
DensityValues(c, o) == {c, o} # {0, DENSITY_MEDIUM}

LEMMA DensityIsSharper ==
  ASSUME NEW c \in Nat, NEW o \in Nat, NEW r \in Nat, DensityValues(c, o), c # o
  PROVE  Density(c, o, r) = If(Sharper(Dense(c), Dense(o), Wanted(r)))
<1> DEFINE m == Dense(c)
           n == Dense(o)
           w == Wanted(r)
<1>1. m \in Nat /\ n \in Nat /\ w \in Nat /\ m # n
  BY DEF Dense, Wanted, DENSITY_MEDIUM, DENSITY_ANY, DensityValues
<1>2. Density(c, o, r) =
        LET h == IF m >= n THEN m ELSE n
            l == IF m >= n THEN n ELSE m
        IN IF m = DENSITY_ANY THEN Mine
           ELSE IF n = DENSITY_ANY THEN Other
           ELSE IF w >= h THEN If(m >= n)
           ELSE IF l >= w THEN If(~ (m >= n))
           ELSE IF UpIsBetter(l, h, w) THEN If(~ (m >= n)) ELSE If(m >= n)
  BY Zenon DEF Density, Dense, Wanted, UpIsBetter
<1> HIDE DEF m, n, w
<1>3. CASE m = DENSITY_ANY
  BY <1>2, <1>3 DEF Sharper, If, m, n, w
<1>4. CASE m # DENSITY_ANY /\ n = DENSITY_ANY
  BY <1>2, <1>4 DEF Sharper, If, m, n, w
<1>5. CASE m # DENSITY_ANY /\ n # DENSITY_ANY /\ m >= n
  <2>1. Density(c, o, r) = IF w >= m THEN Mine ELSE IF n >= w THEN Other
                           ELSE IF UpIsBetter(n, m, w) THEN Other ELSE Mine
    BY <1>2, <1>5 DEF If
  <2>2. Sharper(m, n, w) <=> IF m <= w THEN TRUE ELSE IF n >= w THEN FALSE
                           ELSE ~ UpIsBetter(n, m, w)
    BY <1>1, <1>5 DEF Sharper
  <2> QED BY <1>1, <2>1, <2>2 DEF If, m, n, w
<1>6. CASE m # DENSITY_ANY /\ n # DENSITY_ANY /\ ~ (m >= n)
  <2>1. Density(c, o, r) = IF w >= n THEN Other ELSE IF m >= w THEN Mine
                           ELSE IF UpIsBetter(m, n, w) THEN Mine ELSE Other
    BY <1>2, <1>6 DEF If
  <2>2. Sharper(m, n, w) <=> IF n <= w THEN FALSE ELSE IF m >= w THEN TRUE
                           ELSE UpIsBetter(m, n, w)
    BY <1>1, <1>6 DEF Sharper
  <2> QED BY <1>1, <2>1, <2>2 DEF If, m, n, w
<1> QED BY <1>3, <1>4, <1>5, <1>6

LEMMA DenseType ==
  ASSUME NEW c \in Nat
  PROVE  Dense(c) \in Nat /\ Wanted(c) \in Nat
BY DEF Dense, Wanted, DENSITY_MEDIUM

LEMMA SharperTotal ==
  ASSUME NEW m \in Nat, NEW n \in Nat, NEW w \in Nat, m # n, ~ Sharper(m, n, w)
  PROVE  Sharper(n, m, w)
BY DEF Sharper

LEMMA SharperTransitive ==
  ASSUME NEW m \in Nat, NEW n \in Nat, NEW k \in Nat, NEW w \in Nat,
         m # n, n # k, m # k, Sharper(m, n, w), Sharper(n, k, w)
  PROVE  Sharper(m, k, w)
<1>1. \A a, b, h, i \in Nat : a <= b /\ h <= i /\ UpIsBetter(a, h, w) => UpIsBetter(b, i, w)
  BY UpIsBetterMonotone
<1>2. CASE DENSITY_ANY \in {m, n, k}
  BY <1>2 DEF Sharper
<1>3. CASE DENSITY_ANY \notin {m, n, k}
  <2>1. CASE m <= w /\ k <= w
    BY <1>1, <1>3, <2>1 DEF Sharper
  <2>2. CASE m >= w /\ k >= w
    BY <1>1, <1>3, <2>2 DEF Sharper
  <2>3. CASE m < w /\ k > w
    BY <1>1, <1>3, <2>3 DEF Sharper
  <2>4. CASE m > w /\ k < w
    BY <1>1, <1>3, <2>4 DEF Sharper
  <2> QED BY <2>1, <2>2, <2>3, <2>4
<1> QED BY <1>2, <1>3

LEMMA DensityChains ==
  ASSUME NEW c \in Nat, NEW o \in Nat, NEW e \in Nat, NEW r \in Nat,
         DensityValues(c, o), DensityValues(o, e), DensityValues(c, e)
  PROVE  Chains(Density(c, o, r), Density(o, e, r), Density(c, e, r))
<1>1. \A x \in Nat : Density(x, x, r) = Neither
  BY Zenon DEF Density
<1> DEFINE m == Dense(c)
           n == Dense(o)
           k == Dense(e)
           w == Wanted(r)
<1>3. m \in Nat /\ n \in Nat /\ k \in Nat /\ w \in Nat
  BY DenseType
<1>4. /\ c # o => m # n /\ Density(c, o, r) = If(Sharper(m, n, w))
      /\ o # e => n # k /\ Density(o, e, r) = If(Sharper(n, k, w))
      /\ c # e => m # k /\ Density(c, e, r) = If(Sharper(m, k, w))
  <2>1. /\ c # o => m # n
        /\ o # e => n # k
        /\ c # e => m # k
    BY DEF DensityValues, Dense, DENSITY_MEDIUM
  <2> QED BY <2>1, DensityIsSharper
<1>5. c = e => m = k
  OBVIOUS
<1> HIDE DEF m, n, k, w
<1>2. CASE c = o \/ o = e
  BY <1>1, <1>2, <1>4 DEF Chains, If, Neither, Mine, Other
<1>6. CASE c # o /\ o # e /\ Sharper(m, n, w) /\ Sharper(n, k, w)
  <2>1. m # n /\ n # k
    BY <1>4, <1>6
  <2>2. ~ (Sharper(m, n, w) /\ Sharper(n, m, w))
    BY <1>3, <2>1 DEF Sharper
  <2>3. c # e
    BY <1>5, <1>6, <2>2
  <2>4. Sharper(m, k, w)
    BY <1>3, <1>4, <1>6, <2>1, <2>3, SharperTransitive
  <2>5. Density(c, e, r) = Mine
    BY <1>4, <2>3, <2>4 DEF If
  <2>6. Density(c, o, r) = Mine
    BY <1>4, <1>6 DEF If
  <2> QED BY <2>5, <2>6 DEF Chains, Neither, Mine, Other
<1>7. CASE c # o /\ o # e /\ ~ (Sharper(m, n, w) /\ Sharper(n, k, w))
  BY <1>4, <1>7 DEF Chains, If, Neither, Mine, Other
<1> QED BY <1>2, <1>6, <1>7

-----------------------------------------------------------------------------
(* Configurations that match                                                *)

Fits(c, r) == c \in Configuration /\ match(c, r)
Special == {"layoutDir", "smallestScreenWidthDp", "screenWidthDp", "screenWidth",
            "screenHeightDp", "screenHeight", "screenLayoutSize", "density",
            "keysHidden", "navHidden", "sdkVersion"}

LEMMA SaysPlain ==
  ASSUME NEW q \in Qualifier \ Special, NEW c, NEW o, NEW r
  PROVE  Says(q, c, o, r) = Named(c[q], o[q], r[q])
BY DEF Says, Special

LEMMA SaysSpecial ==
  ASSUME NEW c, NEW o, NEW r
  PROVE  /\ Says("layoutDir", c, o, r) =
              IF r["layoutDir"] # 0 THEN Larger(c["layoutDir"], o["layoutDir"]) ELSE Neither
         /\ Says("sdkVersion", c, o, r) =
              IF r["sdkVersion"] # 0 THEN Larger(c["sdkVersion"], o["sdkVersion"]) ELSE Neither
         /\ Says("smallestScreenWidthDp", c, o, r) =
              Larger(c["smallestScreenWidthDp"], o["smallestScreenWidthDp"])
         /\ Says("screenWidthDp", c, o, r) =
              Closer(c, o, r, "screenWidthDp", "screenHeightDp")
         /\ Says("screenWidth", c, o, r) = Closer(c, o, r, "screenWidth", "screenHeight")
         /\ Says("screenHeightDp", c, o, r) = Neither
         /\ Says("screenHeight", c, o, r) = Neither
         /\ Says("screenLayoutSize", c, o, r) =
              ScreenSize(c["screenLayoutSize"], o["screenLayoutSize"], r["screenLayoutSize"])
         /\ Says("density", c, o, r) = Density(c["density"], o["density"], r["density"])
         /\ Says("keysHidden", c, o, r) =
              KeysHidden(c["keysHidden"], o["keysHidden"], r["keysHidden"])
         /\ Says("navHidden", c, o, r) =
              NavHidden(c["navHidden"], o["navHidden"], r["navHidden"])
BY DEF Says, Larger

LEMMA QualifierValues ==
  /\ DOMAIN Qualifiers = 1 .. 25
  /\ \A i \in 1 .. 25 : Qualifiers[i] \in Qualifier
  /\ Special \subseteq Qualifier
  /\ {"localeScript", "localeVariant"} \subseteq Qualifier \ Special
<1>1. DOMAIN Qualifiers = 1 .. 25
  BY DEF Qualifiers
<1>2. Special \cup {"localeScript", "localeVariant"} \subseteq {Qualifiers[i] : i \in 1 .. 25}
  BY DEF Special, Qualifiers
<1>3. {"localeScript", "localeVariant"} \cap Special = {}
  BY DEF Special
<1> QED BY <1>1, <1>2, <1>3 DEF Qualifier

\* What match says of a value of one qualifier.
Matches(q, v, r) ==
  \/ v = 0 \/ v = r
  \/ q \in AtMost /\ v < r
  \/ q = "keysHidden" /\ v = KEYSHIDDEN_NO /\ r = KEYSHIDDEN_SOFT

LEMMA FitsValue ==
  ASSUME NEW r \in Configuration, NEW c, Fits(c, r), NEW q \in Qualifier
  PROVE  /\ c \in Configuration /\ c[q] \in Nat /\ r[q] \in Nat
         /\ q \in Unmatched \/ Matches(q, c[q], r[q])
BY DEF Fits, Configuration, match, Matches

LEMMA NamedFits ==
  ASSUME NEW r \in Configuration, NEW c, NEW o, Fits(c, r), Fits(o, r), Ordered(c, o),
         NEW q \in Qualifier, q \notin Special \/ q = "navHidden"
  PROVE  NamedValues(c[q], o[q])
<1>1. CASE q \in {"localeScript", "localeVariant"}
  BY <1>1 DEF Ordered, NamedValues
<1>2. CASE q \notin {"localeScript", "localeVariant"}
  <2>1. q \notin Unmatched /\ q \notin AtMost /\ q # "keysHidden"
    BY <1>2 DEF Special, Unmatched, AtMost
  <2> QED BY <2>1, FitsValue DEF Matches, NamedValues
<1> QED BY <1>1, <1>2

\* Every qualifier is transitive about configurations that match.
LEMMA SaysChains ==
  ASSUME NEW r \in Configuration, NEW c, NEW o, NEW e,
         Fits(c, r), Fits(o, r), Fits(e, r), Ordered(c, o), Ordered(o, e), Ordered(c, e),
         NEW q \in Qualifier
  PROVE  Chains(Says(q, c, o, r), Says(q, o, e, r), Says(q, c, e, r))
<1>1. /\ c[q] \in Nat /\ o[q] \in Nat /\ e[q] \in Nat /\ r[q] \in Nat
      /\ c \in Configuration /\ o \in Configuration /\ e \in Configuration
  BY FitsValue
<1>2. q \notin Special \/ q = "navHidden" =>
        /\ NamedValues(c[q], o[q])
        /\ NamedValues(o[q], e[q])
        /\ NamedValues(c[q], e[q])
  BY NamedFits
<1>3. CASE q \notin Special
  BY <1>1, <1>2, <1>3, SaysPlain, NamedChains
<1>4. CASE q \in {"layoutDir", "sdkVersion", "smallestScreenWidthDp"}
  BY <1>1, <1>4, SaysSpecial, LargerChains, NeitherChains
<1>5. CASE q \in {"screenWidthDp", "screenWidth"}
  <2>1. {"screenWidthDp", "screenWidth", "screenHeightDp", "screenHeight"} \subseteq Qualifier
    BY QualifierValues DEF Special
  <2> QED BY <1>1, <1>5, <2>1, SaysSpecial, CloserChains
<1>6. CASE q \in {"screenHeightDp", "screenHeight"}
  BY <1>6, SaysSpecial, NeitherChains
<1>7. CASE q = "screenLayoutSize"
  BY <1>1, <1>7, SaysSpecial, ScreenSizeChains
<1>8. CASE q = "density"
  <2>1. DensityValues(c[q], o[q]) /\ DensityValues(o[q], e[q]) /\ DensityValues(c[q], e[q])
    BY <1>8 DEF Ordered, DensityValues
  <2>2. Chains(Density(c[q], o[q], r[q]), Density(o[q], e[q], r[q]), Density(c[q], e[q], r[q]))
    BY <1>1, <2>1, DensityChains
  <2> QED BY <1>8, <2>2, SaysSpecial
<1>9. CASE q = "keysHidden"
  <2>1. KeysValue(c[q], r[q]) /\ KeysValue(o[q], r[q]) /\ KeysValue(e[q], r[q])
    BY <1>9, FitsValue DEF Matches, KeysValue, Unmatched, AtMost
  <2> QED BY <1>1, <1>9, <2>1, SaysSpecial, KeysHiddenChains
<1>10. CASE q = "navHidden"
  BY <1>1, <1>2, <1>10, SaysSpecial, NavHiddenChains
<1> QED BY <1>3, <1>4, <1>5, <1>6, <1>7, <1>8, <1>9, <1>10 DEF Special

\* No qualifier says that a configuration is better than itself.
LEMMA SaysNothingOfItself ==
  ASSUME NEW c \in Configuration, NEW r \in Configuration, NEW q \in Qualifier
  PROVE  Says(q, c, c, r) = Neither
<1>1. CASE q \notin Special
  BY <1>1, SaysPlain DEF Named
<1>2. CASE q \in Special
  BY <1>2, SaysSpecial
  DEF Special, Larger, Closer, ScreenSize, Density, KeysHidden, NavHidden, Named
<1> QED BY <1>1, <1>2

-----------------------------------------------------------------------------
(* isBetterThan *)

LEMMA BetterIrreflexive ==
  ASSUME NEW c \in Configuration, NEW r \in Configuration
  PROVE  ~ isBetterThan(c, c, r)
BY SaysNothingOfItself, QualifierValues DEF isBetterThan, Neither, Mine

LEMMA BetterTransitive ==
  ASSUME NEW r \in Configuration, NEW c, NEW o, NEW e,
         Fits(c, r), Fits(o, r), Fits(e, r), Ordered(c, o), Ordered(o, e), Ordered(c, e),
         isBetterThan(c, o, r), isBetterThan(o, e, r)
  PROVE  isBetterThan(c, e, r)
<1> DEFINE co(i) == Says(Qualifiers[i], c, o, r)
           oe(i) == Says(Qualifiers[i], o, e, r)
           ce(i) == Says(Qualifiers[i], c, e, r)
<1>1. \A i \in 1 .. 25 : Chains(co(i), oe(i), ce(i))
  BY SaysChains, QualifierValues
<1>2. PICK i \in 1 .. 25 : co(i) = Mine /\ \A j \in 1 .. i - 1 : co(j) = Neither
  BY QualifierValues DEF isBetterThan
<1>3. PICK k \in 1 .. 25 : oe(k) = Mine /\ \A j \in 1 .. k - 1 : oe(j) = Neither
  BY QualifierValues DEF isBetterThan
<1> HIDE DEF co, oe, ce
<1> DEFINE m == IF i <= k THEN i ELSE k
<1>4. m \in 1 .. 25 /\ \A j \in 1 .. m - 1 : j \in 1 .. 25 /\ j < i /\ j < k
  OBVIOUS
<1>5. \A j \in 1 .. m - 1 : ce(j) = Neither
  BY <1>1, <1>2, <1>3, <1>4 DEF Chains, Neither, Other
<1>6. ce(m) = Mine
  BY <1>1, <1>2, <1>3, <1>4 DEF Chains, Neither, Mine, Other
<1>7. \E n \in 1 .. 25 : ce(n) = Mine /\ \A j \in 1 .. n - 1 : ce(j) = Neither
  BY <1>4, <1>5, <1>6
<1> QED BY <1>7, QualifierValues DEF isBetterThan, ce

-----------------------------------------------------------------------------
(* The device's own configuration *)

\* Of a configuration that matches, the device's own says as much in every
\* qualifier, or more; if it says as much in all of them it is the same.
LEMMA OwnSays ==
  ASSUME NEW b, Fits(b, settings), settings \in Configuration,
         Ordered(settings, b), ~ AsGoodAsOwn(b), NEW q \in Qualifier
  PROVE  /\ Says(q, settings, b, settings) \in {Mine, Neither}
         /\ /\ Says(q, settings, b, settings) = Neither
            /\ q = "screenHeightDp" => Says("screenWidthDp", settings, b, settings) = Neither
            /\ q = "screenHeight" => Says("screenWidth", settings, b, settings) = Neither
            => settings[q] = b[q]
<1> DEFINE r == settings
           says == Says(q, r, b, r)
<1>1. b[q] \in Nat /\ r[q] \in Nat /\ b \in Configuration
  BY FitsValue
<1>2. CASE q \notin Special \/ q = "navHidden"
  <2>1. b[q] = 0 \/ b[q] = r[q]
    <3>1. CASE q \in {"localeScript", "localeVariant"}
      BY <3>1 DEF Ordered, AsGoodAsOwn
    <3>2. CASE q \notin {"localeScript", "localeVariant"}
      <4>1. q \notin Unmatched /\ q \notin AtMost /\ q # "keysHidden"
        BY <1>2, <3>2 DEF Special, Unmatched, AtMost
      <4> QED BY <4>1, FitsValue DEF Matches
    <3> QED BY <3>1, <3>2
  <2>2. says = Named(r[q], b[q], r[q]) \/ says = NavHidden(r[q], b[q], r[q])
    BY <1>2, SaysPlain, SaysSpecial
  <2>3. q \notin {"screenHeightDp", "screenHeight"}
    BY <1>2 DEF Special
  <2> QED BY <1>1, <2>1, <2>2, <2>3 DEF Named, NavHidden, If, Mine, Other, Neither
<1>3. CASE q \in {"layoutDir", "sdkVersion", "smallestScreenWidthDp", "screenLayoutSize"}
  <2>1. b[q] <= r[q]
    BY <1>1, <1>3, FitsValue DEF Matches, Unmatched
  <2> QED BY <1>1, <1>3, <2>1, SaysSpecial
          DEF Larger, ScreenSize, SCREENSIZE_NORMAL, If, Mine, Other, Neither
<1>4. ASSUME NEW w \in {"screenWidthDp", "screenWidth"}
      PROVE  LET h == IF w = "screenWidthDp" THEN "screenHeightDp" ELSE "screenHeight"
             IN /\ Says(w, r, b, r) \in {Mine, Neither}
                /\ Says(w, r, b, r) = Neither => r[w] = b[w] /\ r[h] = b[h]
  <2> DEFINE h == IF w = "screenWidthDp" THEN "screenHeightDp" ELSE "screenHeight"
  <2>1. w \in Qualifier /\ h \in Qualifier
    BY QualifierValues DEF Special
  <2>2. b[w] \in Nat /\ r[w] \in Nat /\ b[h] \in Nat /\ r[h] \in Nat
    BY <2>1, FitsValue
  <2>3. b[w] <= r[w] /\ b[h] <= r[h]
    BY <2>1, <2>2, FitsValue DEF Matches, Unmatched
  <2>4. Says(w, r, b, r) = Closer(r, b, r, w, h)
    BY SaysSpecial
  <2> HIDE DEF h
  <2>5. /\ Delta(r, r, w, h) = 0
        /\ Delta(b, r, w, h) = (r[w] - b[w]) + (r[h] - b[h])
    BY <2>2, <2>3 DEF Delta
  <2> DEFINE d == (r[w] - b[w]) + (r[h] - b[h])
  <2>6. d \in Nat /\ (d = 0 => r[w] = b[w] /\ r[h] = b[h])
    BY <2>2, <2>3
  <2> HIDE DEF d
  <2>7. Says(w, r, b, r) = IF 0 = d THEN Neither ELSE If(0 < d)
    BY <2>4, <2>5, Zenon DEF Closer, d
  <2>8. /\ Says(w, r, b, r) \in {Mine, Neither}
        /\ Says(w, r, b, r) = Neither => r[w] = b[w] /\ r[h] = b[h]
    BY <2>6, <2>7 DEF If, Mine, Neither
  <2> QED BY <2>8 DEF h
<1>5. CASE q \in {"screenWidthDp", "screenWidth"}
  BY <1>4, <1>5
<1>6. CASE q = "screenHeightDp"
  BY <1>4, <1>6, SaysSpecial
<1>7. CASE q = "screenHeight"
  BY <1>4, <1>7, SaysSpecial
<1>8. CASE q = "keysHidden"
  <2>1. KeysValue(b[q], r[q])
    BY <1>8, FitsValue DEF Matches, KeysValue, Unmatched, AtMost
  <2> QED BY <1>1, <1>8, <2>1, SaysSpecial
          DEF KeysHidden, KeysValue, KEYSHIDDEN_NO, KEYSHIDDEN_SOFT, Mine, Other, Neither
<1>9. CASE q = "density"
  <2>1. says = Density(r[q], b[q], r[q])
    BY <1>9, SaysSpecial
  <2>2. CASE r[q] = b[q]
    BY <1>9, <2>1, <2>2 DEF Density, Neither
  <2>3. CASE r[q] # b[q]
    <3>1. Dense(r[q]) = Wanted(r[q]) \/ Dense(r[q]) = DENSITY_ANY
      BY DEF Dense, Wanted, DENSITY_MEDIUM, DENSITY_ANY
    <3>2. Dense(b[q]) # Dense(r[q]) /\ Dense(b[q]) # DENSITY_ANY
      BY <1>9, <2>3 DEF Ordered, AsGoodAsOwn, Dense, DENSITY_MEDIUM, DENSITY_ANY
    <3>3. Sharper(Dense(r[q]), Dense(b[q]), Wanted(r[q]))
      BY <1>1, <3>1, <3>2, DenseType DEF Sharper
    <3>4. says = If(Sharper(Dense(r[q]), Dense(b[q]), Wanted(r[q])))
      BY <1>1, <1>9, <2>1, <2>3, DensityIsSharper DEF Ordered, DensityValues
    <3> QED BY <3>3, <3>4 DEF If, Mine, Neither
  <2> QED BY <2>2, <2>3
<1> QED BY <1>2, <1>3, <1>5, <1>6, <1>7, <1>8, <1>9 DEF Special

LEMMA LeastOf ==
  ASSUME NEW T \in SUBSET Nat, T # {}
  PROVE  \E x \in T : \A y \in T : x <= y
<1>1. PICK x \in T : \A y \in T : ~ (<<y, x>> \in OpToRel(<, Nat))
  BY NatLessThanWellFounded, WFMin, Zenon
<1>2. \A y \in T : ~(y < x)
  BY <1>1 DEF OpToRel
<1> QED BY <1>2

LEMMA OwnIsBetter ==
  ASSUME NEW b, Fits(b, settings), settings \in Configuration,
         Ordered(settings, b), ~ AsGoodAsOwn(b), b # settings
  PROVE  isBetterThan(settings, b, settings)
<1> DEFINE says(q) == Says(q, settings, b, settings)
           T == {i \in 1 .. 25 : says(Qualifiers[i]) # Neither}
<1>1. \A q \in Qualifier : says(q) \in {Mine, Neither}
  BY OwnSays
<1>2. PICK q \in Qualifier : settings[q] # b[q]
  BY DEF Fits, Configuration
<1>3. \E p \in Qualifier : says(p) # Neither
  <2>1. {"screenWidthDp", "screenWidth"} \subseteq Qualifier
    BY QualifierValues DEF Special
  <2> QED BY <1>2, <2>1, OwnSays
<1>4. \E i \in 1 .. 25 : says(Qualifiers[i]) # Neither
  BY <1>3, QualifierValues DEF Qualifier
<1>5. PICK i \in T : \A j \in T : i <= j
  <2>1. T \in SUBSET Nat /\ T # {}
    BY <1>4
  <2> HIDE DEF T
  <2> QED BY <2>1, LeastOf
<1>6. says(Qualifiers[i]) = Mine
  BY <1>1, <1>5, QualifierValues
<1>7. \A j \in 1 .. i - 1 : says(Qualifiers[j]) = Neither
  BY <1>5
<1> QED BY <1>5, <1>6, <1>7, QualifierValues DEF isBetterThan

-----------------------------------------------------------------------------
(* The scan *)

ScanCandidate == [config : Configuration, overlay : BOOLEAN]
ConfigTypes ==
  /\ settings \in Configuration
  /\ candidates \in Seq(ScanCandidate)
  /\ scanned \in 0 .. Len(candidates)
  /\ best \in 0 .. scanned

FitAmong(n) == {i \in 1 .. n : match(candidates[i].config, settings)}
Comparable(n) ==
  \A i, j \in FitAmong(n) : Ordered(candidates[i].config, candidates[j].config)
BestAmong(b, n) ==
  IF FitAmong(n) = {} THEN b = 0
  ELSE /\ b \in FitAmong(n)
       /\ \A i \in FitAmong(n) :
            ~ isBetterThan(candidates[i].config, candidates[b].config, settings)
       /\ \A i \in FitAmong(n) :
            candidates[i].config = candidates[b].config /\ candidates[i].overlay => i <= b

ConfigInv == ConfigTypes /\ (Comparable(scanned) => BestAmong(best, scanned))

LEMMA VariedType ==
  ASSUME NEW Q \in SUBSET Qualifier
  PROVE  Varied(Q) \subseteq Configuration
<1> SUFFICES ASSUME NEW v, v \in [Q -> UNION {ValuesOf[q] : q \in Q}],
                    \A q \in Q : v[q] \in ValuesOf[q]
             PROVE  [q \in Qualifier |-> IF q \in Q THEN v[q] ELSE 0] \in Configuration
  BY DEF Varied
<1>1. \A q \in Q : v[q] \in Nat
  BY ValuesAssumption
<1> QED BY <1>1 DEF Configuration

LEMMA ConfigInitInv == ConfigInit => ConfigInv
<1> SUFFICES ASSUME ConfigInit PROVE ConfigInv
  OBVIOUS
<1>1. PICK f \in Focus :
        /\ settings \in Varied(f[1])
        /\ \E configs \in [1 .. f[2] -> Varied(f[1])], own \in 0 .. f[2] :
             candidates = [i \in 1 .. f[2] |-> [config |-> configs[i], overlay |-> i > own]]
  BY Zenon DEF ConfigInit
<1>2. f[2] \in Nat /\ Varied(f[1]) \subseteq Configuration
  BY FocusAssumption, VariedType
<1>3. settings \in Configuration
  BY <1>1, <1>2
<1>4. PICK configs \in [1 .. f[2] -> Varied(f[1])] : \E own \in 0 .. f[2] :
        candidates = [i \in 1 .. f[2] |-> [config |-> configs[i], overlay |-> i > own]]
  BY <1>1
<1>5. PICK own \in 0 .. f[2] :
        candidates = [i \in 1 .. f[2] |-> [config |-> configs[i], overlay |-> i > own]]
  BY <1>4
<1>6. ASSUME NEW i \in 1 .. f[2]
      PROVE  [config |-> configs[i], overlay |-> i > own] \in ScanCandidate
  <2>1. configs[i] \in Configuration /\ (i > own) \in BOOLEAN
    BY <1>2
  <2> QED BY <2>1 DEF ScanCandidate
<1>7. candidates \in Seq(ScanCandidate)
  BY <1>2, <1>5, <1>6
<1>8. scanned = 0 /\ best = 0
  BY DEF ConfigInit
<1>9. FitAmong(0) = {}
  BY DEF FitAmong
<1>10. BestAmong(0, 0)
  BY <1>9 DEF BestAmong
<1> QED BY <1>3, <1>7, <1>8, <1>10 DEF ConfigInv, ConfigTypes

LEMMA FitAmongMember ==
  ASSUME NEW m, NEW i
  PROVE  i \in FitAmong(m) <=> i \in 1 .. m /\ match(candidates[i].config, settings)
BY Zenon DEF FitAmong

LEMMA CandidateType ==
  ASSUME ConfigTypes, NEW i \in 1 .. scanned
  PROVE  candidates[i].config \in Configuration
<1>1. i \in 1 .. Len(candidates) /\ candidates \in Seq(ScanCandidate)
  BY DEF ConfigTypes
<1>2. candidates[i] \in ScanCandidate
  BY <1>1
<1> QED BY <1>2 DEF ScanCandidate

\* One candidate more.
LEMMA ScanStep ==
  ASSUME ConfigTypes, ScanEntry, Comparable(scanned'), BestAmong(best, scanned)
  PROVE  BestAmong(best', scanned')
<1> DEFINE n == scanned
           k == scanned + 1
           config(i) == candidates[i].config
           better(i, j) == isBetterThan(config(i), config(j), settings)
<1>1. /\ n \in Nat /\ k \in 1 .. Len(candidates) /\ scanned' = k
      /\ settings \in Configuration
      /\ \A i \in 1 .. k : config(i) \in Configuration
  <2>1. /\ n \in Nat /\ k \in 1 .. Len(candidates) /\ scanned' = k /\ settings \in Configuration
    BY DEF ConfigTypes, ScanEntry
  <2>2. ASSUME NEW i \in 1 .. k PROVE config(i) \in Configuration
    <3>1. i \in 1 .. Len(candidates) /\ candidates \in Seq(ScanCandidate)
      BY <2>1 DEF ConfigTypes
    <3>2. candidates[i] \in ScanCandidate
      BY <3>1
    <3> QED BY <3>2 DEF ScanCandidate
  <2> QED BY <2>1, <2>2
<1>2. best' = IF match(config(k), settings) /\ (best # 0 => Replaces(candidates[k], candidates[best], settings))
              THEN k ELSE best
  BY DEF ScanEntry
<1>a. \A m, i : i \in FitAmong(m) <=> i \in 1 .. m /\ match(config(i), settings)
  BY FitAmongMember
<1>b. \A i : i \in 1 .. k <=> i \in 1 .. n \/ i = k
  BY <1>1
<1> HIDE DEF config
<1>3. FitAmong(k) = IF match(config(k), settings) THEN FitAmong(n) \cup {k} ELSE FitAmong(n)
  <2>1. \A i : i \in FitAmong(k) <=>
               i \in FitAmong(n) \/ (i = k /\ match(config(k), settings))
    BY <1>a, <1>b, Zenon
  <2> QED BY <2>1
<1> USE DEF config
<1>4. best \in 0 .. n /\ (best # 0 => best \in FitAmong(n)) /\ (best = 0 => FitAmong(n) = {})
  <2>1. best \in 0 .. n /\ 0 \notin 1 .. n
    BY DEF ConfigTypes
  <2>2. 0 \notin FitAmong(n)
    BY <1>a, <2>1
  <2> QED BY <2>1, <2>2 DEF BestAmong
<1>5. \A i \in FitAmong(k) : i \in 1 .. k /\ Fits(config(i), settings)
  BY <1>1, <1>a DEF Fits
<1>6. \A i, j \in FitAmong(k) : Ordered(config(i), config(j))
  BY <1>1 DEF Comparable
<1>7. \A i \in FitAmong(n) : i <= n /\ i \in FitAmong(k)
  <2>1. \A i \in FitAmong(n) : i \in 1 .. n
    BY <1>a
  <2>2. FitAmong(n) \subseteq FitAmong(k)
    BY <1>3
  <2> QED BY <1>1, <2>1, <2>2
<1>8. CASE ~ match(config(k), settings)
  <2>1. FitAmong(k) = FitAmong(n) /\ best' = best
    BY <1>2, <1>3, <1>8
  <2> QED BY <1>1, <2>1 DEF BestAmong
<1>9. CASE match(config(k), settings) /\ best = 0
  <2>1. FitAmong(k) = {k} /\ best' = k
    BY <1>2, <1>3, <1>4, <1>9
  <2>2. ~ better(k, k)
    BY <1>1, BetterIrreflexive
  <2> QED BY <1>1, <2>1, <2>2 DEF BestAmong
<1>10. CASE match(config(k), settings) /\ best # 0
               /\ ~ Replaces(candidates[k], candidates[best], settings)
  <2>1. FitAmong(k) = FitAmong(n) \cup {k} /\ best' = best /\ best \in FitAmong(n)
    BY <1>2, <1>3, <1>4, <1>10
  <2>2. ~ better(k, best) /\ ~ (candidates[k].overlay /\ config(k) = config(best))
    BY <1>10 DEF Replaces
  <2> QED BY <1>1, <2>1, <2>2 DEF BestAmong
<1>11. CASE match(config(k), settings) /\ best # 0
               /\ Replaces(candidates[k], candidates[best], settings)
  <2>1. FitAmong(k) = FitAmong(n) \cup {k} /\ best' = k /\ best \in FitAmong(n)
    BY <1>2, <1>3, <1>4, <1>11
  <2>2. \A i \in FitAmong(n) : ~ better(i, best)
    BY <2>1 DEF BestAmong
  <2>3. ~ better(k, k)
    BY <1>1, BetterIrreflexive
  <2>4. better(k, best) \/ config(k) = config(best)
    BY <1>11 DEF Replaces
  <2>5. ASSUME NEW i \in FitAmong(n) PROVE ~ better(i, k)
    <3>1. i \in FitAmong(k) /\ best \in FitAmong(k) /\ k \in FitAmong(k)
      BY <1>7, <2>1
    <3>2. better(i, k) /\ better(k, best) => better(i, best)
      BY <1>1, <1>5, <1>6, <3>1, BetterTransitive
    <3> QED BY <2>2, <2>4, <3>2
  <2>6. \A i \in FitAmong(k) : i <= k /\ ~ better(i, k)
    BY <1>1, <1>5, <2>1, <2>3, <2>5
  <2> QED BY <1>1, <2>1, <2>6 DEF BestAmong
<1> QED BY <1>8, <1>9, <1>10, <1>11

LEMMA ConfigNextInv == ConfigInv /\ [ScanEntry]_configVars => ConfigInv'
<1> SUFFICES ASSUME ConfigInv, [ScanEntry]_configVars PROVE ConfigInv'
  OBVIOUS
<1>1. CASE ScanEntry
  <2>1. ConfigTypes'
    <3>1. /\ settings' = settings /\ candidates' = candidates
          /\ scanned < Len(candidates) /\ scanned' = scanned + 1
          /\ best' \in {scanned + 1, best}
      BY <1>1 DEF ScanEntry
    <3> QED BY <3>1 DEF ConfigInv, ConfigTypes
  <2>2. UNCHANGED <<settings, candidates>>
    BY <1>1 DEF ScanEntry
  <2>3. ASSUME Comparable(scanned') PROVE BestAmong(best', scanned')
    <3>1. Comparable(scanned)
      <4>1. scanned \in Nat /\ scanned' = scanned + 1
        BY <1>1 DEF ConfigInv, ConfigTypes, ScanEntry
      <4>2. FitAmong(scanned) \subseteq FitAmong(scanned')
        <5>1. \A i : i \in 1 .. scanned => i \in 1 .. scanned'
          BY <4>1
        <5>2. \A m, i : i \in FitAmong(m) <=>
                        i \in 1 .. m /\ match(candidates[i].config, settings)
          BY FitAmongMember
        <5> QED BY <5>1, <5>2
      <4> QED BY <2>3, <4>2 DEF Comparable
    <3> QED BY <1>1, <2>3, <3>1, ScanStep DEF ConfigInv
  <2>4. (Comparable(scanned) => BestAmong(best, scanned))'
    BY <2>2, <2>3 DEF Comparable, BestAmong, FitAmong
  <2> QED BY <2>1, <2>4 DEF ConfigInv
<1>2. CASE UNCHANGED configVars
  BY <1>2 DEF ConfigInv, ConfigTypes, configVars, Comparable, BestAmong, FitAmong
<1> QED BY <1>1, <1>2

LEMMA ConfigInvBest == ConfigInv => BestConfigWins
<1> SUFFICES ASSUME ConfigInv PROVE BestConfigWins
  OBVIOUS
<1> DEFINE fits == FitAmong(scanned)
           config(i) == candidates[i].config
<1>1. SUFFICES ASSUME \A i, j \in fits : Ordered(config(i), config(j))
      PROVE  IF fits = {} THEN best = 0
             ELSE /\ best \in fits
                  /\ \A i \in fits : ~ isBetterThan(config(i), config(best), settings)
                  /\ settings \in {config(i) : i \in fits} =>
                       config(best) = settings \/ \E i \in fits : AsGoodAsOwn(config(i))
                  /\ \A i \in fits : config(i) = config(best) /\ candidates[i].overlay => i <= best
  BY DEF BestConfigWins, FitAmong
<1>2. BestAmong(best, scanned)
  BY <1>1 DEF ConfigInv, Comparable
<1>3. ASSUME NEW i \in fits, settings = config(i), ~ \E j \in fits : AsGoodAsOwn(config(j)),
             best \in fits
      PROVE  config(best) = settings
  <2>1. Fits(config(best), settings) /\ settings \in Configuration
    BY <1>3, FitAmongMember, CandidateType DEF ConfigInv, ConfigTypes, Fits
  <2>2. ~ isBetterThan(settings, config(best), settings)
    BY <1>2, <1>3 DEF BestAmong
  <2>3. Ordered(settings, config(best)) /\ ~ AsGoodAsOwn(config(best))
    BY <1>1, <1>3
  <2> QED BY <2>1, <2>2, <2>3, OwnIsBetter
<1> QED BY <1>2, <1>3 DEF BestAmong

\* Whatever the device, the candidates and their order, getEntry ends with a
\* candidate that none is better than, with the device's own configuration if
\* it is there, and with the last overlay of what it chose.
THEOREM BestWins == ConfigSpec => []BestConfigWins
<1>1. ConfigInv /\ [ScanEntry]_configVars => ConfigInv'
  BY ConfigNextInv
<1> QED BY <1>1, ConfigInitInv, ConfigInvBest, PTL DEF ConfigSpec

-----------------------------------------------------------------------------
LEMMA AllNaturals ==
  ASSUME NEW S \in SUBSET Nat, 0 \in S, \A n \in S : n + 1 \in S
  PROVE  S = Nat
<1> DEFINE T == Nat \ S
<1> SUFFICES ASSUME T # {} PROVE FALSE
  OBVIOUS
<1>1. PICK x \in T : \A y \in T : ~ (<<y, x>> \in OpToRel(<, Nat))
  <2>1. T \subseteq Nat
    OBVIOUS
  <2> HIDE DEF T
  <2> QED BY <2>1, NatLessThanWellFounded, WFMin, Zenon
<1>2. \A y \in T : ~(y < x)
  BY <1>1 DEF OpToRel
<1>3. x # 0 /\ x - 1 \in Nat /\ x - 1 < x
  OBVIOUS
<1>4. x - 1 \in S
  BY <1>2, <1>3
<1>5. (x - 1) + 1 \in S
  BY <1>4
<1> QED BY <1>5, <1>3

-----------------------------------------------------------------------------
(* Names *)


\* The place of name, or 0.
Place(named, name) ==
  IF IndexOf(named, name) = {} THEN 0 ELSE CHOOSE i \in IndexOf(named, name) : TRUE

LEMMA PlaceOf ==
  ASSUME NEW named, Distinct(named), NEW name
  PROVE  /\ Place(named, name) \in 0 .. Len(named) /\ Len(named) \in Nat
         /\ DOMAIN named = 1 .. Len(named)
         /\ Place(named, name) = 0 <=> IndexOf(named, name) = {}
         /\ Place(named, name) # 0 =>
              /\ named[Place(named, name)].name = name
              /\ IndexOf(named, name) = {Place(named, name)}
         /\ \A i \in DOMAIN named : named[i].name = name => Place(named, name) = i
<1>1. Len(named) \in Nat /\ DOMAIN named = 1 .. Len(named)
  BY DEF Distinct, ToSet
<1>2. CASE IndexOf(named, name) = {}
  BY <1>1, <1>2 DEF Place, IndexOf
<1>3. CASE IndexOf(named, name) # {}
  <2>1. Place(named, name) \in IndexOf(named, name)
    BY <1>3 DEF Place
  <2>2. Place(named, name) \in 1 .. Len(named) /\ named[Place(named, name)].name = name
    BY <1>1, <2>1 DEF IndexOf
  <2>3. \A i \in DOMAIN named : named[i].name = name => Place(named, name) = i
    BY <1>1, <2>2 DEF Distinct
  <2>4. IndexOf(named, name) = {Place(named, name)}
    BY <2>1, <2>3 DEF IndexOf
  <2> QED BY <1>1, <1>3, <2>2, <2>3, <2>4
<1> QED BY <1>2, <1>3

-----------------------------------------------------------------------------
(* Idmaps *)

\* The map of the first n entries of mine leads to the entries of theirs that
\* have the same name.
MapOK(map, n, mine, theirs) ==
  /\ map.offset \in Nat /\ map.entries \in Seq(Int)
  /\ map.entries = <<>> => map.offset = n
  /\ map.offset + Len(map.entries) <= n
  /\ \A e \in 1 .. n : lookup(map, e) = Place(theirs, mine[e].name)

Map == [targetType : Nat, overlayType : Nat, offset : Nat, entries : Seq(Int)]

LEMMA Concatenated ==
  ASSUME NEW S, NEW a \in Seq(S), NEW b \in Seq(S)
  PROVE  /\ a \o b \in Seq(S) /\ Len(a \o b) = Len(a) + Len(b)
         /\ \A i \in 1 .. Len(a) : (a \o b)[i] = a[i]
         /\ \A i \in 1 .. Len(b) : (a \o b)[Len(a) + i] = b[i]
OBVIOUS

Laid(map, holes, p) ==
  [map EXCEPT !.entries = @ \o [h \in 1 .. holes |-> NO_ENTRY] \o <<p - 1>>]

LEMMA EntryLaid ==
  ASSUME NEW map, NEW i, NEW name, NEW entries, IndexOf(entries, name) # {},
         NEW holes, holes = (i - 1) - (map.offset + Len(map.entries)),
         NEW p, p = Place(entries, name)
  PROVE  AddEntry(map, i, name, entries) = Laid(map, holes, p)
<1>1. p = CHOOSE e \in IndexOf(entries, name) : TRUE
  BY DEF Place
<1> QED BY <1>1 DEF AddEntry, Laid

LEMMA EntryAdded ==
  ASSUME NEW n \in Nat, NEW mine, NEW theirs, Distinct(theirs),
         NEW map \in Map, MapOK(map, n, mine, theirs)
  PROVE  LET next == AddEntry(map, n + 1, mine[n + 1].name, theirs) IN
         /\ next \in Map
         /\ next.targetType = map.targetType /\ next.overlayType = map.overlayType
         /\ MapOK(next, n + 1, mine, theirs)
<1> DEFINE name == mine[n + 1].name
           next == AddEntry(map, n + 1, name, theirs)
           p == Place(theirs, name)
           len == Len(map.entries)
<1>1. /\ map.offset \in Nat /\ map.entries \in Seq(Int) /\ len \in Nat
      /\ map.entries = <<>> => map.offset = n
      /\ map.offset + len <= n
      /\ \A e \in 1 .. n : lookup(map, e) = Place(theirs, mine[e].name)
  BY DEF MapOK
<1>2. p \in Nat
  BY PlaceOf
<1>3. CASE p = 0 /\ map.entries = <<>>
  <2>1. next = [map EXCEPT !.offset = @ + 1]
    BY <1>3, PlaceOf DEF AddEntry
  <2>2. /\ next \in Map /\ next.offset = n + 1 /\ next.entries = <<>>
        /\ next.targetType = map.targetType /\ next.overlayType = map.overlayType
    BY <1>1, <1>3, <2>1 DEF Map
  <2>3. \A e \in 1 .. n + 1 : lookup(next, e) = 0
    BY <2>2 DEF lookup
  <2>4. \A e \in 1 .. n : lookup(map, e) = 0
    BY <1>1, <1>3 DEF lookup
  <2>5. \A e \in 1 .. n + 1 : Place(theirs, mine[e].name) = 0
    BY <1>1, <1>3, <2>4
  <2>6. MapOK(next, n + 1, mine, theirs)
    <3>1. <<>> \in Seq(Int) /\ Len(<<>>) = 0
      OBVIOUS
    <3> HIDE DEF next
    <3> QED BY <2>2, <2>3, <2>5, <3>1 DEF MapOK
  <2> QED BY <2>2, <2>6
<1>4. CASE p = 0 /\ map.entries # <<>>
  <2>1. next = map
    BY <1>4, PlaceOf DEF AddEntry
  <2>2. lookup(map, n + 1) = 0
    BY <1>1 DEF lookup
  <2> QED BY <1>1, <1>4, <2>1, <2>2 DEF MapOK
<1>5. CASE p # 0
  <2> DEFINE holes == n - (map.offset + len)
             gap == [h \in 1 .. holes |-> NO_ENTRY]
             after == map.entries \o gap \o <<p - 1>>
  <2>1. holes \in Nat /\ gap \in Seq(Int) /\ Len(gap) = holes
    BY <1>1 DEF NO_ENTRY
  <2>2. next = [map EXCEPT !.entries = after]
    <3>1. IndexOf(theirs, name) # {} /\ p = Place(theirs, name)
      BY <1>5 DEF Place
    <3>2. (n + 1 - 1) - (map.offset + Len(map.entries)) = holes
      BY <1>1
    <3> HIDE DEF name, p, holes
    <3>3. AddEntry(map, n + 1, name, theirs) = Laid(map, holes, p)
      BY <3>1, <3>2, EntryLaid
    <3> QED BY <3>3 DEF Laid
  <2> HIDE DEF gap, holes
  <2>3. /\ after \in Seq(Int) /\ Len(after) = len + holes + 1
        /\ \A i \in 1 .. len : after[i] = map.entries[i]
        /\ \A i \in len + 1 .. len + holes : after[i] = NO_ENTRY
        /\ after[len + holes + 1] = p - 1
    <3>1. \A h \in 1 .. holes : gap[h] = NO_ENTRY
      BY DEF gap
    <3> DEFINE front == map.entries \o gap
    <3>2. /\ front \in Seq(Int) /\ Len(front) = len + holes
          /\ \A i \in 1 .. len : front[i] = map.entries[i]
          /\ \A i \in 1 .. holes : front[len + i] = gap[i]
      <4>1. /\ front \in Seq(Int) /\ Len(front) = len + Len(gap)
            /\ \A i \in 1 .. len : front[i] = map.entries[i]
            /\ \A i \in 1 .. Len(gap) : front[len + i] = gap[i]
        <5>1. /\ map.entries \in Seq(Int) /\ gap \in Seq(Int)
          BY <1>1, <2>1
        <5> HIDE DEF p, next, name
        <5>2. /\ map.entries \o gap \in Seq(Int)
              /\ Len(map.entries \o gap) = Len(map.entries) + Len(gap)
              /\ \A i \in 1 .. Len(map.entries) : (map.entries \o gap)[i] = map.entries[i]
              /\ \A i \in 1 .. Len(gap) : (map.entries \o gap)[Len(map.entries) + i] = gap[i]
          <6> HIDE DEF gap
          <6> QED BY <5>1
        <5> QED BY <5>2, Zenon
      <4> QED BY <2>1, <4>1
    <3>3. <<p - 1>> \in Seq(Int) /\ Len(<<p - 1>>) = 1 /\ <<p - 1>>[1] = p - 1
      BY <1>2
    <3> HIDE DEF front, len, p
    <3>4. ASSUME NEW i \in len + 1 .. len + holes PROVE front[i] = NO_ENTRY
      <4>1. i - len \in 1 .. holes /\ len + (i - len) = i
        BY <1>1, <2>1
      <4> QED BY <3>1, <3>2, <4>1
    <3>5. /\ front \o <<p - 1>> \in Seq(Int) /\ Len(front \o <<p - 1>>) = len + holes + 1
          /\ \A i \in 1 .. len + holes : (front \o <<p - 1>>)[i] = front[i]
          /\ (front \o <<p - 1>>)[len + holes + 1] = p - 1
      BY <3>2, <3>3, Concatenated
    <3>6. after = front \o <<p - 1>>
      BY DEF front, p
    <3> HIDE DEF after
    <3>7. \A i \in 1 .. len + holes : after[i] = front[i]
      BY <3>5, <3>6
    <3>8. len + holes \in Nat /\ \A i \in 1 .. len : i \in 1 .. len + holes
      BY <1>1, <2>1 DEF len
    <3>9. \A i \in len + 1 .. len + holes : i \in 1 .. len + holes
      BY <1>1, <2>1 DEF len
    <3>10. \A i \in 1 .. len : after[i] = map.entries[i]
      BY <3>2, <3>7, <3>8
    <3>11. \A i \in len + 1 .. len + holes : after[i] = NO_ENTRY
      BY <3>4, <3>7, <3>9
    <3> QED BY <3>5, <3>6, <3>10, <3>11
  <2> HIDE DEF after
  <2>4. /\ next \in Map /\ next.offset = map.offset /\ next.entries = after
        /\ next.targetType = map.targetType /\ next.overlayType = map.overlayType
    BY <2>2, <2>3 DEF Map
  <2>5. map.offset + len + holes = n
    BY <1>1 DEF holes
  <2> HIDE DEF next, p, len
  <2>6. ASSUME NEW e \in 1 .. n + 1 PROVE lookup(next, e) = Place(theirs, mine[e].name)
    <3> DEFINE i == e - 1 - map.offset
    <3>1. lookup(next, e) = IF i < 0 \/ i >= Len(after) \/ after[i + 1] = NO_ENTRY THEN 0
                            ELSE after[i + 1] + 1
      BY <2>4 DEF lookup
    <3>2. lookup(map, e) = IF i < 0 \/ i >= len \/ map.entries[i + 1] = NO_ENTRY THEN 0
                            ELSE map.entries[i + 1] + 1
      BY Zenon DEF lookup, len
    <3> HIDE DEF i
    <3>7. i = e - 1 - map.offset
      BY DEF i
    <3>3. CASE e = n + 1
      <4>1. i + 1 = len + holes + 1 /\ i >= 0 /\ ~ (i < 0) /\ ~ (i >= Len(after))
        <5>1. len \in Nat /\ holes \in Nat /\ map.offset \in Nat /\ Len(after) = len + holes + 1
          BY <1>1, <2>1, <2>3
        <5>2. i = len + holes
          BY <2>5, <3>3, <3>7, <5>1
        <5> QED BY <5>1, <5>2
      <4>2. after[i + 1] = p - 1
        BY <2>3, <4>1
      <4>3. p - 1 # NO_ENTRY
        BY <1>2, <1>5 DEF NO_ENTRY
      <4>4. lookup(next, e) = p
        BY <1>2, <3>1, <4>1, <4>2, <4>3
      <4> QED BY <3>3, <4>4 DEF p, name
    <3>4. CASE e # n + 1 /\ i < len
      <4>1. i \in Int /\ e \in 1 .. n /\ i < Len(after)
        BY <1>1, <2>1, <2>3, <3>4, <3>7
      <4>2. i >= 0 => after[i + 1] = map.entries[i + 1]
        BY <1>1, <2>3, <3>4, <4>1
      <4>3. lookup(next, e) = lookup(map, e)
        BY <1>1, <3>1, <3>2, <3>4, <4>1, <4>2
      <4> QED BY <1>1, <4>1, <4>3
    <3>5. CASE e # n + 1 /\ i >= len
      <4>1. i \in Int /\ e \in 1 .. n /\ i + 1 \in len + 1 .. len + holes
        BY <1>1, <2>1, <2>5, <3>5, <3>7
      <4>2. lookup(next, e) = 0 /\ lookup(map, e) = 0
        BY <1>1, <2>3, <3>1, <3>2, <3>5, <4>1
      <4> QED BY <1>1, <4>1, <4>2
    <3>6. i \in Int
      BY <1>1, <3>7
    <3> QED BY <1>1, <3>3, <3>4, <3>5, <3>6
  <2>7. next.entries # <<>>
    BY <1>1, <2>1, <2>3, <2>4
  <2>8. MapOK(next, n + 1, mine, theirs)
    BY <1>1, <2>1, <2>3, <2>4, <2>5, <2>6, <2>7 DEF MapOK
  <2> QED BY <2>4, <2>8 DEF next, name
<1> QED BY <1>3, <1>4, <1>5

\* The loop over the entries of a type: it is defined, and ends with a map of all.
LEMMA EntriesMapped ==
  ASSUME NEW t \in Nat, NEW o \in Nat, NEW mine, Distinct(mine), NEW theirs, Distinct(theirs),
         NEW m, m = MapEntries(t, mine, o, theirs)
  PROVE  m \in Map /\ m.targetType = t /\ m.overlayType = o /\ MapOK(m, Len(mine), mine, theirs)
<1> DEFINE N == Len(mine)
           first == [targetType |-> t, overlayType |-> o, offset |-> 0, entries |-> <<>>]
           Loop(f, k) == [i \in 0 .. k |->
                            IF i = 0
                            THEN [targetType |-> t, overlayType |-> o, offset |-> 0, entries |-> <<>>]
                            ELSE AddEntry(f[i - 1], i, mine[i].name, theirs)]
           map == CHOOSE f : f = Loop(f, N)
           S == {k \in Nat : \E f : f = Loop(f, k)}
           Good(u, k) == /\ u \in Map /\ u.targetType = t /\ u.overlayType = o
                         /\ MapOK(u, k, mine, theirs)
           G == {k \in Nat : k <= N => Good(map[k], k)}
<1>1. m = map[N]
  BY Zenon DEF MapEntries
<1>2. N \in Nat
  BY DEF Distinct, ToSet
<1>3. 0 \in S
  <2>1. [i \in 0 .. 0 |-> first] = Loop([i \in 0 .. 0 |-> first], 0)
    OBVIOUS
  <2> QED BY <2>1
<1>4. ASSUME NEW k \in S PROVE k + 1 \in S
  <2>1. PICK f : f = Loop(f, k)
    OBVIOUS
  <2> DEFINE g == Loop(f, k + 1)
  <2>2. ASSUME NEW i \in 0 .. k PROVE g[i] = f[i]
    <3>1. i \in 0 .. k + 1
      OBVIOUS
    <3>2. f[i] = Loop(f, k)[i]
      BY <2>1
    <3> QED BY <3>1, <3>2
  <2>3. g = Loop(g, k + 1)
    <3>1. \A i \in 0 .. k + 1 : i = 0 \/ i - 1 \in 0 .. k
      OBVIOUS
    <3>2. \A i \in 0 .. k + 1 : i = 0 \/ g[i - 1] = f[i - 1]
      BY <2>2, <3>1
    <3> QED BY <3>2
  <2> HIDE DEF g
  <2>4. \E x : x = Loop(x, k + 1)
    BY <2>3
  <2>5. k + 1 \in Nat
    OBVIOUS
  <2> HIDE DEF Loop
  <2> QED BY <2>4, <2>5
<1>5. \E f : f = Loop(f, N)
  <2>1. S = Nat
    <3> HIDE DEF S
    <3>1. S \in SUBSET Nat
      BY DEF S
    <3> QED BY <1>3, <1>4, <3>1, AllNaturals
  <2> QED BY <1>2, <2>1
<1>6. map = Loop(map, N)
  <2> HIDE DEF Loop
  <2> QED BY <1>5
<1> HIDE DEF map
<1>7. 0 \in G
  <2>1. map[0] = first
    BY <1>2, <1>6
  <2>2. <<>> \in Seq(Int) /\ Len(<<>>) = 0
    OBVIOUS
  <2>3. first \in Map /\ MapOK(first, 0, mine, theirs)
    BY <2>2 DEF Map, MapOK
  <2> QED BY <2>1, <2>3
<1>8. ASSUME NEW k \in G PROVE k + 1 \in G
  <2> SUFFICES ASSUME k + 1 <= N PROVE Good(map[k + 1], k + 1)
    OBVIOUS
  <2>1. k \in Nat /\ Good(map[k], k)
    BY <1>2
  <2>2. map[k + 1] = AddEntry(map[k], k + 1, mine[k + 1].name, theirs)
    BY <1>2, <1>6, <2>1
  <2> HIDE DEF N, G
  <2> QED BY <2>1, <2>2, EntryAdded
<1>9. G = Nat
  <2> HIDE DEF G
  <2>1. G \in SUBSET Nat
    BY DEF G
  <2> QED BY <1>7, <1>8, <2>1, AllNaturals
<1> QED BY <1>1, <1>2, <1>9

-----------------------------------------------------------------------------
\* The type of main that is called like type k of file, and back.
Alike(file, main, t) == Place(file.types, main.types[t].name)

\* The layer that file adds to type t of main: first the type itself, then what
\* the idmap of an overlay leads to.
LayerOK(layer, file, main, t) ==
  LET k == Alike(file, main, t)
      mine == main.types[t].entries
      theirs == file.types[k].entries
  IN /\ k # 0 /\ layer.file = file.name /\ layer.type = file.types[k]
     /\ \/ layer.maps = {} /\ file = main
        \/ \E m \in layer.maps : layer.maps = {m} /\
             \A e \in DOMAIN mine : lookup(m, e) = Place(theirs, mine[e].name)

\* The layers of type t: one for each file that has a type of that name, in order.
LayersOK(layers, files, t) ==
  /\ layers \in Seq(ToSet(layers))
  /\ \E p \in [DOMAIN layers -> DOMAIN files] :
       /\ \A j, k \in DOMAIN layers : j < k => p[j] < p[k]
       /\ \A j \in DOMAIN layers : /\ LayerOK(layers[j], files[p[j]], files[1], t)
                                   /\ p[j] # 1 => layers[j].maps # {}
       /\ \A i \in DOMAIN files : Alike(files[i], files[1], t) # 0 =>
                                    \E j \in DOMAIN layers : p[j] = i

IsGroup(group) ==
  group = [name |-> group.name, id |-> group.id, files |-> group.files,
           types |-> group.types, refs |-> group.refs]

GroupOK(group, next, have) ==
  /\ IsGroup(group)
  /\ group.files \in Seq(File) /\ Len(group.files) > 0
  /\ group.files[1] \in have /\ group.files[1].target = NoName
  /\ group.name = group.files[1].name
  /\ \A i \in DOMAIN group.files : i # 1 => group.files[i].target = group.name
  /\ IF group.files[1].id = 0 THEN group.id \in 2 .. next - 1
     ELSE group.id = group.files[1].id
  /\ DOMAIN group.types = DOMAIN group.files[1].types
  /\ \A t \in DOMAIN group.types : LayersOK(group.types[t], group.files, t)

TableInv ==
  /\ loaded \in Seq(File)
  /\ \A i, j \in DOMAIN loaded : loaded[i] = loaded[j] => i = j
  /\ table.nextPackageId \in 2 .. 2 + Len(loaded)
  /\ table.groups \in Seq(ToSet(table.groups))
  /\ \A g \in DOMAIN table.groups : GroupOK(table.groups[g], table.nextPackageId, ToSet(loaded))
  /\ \A g, h \in DOMAIN table.groups : table.groups[g].id = table.groups[h].id => g = h

-----------------------------------------------------------------------------
(* What adding a package does to the types *)

PackageOK(f) == Distinct(f.types) /\ \A x \in ToSet(f.types) : Distinct(x.entries)
TypesInCommon(file, main) ==
  \A x \in ToSet(file.types) : \E y \in ToSet(main.types) : InCommon(x, y)

TypeMap(file, main, t) ==
  MapEntries(t, main.types[t].entries, Alike(file, main, t),
             file.types[Alike(file, main, t)].entries)
OverlayLayer(file, main, t) ==
  [file |-> file.name, type |-> file.types[Alike(file, main, t)], maps |-> {TypeMap(file, main, t)}]
OwnLayer(file, t) == [file |-> file.name, type |-> file.types[t], maps |-> {}]

LEMMA TypesOf ==
  ASSUME NEW f, PackageOK(f)
  PROVE  /\ Distinct(f.types) /\ Len(f.types) \in Nat /\ DOMAIN f.types = 1 .. Len(f.types)
         /\ \A t \in DOMAIN f.types : Distinct(f.types[t].entries)
<1>1. Distinct(f.types)
  BY DEF PackageOK
<1>2. Len(f.types) \in Nat /\ DOMAIN f.types = 1 .. Len(f.types)
  BY <1>1, PlaceOf
<1>3. \A t \in DOMAIN f.types : f.types[t] \in ToSet(f.types)
  BY DEF ToSet
<1> QED BY <1>1, <1>2, <1>3 DEF PackageOK

LEMMA AlikeTypes ==
  ASSUME NEW main, PackageOK(main), NEW file, PackageOK(file), NEW t \in DOMAIN main.types
  PROVE  /\ Alike(file, main, t) \in Nat
         /\ Alike(file, main, t) # 0 =>
              /\ Alike(file, main, t) \in DOMAIN file.types
              /\ file.types[Alike(file, main, t)].name = main.types[t].name
         /\ \A k \in DOMAIN file.types :
              file.types[k].name = main.types[t].name => Alike(file, main, t) = k
         /\ \A u \in DOMAIN main.types :
              Alike(file, main, u) = Alike(file, main, t) /\ Alike(file, main, t) # 0 => u = t
<1>1. Distinct(file.types) /\ Distinct(main.types)
  BY TypesOf
<1>2. ASSUME NEW u
      PROVE  /\ Alike(file, main, u) \in Nat
             /\ Alike(file, main, u) # 0 =>
                  /\ Alike(file, main, u) \in DOMAIN file.types
                  /\ file.types[Alike(file, main, u)].name = main.types[u].name
             /\ \A k \in DOMAIN file.types :
                  file.types[k].name = main.types[u].name => Alike(file, main, u) = k
  <2> DEFINE name == main.types[u].name
  <2>1. Alike(file, main, u) = Place(file.types, name)
    BY DEF Alike
  <2> HIDE DEF name
  <2>2. /\ Place(file.types, name) \in Nat
        /\ Place(file.types, name) # 0 => /\ Place(file.types, name) \in DOMAIN file.types
                                          /\ file.types[Place(file.types, name)].name = name
        /\ \A k \in DOMAIN file.types : file.types[k].name = name => Place(file.types, name) = k
    BY <1>1, PlaceOf
  <2> QED BY <2>1, <2>2 DEF name
<1>3. \A u \in DOMAIN main.types : main.types[u].name = main.types[t].name => u = t
  BY <1>1 DEF Distinct
<1>4. \A u \in DOMAIN main.types :
        Alike(file, main, u) = Alike(file, main, t) /\ Alike(file, main, t) # 0 => u = t
  BY <1>2, <1>3
<1> QED BY <1>2, <1>4

LEMMA TypeMapIs ==
  ASSUME NEW main, PackageOK(main), NEW file, PackageOK(file), NEW t \in DOMAIN main.types,
         Alike(file, main, t) # 0
  PROVE  LET k == Alike(file, main, t)
             m == TypeMap(file, main, t)
             mine == main.types[t].entries
             theirs == file.types[k].entries
         IN /\ m.targetType = t /\ m.overlayType = k
            /\ \A e \in DOMAIN mine : lookup(m, e) = Place(theirs, mine[e].name)
            /\ (\E e \in DOMAIN mine : Place(theirs, mine[e].name) # 0) => m.entries # <<>>
<1> DEFINE k == Alike(file, main, t)
           m == TypeMap(file, main, t)
           mine == main.types[t].entries
           theirs == file.types[k].entries
<1>1. t \in Nat /\ k \in Nat /\ k \in DOMAIN file.types
  BY TypesOf, AlikeTypes
<1>2. Distinct(mine) /\ Distinct(theirs)
  BY <1>1, TypesOf
<1>3. m = MapEntries(t, mine, k, theirs)
  BY Zenon DEF TypeMap
<1> HIDE DEF k, m, mine, theirs
<1>4. m \in Map /\ m.targetType = t /\ m.overlayType = k /\ MapOK(m, Len(mine), mine, theirs)
  BY <1>1, <1>2, <1>3, EntriesMapped
<1>5. DOMAIN mine = 1 .. Len(mine) /\ Len(mine) \in Nat
  BY <1>2, PlaceOf
<1>6. \A e \in DOMAIN mine : lookup(m, e) = Place(theirs, mine[e].name)
  BY <1>4, <1>5 DEF MapOK
<1>7. ASSUME NEW e \in DOMAIN mine, Place(theirs, mine[e].name) # 0, m.entries = <<>> PROVE FALSE
  <2>1. lookup(m, e) = 0
    BY <1>4, <1>5, <1>7 DEF lookup, Map
  <2> QED BY <1>6, <1>7, <2>1
<1> QED BY <1>4, <1>6, <1>7 DEF k, m, mine, theirs

LEMMA TypeMapped ==
  ASSUME NEW main, PackageOK(main), NEW file, PackageOK(file), NEW t \in DOMAIN main.types, NEW m
  PROVE  m \in MapType(t, main.types[t], file) <=>
           /\ Alike(file, main, t) # 0
           /\ m = TypeMap(file, main, t) /\ m.entries # <<>>
<1> DEFINE type == main.types[t]
           found == IndexOf(file.types, type.name)
           k == Alike(file, main, t)
<1>0. Alike(file, main, t) = Place(file.types, type.name)
  BY DEF Alike
<1>1. k = 0 <=> found = {}
  BY <1>0, TypesOf, PlaceOf
<1>2. found # {} => k = CHOOSE x \in found : TRUE
  BY <1>0 DEF Place
<1>3. CASE found = {}
  <2>1. MapType(t, type, file) = {}
    BY <1>3 DEF MapType
  <2> QED BY <1>1, <1>3, <2>1
<1>4. CASE found # {}
  <2>1. TypeMap(file, main, t) = MapEntries(t, type.entries, k, file.types[k].entries)
    BY Zenon DEF TypeMap
  <2>2. MapType(t, type, file) = LET n == MapEntries(t, type.entries, k, file.types[k].entries)
                                 IN IF n.entries = <<>> THEN {} ELSE {n}
    <3> HIDE DEF type, k
    <3> QED BY <1>2, <1>4 DEF MapType
  <2> HIDE DEF k, type
  <2> QED BY <1>1, <1>4, <2>1, <2>2 DEF k, type
<1> QED BY <1>3, <1>4

\* Every type of an overlay has the one map that leads to it.
LEMMA IdmapOf ==
  ASSUME NEW main, PackageOK(main), NEW file, PackageOK(file), TypesInCommon(file, main),
         NEW k \in DOMAIN file.types
  PROVE  \E t \in DOMAIN main.types :
           /\ Alike(file, main, t) = k
           /\ {m \in createIdmap(main, file) : m.overlayType = k} = {TypeMap(file, main, t)}
<1>1. file.types[k] \in ToSet(file.types)
  BY DEF ToSet
<1>2. PICK y \in ToSet(main.types) : InCommon(file.types[k], y)
  BY <1>1 DEF TypesInCommon
<1>3. PICK t \in DOMAIN main.types : y = main.types[t]
  BY DEF ToSet
<1>4. file.types[k].name = main.types[t].name
  BY <1>2, <1>3 DEF InCommon
<1>5. Alike(file, main, t) = k /\ k # 0
  BY <1>4, AlikeTypes, TypesOf
<1> DEFINE m == TypeMap(file, main, t)
<1>6. m.entries # <<>> /\ m.overlayType = k
  <2> DEFINE mine == main.types[t].entries
             theirs == file.types[k].entries
  <2>1. PICK a \in ToSet(theirs) : \E b \in ToSet(mine) : a.name = b.name
    BY <1>2, <1>3 DEF InCommon
  <2>2. PICK e \in DOMAIN mine : a.name = mine[e].name
    BY <2>1 DEF ToSet
  <2>3. PICK i \in DOMAIN theirs : a = theirs[i]
    BY DEF ToSet
  <2>4. Distinct(theirs)
    BY TypesOf
  <2> HIDE DEF mine, theirs
  <2>5. Place(theirs, mine[e].name) # 0
    BY <2>2, <2>3, <2>4, PlaceOf
  <2> QED BY <1>5, <2>5, TypeMapIs DEF mine, theirs
<1> HIDE DEF m
<1>7. \A n, u : n \in MapType(u, main.types[u], file) /\ u \in DOMAIN main.types <=>
                  /\ u \in DOMAIN main.types
                  /\ Alike(file, main, u) # 0 /\ n = TypeMap(file, main, u) /\ n.entries # <<>>
  BY TypeMapped
<1>8. \A n : n \in createIdmap(main, file) <=>
               \E u \in DOMAIN main.types : n \in MapType(u, main.types[u], file)
  BY Zenon DEF createIdmap
<1>9. m \in createIdmap(main, file)
  BY <1>5, <1>6, <1>7, <1>8 DEF m
<1>10. ASSUME NEW n \in createIdmap(main, file), n.overlayType = k PROVE n = m
  <2>1. PICK u \in DOMAIN main.types : n \in MapType(u, main.types[u], file)
    BY <1>8
  <2>2. Alike(file, main, u) # 0 /\ n = TypeMap(file, main, u)
    BY <1>7, <2>1
  <2>3. n.overlayType = Alike(file, main, u)
    BY <2>2, TypeMapIs
  <2>4. u = t
    BY <1>5, <1>10, <2>3, AlikeTypes
  <2> QED BY <2>2, <2>4 DEF m
<1>11. {n \in createIdmap(main, file) : n.overlayType = k} = {m}
  BY <1>6, <1>9, <1>10
<1> QED BY <1>5, <1>11 DEF m

-----------------------------------------------------------------------------
\* The loop over the types of an overlay.
LEMMA OverlayTypesAdded ==
  ASSUME NEW main, PackageOK(main), NEW file, PackageOK(file), TypesInCommon(file, main),
         NEW types, DOMAIN types = DOMAIN main.types,
         NEW new, new = addTypes(types, file, createIdmap(main, file))
  PROVE  /\ DOMAIN new = DOMAIN types
         /\ \A t \in DOMAIN types :
              new[t] = IF Alike(file, main, t) = 0 THEN types[t]
                       ELSE Append(types[t], OverlayLayer(file, main, t))
<1> DEFINE N == Len(file.types)
           maps == createIdmap(main, file)
           Loop(f, k) == [i \in 0 .. k |->
                            IF i = 0 THEN types ELSE addType(f[i - 1], file, i, maps)]
           added == CHOOSE f : f = Loop(f, N)
           S == {k \in Nat : \E f : f = Loop(f, k)}
           Good(u, k) ==
             /\ DOMAIN u = DOMAIN types
             /\ \A t \in DOMAIN types :
                  u[t] = IF Alike(file, main, t) \in 1 .. k
                         THEN Append(types[t], OverlayLayer(file, main, t)) ELSE types[t]
           G == {k \in Nat : k <= N => Good(added[k], k)}
<1>1. new = added[N]
  BY Zenon DEF addTypes
<1>2. N \in Nat /\ DOMAIN file.types = 1 .. N
  BY TypesOf
<1>3. 0 \in S
  <2>1. [i \in 0 .. 0 |-> types] = Loop([i \in 0 .. 0 |-> types], 0)
    OBVIOUS
  <2> QED BY <2>1
<1>4. ASSUME NEW k \in S PROVE k + 1 \in S
  <2>1. PICK f : f = Loop(f, k)
    OBVIOUS
  <2> DEFINE g == Loop(f, k + 1)
  <2>2. ASSUME NEW i \in 0 .. k PROVE g[i] = f[i]
    <3>1. i \in 0 .. k + 1
      OBVIOUS
    <3>2. f[i] = Loop(f, k)[i]
      BY <2>1
    <3> QED BY <3>1, <3>2
  <2>3. g = Loop(g, k + 1)
    <3>1. \A i \in 0 .. k + 1 : i = 0 \/ i - 1 \in 0 .. k
      OBVIOUS
    <3>2. \A i \in 0 .. k + 1 : i = 0 \/ g[i - 1] = f[i - 1]
      BY <2>2, <3>1
    <3> QED BY <3>2
  <2> HIDE DEF g
  <2>4. \E x : x = Loop(x, k + 1)
    BY <2>3
  <2>5. k + 1 \in Nat
    OBVIOUS
  <2> HIDE DEF Loop
  <2> QED BY <2>4, <2>5
<1>5. \E f : f = Loop(f, N)
  <2>1. S = Nat
    <3> HIDE DEF S
    <3>1. S \in SUBSET Nat
      BY DEF S
    <3> QED BY <1>3, <1>4, <3>1, AllNaturals
  <2> QED BY <1>2, <2>1
<1>6. added = Loop(added, N)
  <2> HIDE DEF Loop
  <2> QED BY <1>5
<1> HIDE DEF added
<1>7. 0 \in G
  <2>1. added[0] = types
    BY <1>2, <1>6
  <2> QED BY <2>1
<1>8. ASSUME NEW k \in G PROVE k + 1 \in G
  <2> SUFFICES ASSUME k + 1 <= N PROVE Good(added[k + 1], k + 1)
    OBVIOUS
  <2>1. k \in Nat /\ Good(added[k], k)
    BY <1>2
  <2>2. added[k + 1] = addType(added[k], file, k + 1, maps)
    BY <1>2, <1>6, <2>1
  <2>3. k + 1 \in DOMAIN file.types
    BY <1>2, <2>1
  <2> DEFINE u == added[k]
             v == added[k + 1]
             map == {m \in maps : m.overlayType = k + 1}
  <2>4. PICK t \in DOMAIN main.types : Alike(file, main, t) = k + 1 /\ map = {TypeMap(file, main, t)}
    BY <2>3, IdmapOf
  <2>5. TypeMap(file, main, t).targetType = t /\ k + 1 # 0
    BY <2>1, <2>4, TypeMapIs
  <2>6. v = Put(u, t, Append(u[t], OverlayLayer(file, main, t)))
    <3>1. map # {} /\ (CHOOSE m \in map : TRUE) = TypeMap(file, main, t)
      BY <2>4
    <3>2. t \in DOMAIN u
      BY <2>1, <2>4
    <3>3. OverlayLayer(file, main, t) = [file |-> file.name, type |-> file.types[k + 1], maps |-> map]
      BY <2>4 DEF OverlayLayer
    <3>4. addType(u, file, k + 1, maps) =
            LET s == IF map = {} THEN k + 1 ELSE (CHOOSE m \in map : TRUE).targetType
            IN Put(u, s, Append(IF s \in DOMAIN u THEN u[s] ELSE <<>>,
                                [file |-> file.name, type |-> file.types[k + 1], maps |-> map]))
      BY Zenon DEF addType
    <3> HIDE DEF u, v, map
    <3>5. addType(u, file, k + 1, maps) = Put(u, t, Append(u[t], OverlayLayer(file, main, t)))
      BY <2>5, <3>1, <3>2, <3>3, <3>4
    <3> QED BY <2>2, <3>5 DEF u, v
  <2>7. DOMAIN u = DOMAIN types /\ \A s \in DOMAIN types :
          u[s] = IF Alike(file, main, s) \in 1 .. k
                 THEN Append(types[s], OverlayLayer(file, main, s)) ELSE types[s]
    BY <2>1
  <2>8. u[t] = types[t]
    BY <2>1, <2>4, <2>7
  <2>9. \A s \in DOMAIN types : Alike(file, main, s) = k + 1 => s = t
    BY <2>4, <2>5, AlikeTypes
  <2>10. \A s \in DOMAIN types : Alike(file, main, s) \in Nat
    BY AlikeTypes
  <2> HIDE DEF u, v, map
  <2>11. /\ DOMAIN v = DOMAIN types
         /\ v[t] = Append(types[t], OverlayLayer(file, main, t))
         /\ \A s \in DOMAIN types : s # t => v[s] = u[s]
    BY <2>4, <2>6, <2>7, <2>8 DEF Put
  <2>12. Good(v, k + 1)
    <3>1. ASSUME NEW s \in DOMAIN types
          PROVE  v[s] = IF Alike(file, main, s) \in 1 .. k + 1
                        THEN Append(types[s], OverlayLayer(file, main, s)) ELSE types[s]
      <4>1. CASE s = t
        <5>1. Alike(file, main, s) \in 1 .. k + 1
          BY <2>1, <2>4, <4>1
        <5> QED BY <2>11, <4>1, <5>1
      <4>2. CASE s # t
        <5>1. Alike(file, main, s) \in 1 .. k + 1 <=> Alike(file, main, s) \in 1 .. k
          BY <2>1, <2>9, <2>10, <4>2
        <5> QED BY <2>7, <2>11, <4>2, <5>1
      <4> QED BY <4>1, <4>2
    <3> QED BY <2>11, <3>1
  <2> QED BY <2>12 DEF v
<1>9. G = Nat
  <2> HIDE DEF G
  <2>1. G \in SUBSET Nat
    BY DEF G
  <2> QED BY <1>7, <1>8, <2>1, AllNaturals
<1>10. Good(new, N)
  BY <1>1, <1>2, <1>9
<1>11. \A t \in DOMAIN types : Alike(file, main, t) \in 1 .. N <=> Alike(file, main, t) # 0
  BY <1>2, AlikeTypes
<1> QED BY <1>10, <1>11

\* The loop over the types of a package that is no overlay.
LEMMA OwnTypesAdded ==
  ASSUME NEW file, PackageOK(file), NEW new, new = addTypes(<< >>, file, {})
  PROVE  /\ DOMAIN new = DOMAIN file.types
         /\ \A t \in DOMAIN file.types : new[t] = <<OwnLayer(file, t)>>
<1> DEFINE N == Len(file.types)
           Loop(f, k) == [i \in 0 .. k |->
                            IF i = 0 THEN << >> ELSE addType(f[i - 1], file, i, {})]
           added == CHOOSE f : f = Loop(f, N)
           S == {k \in Nat : \E f : f = Loop(f, k)}
           Good(u, k) == DOMAIN u = 1 .. k /\ \A t \in 1 .. k : u[t] = <<OwnLayer(file, t)>>
           G == {k \in Nat : k <= N => Good(added[k], k)}
<1>1. new = added[N]
  BY Zenon DEF addTypes
<1>2. N \in Nat /\ DOMAIN file.types = 1 .. N
  BY TypesOf
<1>3. 0 \in S
  <2>1. [i \in 0 .. 0 |-> << >>] = Loop([i \in 0 .. 0 |-> << >>], 0)
    OBVIOUS
  <2> QED BY <2>1
<1>4. ASSUME NEW k \in S PROVE k + 1 \in S
  <2>1. PICK f : f = Loop(f, k)
    OBVIOUS
  <2> DEFINE g == Loop(f, k + 1)
  <2>2. ASSUME NEW i \in 0 .. k PROVE g[i] = f[i]
    <3>1. i \in 0 .. k + 1
      OBVIOUS
    <3>2. f[i] = Loop(f, k)[i]
      BY <2>1
    <3> QED BY <3>1, <3>2
  <2>3. g = Loop(g, k + 1)
    <3>1. \A i \in 0 .. k + 1 : i = 0 \/ i - 1 \in 0 .. k
      OBVIOUS
    <3>2. \A i \in 0 .. k + 1 : i = 0 \/ g[i - 1] = f[i - 1]
      BY <2>2, <3>1
    <3> QED BY <3>2
  <2> HIDE DEF g
  <2>4. \E x : x = Loop(x, k + 1)
    BY <2>3
  <2>5. k + 1 \in Nat
    OBVIOUS
  <2> HIDE DEF Loop
  <2> QED BY <2>4, <2>5
<1>5. \E f : f = Loop(f, N)
  <2>1. S = Nat
    <3> HIDE DEF S
    <3>1. S \in SUBSET Nat
      BY DEF S
    <3> QED BY <1>3, <1>4, <3>1, AllNaturals
  <2> QED BY <1>2, <2>1
<1>6. added = Loop(added, N)
  <2> HIDE DEF Loop
  <2> QED BY <1>5
<1> HIDE DEF added
<1>7. 0 \in G
  <2>1. added[0] = << >>
    BY <1>2, <1>6
  <2>2. DOMAIN << >> = 1 .. 0
    OBVIOUS
  <2> QED BY <2>1, <2>2
<1>8. ASSUME NEW k \in G PROVE k + 1 \in G
  <2> SUFFICES ASSUME k + 1 <= N PROVE Good(added[k + 1], k + 1)
    OBVIOUS
  <2>1. k \in Nat /\ Good(added[k], k)
    BY <1>2
  <2>2. added[k + 1] = addType(added[k], file, k + 1, {})
    BY <1>2, <1>6, <2>1
  <2> DEFINE u == added[k]
             v == added[k + 1]
  <2>3. k + 1 \notin DOMAIN u
    BY <2>1
  <2>4. addType(u, file, k + 1, {}) = Put(u, k + 1, Append(<<>>, OwnLayer(file, k + 1)))
    <3> HIDE DEF u
    <3> QED BY <2>3 DEF addType, OwnLayer
  <2>5. DOMAIN u = 1 .. k /\ \A t \in 1 .. k : u[t] = <<OwnLayer(file, t)>>
    BY <2>1
  <2> HIDE DEF u, v
  <2>6. v = Put(u, k + 1, <<OwnLayer(file, k + 1)>>)
    BY <2>2, <2>4 DEF u, v
  <2>7. Good(v, k + 1)
    <3>1. 1 .. k + 1 = 1 .. k \cup {k + 1}
      BY <2>1
    <3> QED BY <2>1, <2>5, <2>6, <3>1 DEF Put
  <2> QED BY <2>7 DEF v
<1>9. G = Nat
  <2> HIDE DEF G
  <2>1. G \in SUBSET Nat
    BY DEF G
  <2> QED BY <1>7, <1>8, <2>1, AllNaturals
<1> QED BY <1>1, <1>2, <1>9

-----------------------------------------------------------------------------
(* The choice among the layers *)

\* b is what is found among the first n: nothing if nothing fits, or else the
\* last of those that fit for land, or if there are none, for any.
Found(b, layers, entry, n) ==
  LET C(j, c) == Candidate(layers[j], entry, c) IN
  \/ b = {} /\ \A j \in 1 .. n : ~ C(j, "any").fits /\ ~ C(j, "land").fits
  \/ \E j \in 1 .. n : /\ b = {C(j, "land")} /\ C(j, "land").fits
                       /\ \A k \in 1 .. n : C(k, "land").fits => k <= j
  \/ \E j \in 1 .. n : /\ b = {C(j, "any")} /\ C(j, "any").fits
                       /\ \A k \in 1 .. n : C(k, "any").fits => k <= j
                       /\ \A k \in 1 .. n : ~ C(k, "land").fits

LEMMA FoundNext ==
  ASSUME NEW n \in Nat, NEW layers, NEW entry, NEW b, Found(b, layers, entry, n),
         n > 0 => layers[n + 1].maps # {}
  PROVE  Found(BetterOf(BetterOf(b, Candidate(layers[n + 1], entry, "any")),
                        Candidate(layers[n + 1], entry, "land")), layers, entry, n + 1)
<1> DEFINE C(j, c) == Candidate(layers[j], entry, c)
           a == C(n + 1, "any")
           l == C(n + 1, "land")
           x == BetterOf(b, a)
           y == BetterOf(x, l)
<1> SUFFICES Found(y, layers, entry, n + 1)
  OBVIOUS
<1>1. \A j, c : C(j, c).config = c
  BY DEF Candidate
<1>2. n > 0 => a.overlay /\ l.overlay
  BY DEF Candidate
<1>3. a.config = "any" /\ l.config = "land"
  BY <1>1
<1>4. \/ b = {} /\ \A j \in 1 .. n : ~ C(j, "any").fits /\ ~ C(j, "land").fits
      \/ \E j \in 1 .. n : /\ b = {C(j, "land")} /\ C(j, "land").fits
                           /\ \A k \in 1 .. n : C(k, "land").fits => k <= j
      \/ \E j \in 1 .. n : /\ b = {C(j, "any")} /\ C(j, "any").fits
                           /\ \A k \in 1 .. n : C(k, "any").fits => k <= j
                           /\ \A k \in 1 .. n : ~ C(k, "land").fits
  BY DEF Found
<1> HIDE DEF C
<1>9. /\ y = BetterOf(x, l) /\ x = BetterOf(b, a)
      /\ a = C(n + 1, "any") /\ l = C(n + 1, "land")
  OBVIOUS
<1> HIDE DEF x, y, a, l
<1>12. ASSUME NEW j \in 1 .. n + 1, y = {C(j, "land")}, C(j, "land").fits,
              \A k \in 1 .. n + 1 : C(k, "land").fits => k <= j
       PROVE  Found(y, layers, entry, n + 1)
  BY <1>12 DEF Found, C
<1>13. ASSUME NEW j \in 1 .. n + 1, y = {C(j, "any")}, C(j, "any").fits,
              \A k \in 1 .. n + 1 : C(k, "any").fits => k <= j,
              \A k \in 1 .. n + 1 : ~ C(k, "land").fits
       PROVE  Found(y, layers, entry, n + 1)
  BY <1>13 DEF Found, C
<1>14. ASSUME y = {}, \A j \in 1 .. n + 1 : ~ C(j, "any").fits /\ ~ C(j, "land").fits
       PROVE  Found(y, layers, entry, n + 1)
  BY <1>14 DEF Found, C
<1>5. \A k \in 1 .. n + 1 : k = n + 1 \/ k \in 1 .. n
  OBVIOUS
<1>6. n + 1 \in 1 .. n + 1 /\ \A j \in 1 .. n : j \in 1 .. n + 1 /\ j <= n + 1
  OBVIOUS
<1>15. ASSUME l.fits, y = {l} PROVE Found(y, layers, entry, n + 1)
  <2>1. \A k \in 1 .. n + 1 : k <= n + 1
    OBVIOUS
  <2> QED BY <1>6, <1>9, <1>12, <1>15, <2>1
<1>7. CASE b = {} /\ \A j \in 1 .. n : ~ C(j, "any").fits /\ ~ C(j, "land").fits
  <2>1. x = IF a.fits THEN {a} ELSE {}
    BY <1>7, <1>9 DEF BetterOf
  <2>2. CASE l.fits
    <3>1. y = {l}
      BY <1>3, <1>9, <2>1, <2>2 DEF BetterOf
    <3> QED BY <1>15, <2>2, <3>1, Zenon
  <2>3. CASE ~ l.fits
    <3>1. y = x
      BY <1>9, <2>3 DEF BetterOf
    <3>2. \A k \in 1 .. n + 1 : ~ C(k, "land").fits
      BY <1>5, <1>7, <1>9, <2>3
    <3>3. CASE a.fits
      <4>1. \A k \in 1 .. n + 1 : k <= n + 1
        OBVIOUS
      <4> QED BY <1>6, <1>9, <1>13, <2>1, <3>1, <3>2, <3>3, <4>1, Zenon
    <3>4. CASE ~ a.fits
      <4>1. \A k \in 1 .. n + 1 : ~ C(k, "any").fits
        BY <1>5, <1>7, <1>9, <3>4
      <4> QED BY <1>14, <2>1, <3>1, <3>2, <3>4, <4>1, Zenon
    <3> QED BY <3>3, <3>4
  <2> QED BY <2>2, <2>3
<1>8. CASE \E j \in 1 .. n : /\ b = {C(j, "land")} /\ C(j, "land").fits
                             /\ \A k \in 1 .. n : C(k, "land").fits => k <= j
  <2>1. PICK j \in 1 .. n : /\ b = {C(j, "land")} /\ C(j, "land").fits
                            /\ \A k \in 1 .. n : C(k, "land").fits => k <= j
    BY <1>8
  <2>5. n > 0 /\ C(j, "land").config = "land"
    BY <1>1
  <2>6. a.config = "any" /\ \A found \in b : found.config = "land"
    BY <1>3, <2>1, <2>5
  <2>2. x = b
    BY <1>9, <2>1, <2>6 DEF BetterOf
  <2>3. CASE l.fits
    <3>1. \E found \in x : l.overlay /\ l.config = found.config
      BY <1>2, <1>3, <2>1, <2>2, <2>5, <2>6
    <3>2. y = {l}
      BY <1>9, <2>3, <3>1 DEF BetterOf
    <3> QED BY <1>15, <2>3, <3>2, Zenon
  <2>4. CASE ~ l.fits
    <3>1. y = b
      BY <1>9, <2>2, <2>4 DEF BetterOf
    <3>2. \A k \in 1 .. n + 1 : C(k, "land").fits => k <= j
      BY <1>5, <1>9, <2>1, <2>4
    <3> QED BY <1>6, <1>12, <2>1, <3>1, <3>2, Zenon
  <2> QED BY <2>3, <2>4
<1>10. CASE \E j \in 1 .. n : /\ b = {C(j, "any")} /\ C(j, "any").fits
                              /\ \A k \in 1 .. n : C(k, "any").fits => k <= j
                              /\ \A k \in 1 .. n : ~ C(k, "land").fits
  <2>1. PICK j \in 1 .. n : /\ b = {C(j, "any")} /\ C(j, "any").fits
                            /\ \A k \in 1 .. n : C(k, "any").fits => k <= j
    BY <1>10
  <2>5. \A k \in 1 .. n : ~ C(k, "land").fits
    BY <1>10
  <2>6. n > 0 /\ \A found \in b : found.config = "any"
    BY <1>1, <2>1
  <2>2. x = IF a.fits THEN {a} ELSE b
    <3>1. \E found \in b : a.overlay /\ a.config = found.config
      BY <1>2, <1>3, <2>1, <2>6
    <3> QED BY <1>9, <3>1 DEF BetterOf
  <2>3. CASE l.fits
    <3>1. \E found \in x : l.config = "land" /\ found.config = "any"
      BY <1>3, <2>1, <2>2, <2>6
    <3>2. y = {l}
      BY <1>9, <2>3, <3>1 DEF BetterOf
    <3> QED BY <1>15, <2>3, <3>2, Zenon
  <2>4. CASE ~ l.fits
    <3>1. y = x
      BY <1>9, <2>4 DEF BetterOf
    <3>2. \A k \in 1 .. n + 1 : ~ C(k, "land").fits
      BY <1>5, <1>9, <2>4, <2>5
    <3>3. CASE a.fits
      <4>1. \A k \in 1 .. n + 1 : k <= n + 1
        OBVIOUS
      <4> QED BY <1>6, <1>9, <1>13, <2>2, <3>1, <3>2, <3>3, <4>1, Zenon
    <3>4. CASE ~ a.fits
      <4>1. \A k \in 1 .. n + 1 : C(k, "any").fits => k <= j
        BY <1>5, <1>9, <2>1, <3>4
      <4> QED BY <1>6, <1>13, <2>1, <2>2, <3>1, <3>2, <3>4, <4>1, Zenon
    <3> QED BY <3>3, <3>4
  <2> QED BY <2>3, <2>4
<1> QED BY <1>4, <1>7, <1>8, <1>10, Zenon

LEMMA EntryFound ==
  ASSUME NEW layers, layers \in Seq(ToSet(layers)), NEW entry,
         \A j \in DOMAIN layers : j # 1 => layers[j].maps # {}
  PROVE  Found(BestEntry(layers, entry), layers, entry, Len(layers))
<1> DEFINE N == Len(layers)
           Loop(f, k) == [i \in 0 .. k |->
                            IF i = 0 THEN {}
                            ELSE BetterOf(BetterOf(f[i - 1], Candidate(layers[i], entry, "any")),
                                          Candidate(layers[i], entry, "land"))]
           found == CHOOSE f : f = Loop(f, N)
           S == {k \in Nat : \E f : f = Loop(f, k)}
           G == {k \in Nat : k <= N => Found(found[k], layers, entry, k)}
<1>1. BestEntry(layers, entry) = found[N]
  BY Zenon DEF BestEntry
<1>2. N \in Nat /\ DOMAIN layers = 1 .. N
  OBVIOUS
<1>3. 0 \in S
  <2>1. [i \in 0 .. 0 |-> {}] = Loop([i \in 0 .. 0 |-> {}], 0)
    OBVIOUS
  <2> QED BY <2>1
<1>4. ASSUME NEW k \in S PROVE k + 1 \in S
  <2>1. PICK f : f = Loop(f, k)
    OBVIOUS
  <2> DEFINE g == Loop(f, k + 1)
  <2>2. ASSUME NEW i \in 0 .. k PROVE g[i] = f[i]
    <3>1. i \in 0 .. k + 1
      OBVIOUS
    <3>2. f[i] = Loop(f, k)[i]
      BY <2>1
    <3> QED BY <3>1, <3>2
  <2>3. g = Loop(g, k + 1)
    <3>1. \A i \in 0 .. k + 1 : i = 0 \/ i - 1 \in 0 .. k
      OBVIOUS
    <3>2. \A i \in 0 .. k + 1 : i = 0 \/ g[i - 1] = f[i - 1]
      BY <2>2, <3>1
    <3> QED BY <3>2
  <2> HIDE DEF g
  <2>4. \E x : x = Loop(x, k + 1)
    BY <2>3
  <2>5. k + 1 \in Nat
    OBVIOUS
  <2> HIDE DEF Loop
  <2> QED BY <2>4, <2>5
<1>5. \E f : f = Loop(f, N)
  <2>1. S = Nat
    <3> HIDE DEF S
    <3>1. S \in SUBSET Nat
      BY DEF S
    <3> QED BY <1>3, <1>4, <3>1, AllNaturals
  <2> QED BY <1>2, <2>1
<1>6. found = Loop(found, N)
  <2> HIDE DEF Loop
  <2> QED BY <1>5
<1> HIDE DEF found
<1>7. 0 \in G
  <2>1. found[0] = {}
    BY <1>2, <1>6
  <2> QED BY <2>1 DEF Found
<1>8. ASSUME NEW k \in G PROVE k + 1 \in G
  <2> SUFFICES ASSUME k + 1 <= N PROVE Found(found[k + 1], layers, entry, k + 1)
    OBVIOUS
  <2>1. k \in Nat /\ Found(found[k], layers, entry, k)
    BY <1>2
  <2>2. found[k + 1] = BetterOf(BetterOf(found[k], Candidate(layers[k + 1], entry, "any")),
                                Candidate(layers[k + 1], entry, "land"))
    <3> DEFINE i == k + 1
    <3>1. i \in 0 .. N /\ i # 0 /\ i - 1 = k
      BY <1>2, <2>1
    <3> HIDE DEF i, N, G
    <3>2. found[i] = BetterOf(BetterOf(found[i - 1], Candidate(layers[i], entry, "any")),
                              Candidate(layers[i], entry, "land"))
      BY <1>6, <3>1, Zenon
    <3>3. found[i] = BetterOf(BetterOf(found[k], Candidate(layers[i], entry, "any")),
                              Candidate(layers[i], entry, "land"))
      BY <3>1, <3>2, Zenon
    <3> QED BY <3>3 DEF i
  <2>3. k > 0 => layers[k + 1].maps # {}
    BY <1>2, <2>1
  <2> QED BY <2>1, <2>2, <2>3, FoundNext
<1>9. G = Nat
  <2> HIDE DEF G
  <2>1. G \in SUBSET Nat
    BY DEF G
  <2> QED BY <1>7, <1>8, <2>1, AllNaturals
<1>10. Found(found[N], layers, entry, N)
  BY <1>2, <1>9
<1> QED BY <1>1, <1>10

LEMMA LayerFits ==
  ASSUME NEW main, PackageOK(main), NEW f, PackageOK(f), NEW t \in DOMAIN main.types,
         NEW e \in DOMAIN main.types[t].entries, NEW layer, LayerOK(layer, f, main, t), NEW c
  PROVE  LET found == Candidate(layer, e, c)
             type == main.types[t]
         IN /\ found.fits <=> Has(f, type, e, c) /\ c \in {"any", params}
            /\ found.file = f.name /\ found.config = c /\ found.type = type.name
            /\ found.fits => found.name = type.entries[e].name
<1> DEFINE found == Candidate(layer, e, c)
           type == main.types[t]
           name == type.entries[e].name
           k == Alike(f, main, t)
           theirs == f.types[k].entries
           p == Place(theirs, name)
           there == IF layer.maps # {} THEN lookup(CHOOSE m \in layer.maps : TRUE, e) ELSE e
           here == IF there \in DOMAIN layer.type.entries THEN layer.type.entries[there]
                   ELSE [name |-> NoName, defs |-> << >>]
<1>1. /\ k # 0 /\ layer.file = f.name /\ layer.type = f.types[k]
      /\ \/ layer.maps = {} /\ f = main
         \/ \E m \in layer.maps : layer.maps = {m} /\
              \A i \in DOMAIN type.entries :
                lookup(m, i) = Place(theirs, type.entries[i].name)
  BY Zenon DEF LayerOK
<1>2. k \in DOMAIN f.types /\ f.types[k].name = type.name
  BY <1>1, AlikeTypes
<1>3. Distinct(theirs)
  BY <1>2, TypesOf
<1>4. there = p
  <2>1. CASE layer.maps = {} /\ f = main
    <3>1. k = t
      BY <2>1, AlikeTypes
    <3>2. Place(theirs, name) = e
      BY <1>3, <2>1, <3>1, PlaceOf
    <3> QED BY <2>1, <3>2
  <2>2. CASE \E m \in layer.maps : layer.maps = {m} /\
              \A i \in DOMAIN type.entries :
                lookup(m, i) = Place(theirs, type.entries[i].name)
    <3>1. PICK m \in layer.maps : layer.maps = {m} /\
              \A i \in DOMAIN type.entries :
                lookup(m, i) = Place(theirs, type.entries[i].name)
      BY <2>2
    <3>2. (CHOOSE x \in layer.maps : TRUE) = m
      BY <3>1
    <3> QED BY <3>1, <3>2
  <2> QED BY <1>1, <2>1, <2>2
<1>5. found = [config |-> c, overlay |-> layer.maps # {}, file |-> layer.file,
               type |-> layer.type.name, name |-> here.name, defs |-> here.defs,
               fits |-> c \in DOMAIN here.defs /\ c \in {"any", params}]
  BY Zenon DEF Candidate
<1> HIDE DEF there, k, theirs, found
<1>6. here = IF p \in DOMAIN theirs THEN theirs[p] ELSE [name |-> NoName, defs |-> << >>]
  BY <1>1, <1>4 DEF theirs
<1>7. /\ found.file = f.name /\ found.config = c /\ found.type = type.name
      /\ found.name = here.name
      /\ found.fits <=> c \in DOMAIN here.defs /\ c \in {"any", params}
  BY <1>1, <1>2, <1>5
<1> HIDE DEF p, here, name, type
<1>8. /\ p \in DOMAIN theirs <=> p # 0
      /\ p # 0 => theirs[p].name = name
      /\ \A i \in DOMAIN theirs : theirs[i].name = name => p = i
  BY <1>3, PlaceOf DEF p
<1>9. CASE p = 0
  <2>1. DOMAIN here.defs = {}
    BY <1>6, <1>8, <1>9
  <2>2. ~ Has(f, type, e, c)
    <3> SUFFICES ASSUME NEW x \in ToSet(f.types), x.name = type.name,
                        NEW y \in ToSet(x.entries), y.name = name
                 PROVE FALSE
      BY DEF Has, name
    <3>1. PICK i \in DOMAIN f.types : x = f.types[i]
      BY DEF ToSet
    <3>2. i = k
      BY <1>2, <3>1, TypesOf DEF Distinct
    <3>3. PICK j \in DOMAIN theirs : y = theirs[j]
      BY <3>1, <3>2 DEF ToSet, theirs
    <3>4. j # 0
      BY <1>3, PlaceOf
    <3> QED BY <1>8, <1>9, <3>3, <3>4
  <2> QED BY <1>7, <2>1, <2>2 DEF found, type
<1>10. CASE p # 0
  <2>1. here = theirs[p] /\ p \in DOMAIN theirs
    BY <1>6, <1>8, <1>10
  <2>2. c \in DOMAIN here.defs => Has(f, type, e, c)
    <3>1. f.types[k] \in ToSet(f.types) /\ theirs[p] \in ToSet(f.types[k].entries)
      BY <1>2, <2>1 DEF ToSet, theirs
    <3>2. theirs[p].name = type.entries[e].name
      BY <1>8, <1>10 DEF name
    <3> QED BY <1>2, <2>1, <3>1, <3>2 DEF Has
  <2>3. Has(f, type, e, c) => c \in DOMAIN here.defs
    <3> SUFFICES ASSUME NEW x \in ToSet(f.types), x.name = type.name,
                        NEW y \in ToSet(x.entries), y.name = name, c \in DOMAIN y.defs
                 PROVE c \in DOMAIN here.defs
      BY DEF Has, name
    <3>1. PICK i \in DOMAIN f.types : x = f.types[i]
      BY DEF ToSet
    <3>2. i = k
      BY <1>2, <3>1, TypesOf DEF Distinct
    <3>3. PICK j \in DOMAIN theirs : y = theirs[j]
      BY <3>1, <3>2 DEF ToSet, theirs
    <3> QED BY <1>8, <2>1, <3>3
  <2>4. here.name = name
    BY <1>8, <1>10, <2>1
  <2> QED BY <1>7, <2>2, <2>3, <2>4 DEF found, type, name
<1> QED BY <1>9, <1>10

\* What is found is the definition of that type and name in file f.
From(chosen, f, config, type, e) ==
  \E found \in chosen : /\ found.file = f.name /\ found.config = config
                        /\ found.type = type.name /\ found.name = type.entries[e].name

LEMMA LastWins ==
  ASSUME NEW files, files \in Seq(ToSet(files)), Len(files) > 0,
         \A i \in DOMAIN files : PackageOK(files[i]),
         NEW t \in DOMAIN files[1].types, NEW layers, LayersOK(layers, files, t),
         NEW e \in DOMAIN files[1].types[t].entries,
         NEW config,
         config = IF params = "land" /\ \E f \in ToSet(files) : Has(f, files[1].types[t], e, "land")
                  THEN "land" ELSE "any",
         NEW last \in DOMAIN files, Has(files[last], files[1].types[t], e, config),
         \A i \in DOMAIN files : Has(files[i], files[1].types[t], e, config) => i <= last
  PROVE  From(BestEntry(layers, e), files[last], config, files[1].types[t], e)
<1> DEFINE main == files[1]
           type == main.types[t]
           C(j, c) == Candidate(layers[j], e, c)
           B == BestEntry(layers, e)
<1>1. PICK p \in [DOMAIN layers -> DOMAIN files] :
        /\ \A j, k \in DOMAIN layers : j < k => p[j] < p[k]
        /\ \A j \in DOMAIN layers : /\ LayerOK(layers[j], files[p[j]], files[1], t)
                                    /\ p[j] # 1 => layers[j].maps # {}
        /\ \A i \in DOMAIN files : Alike(files[i], files[1], t) # 0 =>
                                     \E j \in DOMAIN layers : p[j] = i
  BY Zenon DEF LayersOK
<1>2. layers \in Seq(ToSet(layers))
  BY DEF LayersOK
<1>3. DOMAIN files = 1 .. Len(files) /\ DOMAIN layers = 1 .. Len(layers)
      /\ Len(layers) \in Nat /\ Len(files) \in Nat
  BY <1>2
<1>4. PackageOK(main)
  BY <1>3
<1>5. ASSUME NEW j \in DOMAIN layers, NEW c
      PROVE  /\ C(j, c).fits <=> Has(files[p[j]], type, e, c) /\ c \in {"any", params}
             /\ C(j, c).file = files[p[j]].name /\ C(j, c).config = c /\ C(j, c).type = type.name
             /\ C(j, c).fits => C(j, c).name = type.entries[e].name
  <2>1. p[j] \in DOMAIN files
    BY <1>1
  <2>2. LayerOK(layers[j], files[p[j]], main, t) /\ PackageOK(files[p[j]])
    BY <1>1, <2>1
  <2> HIDE DEF main
  <2> QED BY <1>4, <2>2, LayerFits DEF main
<1>6. Found(B, layers, e, Len(layers))
  <2>1. ASSUME NEW j \in DOMAIN layers, j # 1 PROVE layers[j].maps # {}
    <3>1. 1 \in DOMAIN layers /\ 1 < j
      BY <1>3, <2>1
    <3>2. p[1] < p[j] /\ p[1] \in 1 .. Len(files) /\ p[j] \in 1 .. Len(files)
      BY <1>1, <1>3, <3>1
    <3>3. p[j] # 1
      BY <1>3, <3>2
    <3> QED BY <1>1, <3>3
  <2> QED BY <1>2, <2>1, EntryFound
<1>7. PICK top \in DOMAIN layers : p[top] = last
  <2>1. PICK x \in ToSet(files[last].types) : x.name = type.name
    BY DEF Has
  <2>2. PICK k \in DOMAIN files[last].types : x = files[last].types[k]
    BY DEF ToSet
  <2>3. Alike(files[last], main, t) = k /\ k # 0
    BY <1>4, <2>1, <2>2, AlikeTypes, TypesOf
  <2> QED BY <1>1, <2>3
<1>8. C(top, config).fits
  <2>1. config \in {"any", params}
    OBVIOUS
  <2> QED BY <1>5, <1>7, <2>1
<1>9. ASSUME NEW j \in DOMAIN layers, top <= j, C(j, config).fits PROVE j = top
  <2>1. Has(files[p[j]], type, e, config) /\ p[j] \in DOMAIN files
    BY <1>1, <1>5, <1>9
  <2>2. p[j] <= p[top]
    BY <1>7, <2>1
  <2>3. ~ (top < j)
    BY <1>1, <1>3, <1>7, <2>1, <2>2
  <2> QED BY <1>3, <1>9, <2>3
<1>10. B = {C(top, config)}
  <2>1. \/ B = {} /\ \A j \in DOMAIN layers : ~ C(j, "any").fits /\ ~ C(j, "land").fits
        \/ \E j \in DOMAIN layers : /\ B = {C(j, "land")} /\ C(j, "land").fits
                                    /\ \A k \in DOMAIN layers : C(k, "land").fits => k <= j
        \/ \E j \in DOMAIN layers : /\ B = {C(j, "any")} /\ C(j, "any").fits
                                    /\ \A k \in DOMAIN layers : C(k, "any").fits => k <= j
                                    /\ \A k \in DOMAIN layers : ~ C(k, "land").fits
    BY <1>3, <1>6 DEF Found
  <2>2. config \in {"any", "land"}
    OBVIOUS
  <2>3. config = "any" => \A j \in DOMAIN layers : ~ C(j, "land").fits
    <3> SUFFICES ASSUME config = "any", NEW j \in DOMAIN layers, C(j, "land").fits PROVE FALSE
      OBVIOUS
    <3>1. Has(files[p[j]], type, e, "land") /\ "land" \in {"any", params} /\ p[j] \in DOMAIN files
      BY <1>1, <1>5
    <3>2. files[p[j]] \in ToSet(files)
      BY <3>1 DEF ToSet
    <3> QED BY <3>1, <3>2
  <2> HIDE DEF C, B
  <2>4. CASE config = "any"
    <3>1. PICK j \in DOMAIN layers : /\ B = {C(j, "any")} /\ C(j, "any").fits
                                     /\ \A k \in DOMAIN layers : C(k, "any").fits => k <= j
      BY <1>8, <2>1, <2>3, <2>4
    <3>2. top <= j
      BY <1>8, <2>4, <3>1
    <3> QED BY <1>9, <2>4, <3>1, <3>2
  <2>5. CASE config = "land"
    <3>1. PICK j \in DOMAIN layers : /\ B = {C(j, "land")} /\ C(j, "land").fits
                                     /\ \A k \in DOMAIN layers : C(k, "land").fits => k <= j
      BY <1>8, <2>1, <2>5
    <3>2. top <= j
      BY <1>8, <2>5, <3>1
    <3> QED BY <1>9, <2>5, <3>1, <3>2
  <2> QED BY <2>2, <2>4, <2>5
<1> HIDE DEF C, B
<1> QED BY <1>5, <1>7, <1>8, <1>10 DEF B, From

-----------------------------------------------------------------------------
(* Tables of references *)

IsRefs(refs) ==
  /\ refs = [entries |-> refs.entries, ids |-> refs.ids]
  /\ \A x, y \in DOMAIN refs.entries : refs.entries[x] = refs.entries[y] => x = y

\* The table leads to group, if it has its name.
Leads(refs, group) ==
  group.name \in DOMAIN refs.entries =>
    /\ refs.entries[group.name] \in DOMAIN refs.ids
    /\ refs.ids[refs.entries[group.name]] = group.id

LEMMA MappingAdded ==
  ASSUME NEW refs, IsRefs(refs), NEW name, NEW id,
         NEW new, new = addMapping(refs, name, id)
  PROVE  /\ IsRefs(new) /\ new.entries = refs.entries
         /\ \A group : group.name = name /\ group.id = id => Leads(new, group)
         /\ \A group : group.name # name /\ Leads(refs, group) => Leads(new, group)
<1>1. CASE name \notin DOMAIN refs.entries
  BY <1>1 DEF addMapping, Leads
<1>2. CASE name \in DOMAIN refs.entries
  <2> DEFINE p == refs.entries[name]
             ids == [x \in DOMAIN refs.ids \cup {p} |-> IF x = p THEN id ELSE refs.ids[x]]
  <2>1. new = [refs EXCEPT !.ids = ids]
    BY <1>2 DEF addMapping, Put
  <2>2. new = [entries |-> refs.entries, ids |-> ids]
    <3> HIDE DEF ids
    <3> QED BY <2>1 DEF IsRefs
  <2>3. new.entries = refs.entries /\ new.ids = ids /\ IsRefs(new)
    <3> HIDE DEF ids
    <3> QED BY <2>2 DEF IsRefs
  <2>4. ASSUME NEW group, group.name = name, group.id = id PROVE Leads(new, group)
    BY <2>3, <2>4 DEF Leads
  <2>5. ASSUME NEW group, group.name # name, Leads(refs, group) PROVE Leads(new, group)
    <3> SUFFICES ASSUME group.name \in DOMAIN refs.entries
                 PROVE  /\ refs.entries[group.name] \in DOMAIN ids
                        /\ ids[refs.entries[group.name]] = group.id
      BY <2>3 DEF Leads
    <3>1. refs.entries[group.name] # p
      BY <1>2, <2>5 DEF IsRefs
    <3> QED BY <2>5, <3>1 DEF Leads
  <2> QED BY <2>3, <2>4, <2>5
<1> QED BY <1>1, <1>2

\* The loop that fills a table with the groups that are there.
LEMMA GroupsMapped ==
  ASSUME NEW refs, IsRefs(refs), NEW groups, groups \in Seq(ToSet(groups)),
         \A g, h \in DOMAIN groups : groups[g].name = groups[h].name => g = h,
         NEW new, new = MapGroups(refs, groups)
  PROVE  /\ IsRefs(new) /\ new.entries = refs.entries
         /\ \A g \in DOMAIN groups : Leads(new, groups[g])
<1> DEFINE N == Len(groups)
           Loop(f, k) == [g \in 0 .. k |->
                            IF g = 0 THEN refs
                            ELSE addMapping(f[g - 1], groups[g].name, groups[g].id)]
           mapped == CHOOSE f : f = Loop(f, N)
           S == {k \in Nat : \E f : f = Loop(f, k)}
           Good(r, k) == /\ IsRefs(r) /\ r.entries = refs.entries
                         /\ \A g \in 1 .. k : Leads(r, groups[g])
           G == {k \in Nat : k <= N => Good(mapped[k], k)}
<1>1. new = mapped[N]
  BY Zenon DEF MapGroups
<1>2. N \in Nat /\ DOMAIN groups = 1 .. N
  OBVIOUS
<1>3. 0 \in S
  <2>1. [i \in 0 .. 0 |-> refs] = Loop([i \in 0 .. 0 |-> refs], 0)
    OBVIOUS
  <2> QED BY <2>1
<1>4. ASSUME NEW k \in S PROVE k + 1 \in S
  <2>1. PICK f : f = Loop(f, k)
    OBVIOUS
  <2> DEFINE g == Loop(f, k + 1)
  <2>2. ASSUME NEW i \in 0 .. k PROVE g[i] = f[i]
    <3>1. i \in 0 .. k + 1
      OBVIOUS
    <3>2. f[i] = Loop(f, k)[i]
      BY <2>1
    <3> QED BY <3>1, <3>2
  <2>3. g = Loop(g, k + 1)
    <3>1. \A i \in 0 .. k + 1 : i = 0 \/ i - 1 \in 0 .. k
      OBVIOUS
    <3>2. \A i \in 0 .. k + 1 : i = 0 \/ g[i - 1] = f[i - 1]
      BY <2>2, <3>1
    <3> QED BY <3>2
  <2> HIDE DEF g
  <2>4. \E x : x = Loop(x, k + 1)
    BY <2>3
  <2>5. k + 1 \in Nat
    OBVIOUS
  <2> HIDE DEF Loop
  <2> QED BY <2>4, <2>5
<1>5. \E f : f = Loop(f, N)
  <2>1. S = Nat
    <3> HIDE DEF S
    <3>1. S \in SUBSET Nat
      BY DEF S
    <3> QED BY <1>3, <1>4, <3>1, AllNaturals
  <2> QED BY <1>2, <2>1
<1>6. mapped = Loop(mapped, N)
  <2> HIDE DEF Loop
  <2> QED BY <1>5
<1> HIDE DEF mapped
<1>7. 0 \in G
  <2>1. mapped[0] = refs
    BY <1>2, <1>6
  <2> QED BY <2>1
<1>8. ASSUME NEW k \in G PROVE k + 1 \in G
  <2> SUFFICES ASSUME k + 1 <= N PROVE Good(mapped[k + 1], k + 1)
    OBVIOUS
  <2>1. k \in Nat /\ Good(mapped[k], k)
    BY <1>2
  <2>2. mapped[k + 1] = addMapping(mapped[k], groups[k + 1].name, groups[k + 1].id)
    BY <1>2, <1>6, <2>1
  <2> DEFINE old == mapped[k]
             r == mapped[k + 1]
             next == groups[k + 1]
  <2>3. IsRefs(old) /\ old.entries = refs.entries /\ \A g \in 1 .. k : Leads(old, groups[g])
    BY <2>1
  <2>4. r = addMapping(old, next.name, next.id)
    BY <2>2
  <2>5. \A g \in 1 .. k : groups[g].name # next.name
    BY <1>2, <2>1
  <2> HIDE DEF old, r, next
  <2>6. /\ IsRefs(r) /\ r.entries = old.entries /\ Leads(r, next)
        /\ \A group : group.name # next.name /\ Leads(old, group) => Leads(r, group)
    BY <2>3, <2>4, MappingAdded
  <2>7. \A g \in 1 .. k : Leads(r, groups[g])
    BY <2>3, <2>5, <2>6
  <2>8. \A g \in 1 .. k + 1 : g \in 1 .. k \/ g = k + 1
    BY <2>1
  <2>9. \A g \in 1 .. k + 1 : Leads(r, groups[g])
    BY <2>6, <2>7, <2>8 DEF next
  <2> QED BY <2>3, <2>6, <2>9 DEF r
<1>9. G = Nat
  <2> HIDE DEF G
  <2>1. G \in SUBSET Nat
    BY DEF G
  <2> QED BY <1>7, <1>8, <2>1, AllNaturals
<1>10. Good(mapped[N], N)
  BY <1>2, <1>9
<1> QED BY <1>1, <1>2, <1>10

-----------------------------------------------------------------------------
(* What adding a package does to the groups *)

\* All but the table of references.
SameGroup(group, old) ==
  /\ IsGroup(group)
  /\ group.name = old.name /\ group.id = old.id
  /\ group.files = old.files /\ group.types = old.types

LEMMA RefsSet ==
  ASSUME NEW group, IsGroup(group), NEW refs
  PROVE  SameGroup([group EXCEPT !.refs = refs], group) /\ [group EXCEPT !.refs = refs].refs = refs
BY DEF IsGroup, SameGroup

Filled(group, files, types) == [group EXCEPT !.files = files, !.types = types]

LEMMA FilledGroup ==
  ASSUME NEW group, IsGroup(group), NEW files, NEW types,
         NEW filled, filled = Filled(group, files, types)
  PROVE  /\ IsGroup(filled) /\ filled.name = group.name /\ filled.id = group.id
         /\ filled.files = files /\ filled.types = types /\ filled.refs = group.refs
BY DEF IsGroup, Filled

Loads(refs, libs, groups) ==
  IF refs.entries # << >> \/ libs = << >> THEN refs
  ELSE MapGroups([refs EXCEPT !.entries = libs], groups)

LEMMA LibrariesLoaded ==
  ASSUME NEW group, IsGroup(group), NEW libs, NEW groups
  PROVE  /\ SameGroup(loadLibraries(group, libs, groups), group)
         /\ loadLibraries(group, libs, groups).refs = Loads(group.refs, libs, groups)
<1>1. CASE group.refs.entries # << >> \/ libs = << >>
  BY <1>1 DEF loadLibraries, Loads, SameGroup
<1>2. CASE ~ (group.refs.entries # << >> \/ libs = << >>)
  <2>1. loadLibraries(group, libs, groups) =
          [group EXCEPT !.refs = MapGroups([group.refs EXCEPT !.entries = libs], groups)]
    BY <1>2, Zenon DEF loadLibraries
  <2>2. Loads(group.refs, libs, groups) = MapGroups([group.refs EXCEPT !.entries = libs], groups)
    BY <1>2, Zenon DEF Loads
  <2> QED BY <2>1, <2>2, RefsSet
<1> QED BY <1>1, <1>2

LEMMA GroupAdded ==
  ASSUME NEW groups, groups \in Seq(ToSet(groups)), \A g \in DOMAIN groups : IsGroup(groups[g]),
         NEW name, NEW id, NEW new, new = addGroup(groups, name, id)
  PROVE  /\ DOMAIN new = 1 .. Len(groups) + 1 /\ Len(new) = Len(groups) + 1
         /\ \A g \in DOMAIN groups : /\ SameGroup(new[g], groups[g])
                                     /\ new[g].refs = addMapping(groups[g].refs, name, id)
         /\ LET last == new[Len(groups) + 1] IN
            /\ IsGroup(last) /\ last.name = name /\ last.id = id
            /\ last.files = <<>> /\ last.types = << >> /\ last.refs = NoRefs
<1> DEFINE empty == [name |-> name, id |-> id, files |-> <<>>, types |-> << >>, refs |-> NoRefs]
           all == Append(groups, empty)
           n == Len(groups) + 1
<1>1. /\ Len(groups) \in Nat /\ DOMAIN groups = 1 .. Len(groups)
      /\ DOMAIN all = 1 .. n /\ Len(all) = n
      /\ all[n] = empty /\ \A g \in DOMAIN groups : all[g] = groups[g]
  <2>1. groups \in Seq(ToSet(groups) \cup {empty})
    OBVIOUS
  <2> HIDE DEF empty
  <2> QED BY <2>1
<1>2. /\ IsGroup(empty) /\ empty.name = name /\ empty.id = id
      /\ empty.files = <<>> /\ empty.types = << >> /\ empty.refs = NoRefs
  BY DEF IsGroup
<1>3. new = [g \in DOMAIN all |-> [all[g] EXCEPT !.refs = addMapping(all[g].refs, name, id)]]
  BY Zenon DEF addGroup
<1> HIDE DEF empty, all
<1>4. DOMAIN new = 1 .. n /\ Len(new) = n
  BY <1>1, <1>3
<1>5. ASSUME NEW g \in 1 .. n, IsGroup(all[g])
      PROVE  SameGroup(new[g], all[g]) /\ new[g].refs = addMapping(all[g].refs, name, id)
  <2>1. new[g] = [all[g] EXCEPT !.refs = addMapping(all[g].refs, name, id)]
    BY <1>1, <1>3, Zenon
  <2> QED BY <1>5, <2>1, RefsSet
<1>6. \A g \in DOMAIN groups : /\ SameGroup(new[g], groups[g])
                                 /\ new[g].refs = addMapping(groups[g].refs, name, id)
  BY <1>1, <1>5
<1>7. SameGroup(new[n], empty) /\ new[n].refs = addMapping(NoRefs, name, id)
  BY <1>1, <1>2, <1>5
<1>8. addMapping(NoRefs, name, id) = NoRefs
  BY DEF addMapping, NoRefs
<1> QED BY <1>2, <1>4, <1>6, <1>7, <1>8 DEF SameGroup

\* A package that is no overlay gets a group of its own.
Opened(tb, file, id, parsed) ==
  LET n == Len(tb.groups) + 1
      all == addGroup(tb.groups, file.name, id)
  IN
  /\ parsed.nextPackageId = tb.nextPackageId + (IF file.id = 0 THEN 1 ELSE 0)
  /\ parsed.groups \in Seq(ToSet(parsed.groups)) /\ DOMAIN parsed.groups = 1 .. n
  /\ \A g \in DOMAIN tb.groups : SameGroup(parsed.groups[g], tb.groups[g])
  /\ IsGroup(parsed.groups[n])
  /\ parsed.groups[n].name = file.name /\ parsed.groups[n].id = id
  /\ parsed.groups[n].files = <<file>>
  /\ parsed.groups[n].types = addTypes(<< >>, file, {})
  /\ \A g \in DOMAIN tb.groups :
       parsed.groups[g].refs = addMapping(tb.groups[g].refs, file.name, id)
  /\ all \in Seq(ToSet(all)) /\ DOMAIN all = 1 .. n
  /\ \A g \in 1 .. n : all[g].name = parsed.groups[g].name /\ all[g].id = parsed.groups[g].id
  /\ parsed.groups[n].refs = Loads(NoRefs, file.libs, all)

LEMMA ParsedNew ==
  ASSUME NEW tb, tb.groups \in Seq(ToSet(tb.groups)),
         \A g \in DOMAIN tb.groups : IsGroup(tb.groups[g]),
         NEW file, NEW id, id = IF file.id = 0 THEN tb.nextPackageId ELSE file.id,
         \A g \in DOMAIN tb.groups : tb.groups[g].id # id,
         NEW parsed, parsed = parsePackage(tb, file, {}, 0)
  PROVE  Opened(tb, file, id, parsed)
<1> DEFINE n == Len(tb.groups) + 1
           groups == addGroup(tb.groups, file.name, id)
           filled == [groups[n] EXCEPT !.files = Append(@, file), !.types = addTypes(@, file, {})]
<1>1. GroupsWith(tb, id) = {}
  BY DEF GroupsWith
<1>2. /\ DOMAIN groups = 1 .. n /\ Len(groups) = n
      /\ \A g \in DOMAIN tb.groups :
           /\ SameGroup(groups[g], tb.groups[g])
           /\ groups[g].refs = addMapping(tb.groups[g].refs, file.name, id)
      /\ IsGroup(groups[n]) /\ groups[n].name = file.name /\ groups[n].id = id
      /\ groups[n].files = <<>> /\ groups[n].types = << >> /\ groups[n].refs = NoRefs
  BY GroupAdded
<1>3. parsed = [groups |-> [i \in DOMAIN groups |->
                              IF i = n THEN loadLibraries(filled, file.libs, groups) ELSE groups[i]],
                nextPackageId |-> tb.nextPackageId + (IF file.id = 0 THEN 1 ELSE 0)]
  <2>1. parsed = LET g == Len(groups) IN
          [groups |-> [i \in DOMAIN groups |->
              IF i = g
              THEN loadLibraries([groups[g] EXCEPT !.files = Append(@, file), !.types = addTypes(@, file, {})],
                                 file.libs, groups)
              ELSE groups[i]],
           nextPackageId |-> tb.nextPackageId + (IF file.id = 0 THEN 1 ELSE 0)]
    <3> HIDE DEF n
    <3> QED BY <1>1 DEF parsePackage
  <2> HIDE DEF groups
  <2> QED BY <1>2, <2>1
<1> HIDE DEF groups
<1>4. /\ IsGroup(filled) /\ filled.name = file.name /\ filled.id = id
      /\ filled.files = <<file>> /\ filled.types = addTypes(<< >>, file, {})
      /\ filled.refs = NoRefs
  <2>1. filled = Filled(groups[n], <<file>>, addTypes(<< >>, file, {}))
    BY <1>2 DEF Filled
  <2> HIDE DEF filled, n
  <2> QED BY <1>2, <2>1, FilledGroup
<1> HIDE DEF filled
<1>5. /\ SameGroup(loadLibraries(filled, file.libs, groups), filled)
      /\ loadLibraries(filled, file.libs, groups).refs = Loads(NoRefs, file.libs, groups)
  BY <1>4, LibrariesLoaded
<1>6. DOMAIN parsed.groups = 1 .. n /\ parsed.groups[n] = loadLibraries(filled, file.libs, groups)
  BY <1>2, <1>3
<1>7. \A g \in DOMAIN tb.groups : parsed.groups[g] = groups[g]
  BY <1>2, <1>3
<1>8. n \in Nat
  OBVIOUS
<1>12. \A g \in 1 .. n : g = n \/ g \in DOMAIN tb.groups
  OBVIOUS
<1> HIDE DEF n
<1>9. parsed.groups \in Seq(ToSet(parsed.groups))
  BY <1>3, <1>6, <1>8 DEF ToSet
<1>10. parsed.nextPackageId = tb.nextPackageId + (IF file.id = 0 THEN 1 ELSE 0)
  BY <1>3
<1>11. groups \in Seq(ToSet(groups))
  <2>1. groups = [g \in 1 .. n |-> groups[g]]
    <3>1. groups = [g \in DOMAIN Append(tb.groups, [name |-> file.name, id |-> id, files |-> <<>>,
                                                    types |-> << >>, refs |-> NoRefs]) |-> groups[g]]
      BY Zenon DEF groups, addGroup
    <3>2. DOMAIN groups = 1 .. n
      BY <1>2
    <3> QED BY <3>1, <3>2
  <2> QED BY <1>2, <1>8, <2>1 DEF ToSet
<1>13. \A g \in 1 .. n : groups[g].name = parsed.groups[g].name /\ groups[g].id = parsed.groups[g].id
  BY <1>2, <1>4, <1>5, <1>6, <1>7, <1>12 DEF SameGroup
<1>14. /\ parsed.nextPackageId = tb.nextPackageId + (IF file.id = 0 THEN 1 ELSE 0)
       /\ parsed.groups \in Seq(ToSet(parsed.groups)) /\ DOMAIN parsed.groups = 1 .. n
       /\ \A g \in DOMAIN tb.groups : SameGroup(parsed.groups[g], tb.groups[g])
       /\ IsGroup(parsed.groups[n])
       /\ parsed.groups[n].name = file.name /\ parsed.groups[n].id = id
       /\ parsed.groups[n].files = <<file>>
       /\ parsed.groups[n].types = addTypes(<< >>, file, {})
  BY <1>2, <1>4, <1>5, <1>6, <1>7, <1>9, <1>10 DEF SameGroup
<1>15. /\ \A g \in DOMAIN tb.groups :
            parsed.groups[g].refs = addMapping(tb.groups[g].refs, file.name, id)
       /\ groups \in Seq(ToSet(groups)) /\ DOMAIN groups = 1 .. n
       /\ parsed.groups[n].refs = Loads(NoRefs, file.libs, groups)
  BY <1>2, <1>5, <1>6, <1>7, <1>11
<1> QED BY <1>13, <1>14, <1>15 DEF Opened, groups, n

\* An overlay goes to the group of its target.
Overlaid(tb, g, file, maps, parsed) ==
  LET old == tb.groups[g]
      new == parsed.groups[g]
  IN /\ parsed.nextPackageId = tb.nextPackageId
     /\ parsed.groups \in Seq(ToSet(parsed.groups)) /\ DOMAIN parsed.groups = DOMAIN tb.groups
     /\ \A h \in DOMAIN tb.groups : h # g => parsed.groups[h] = tb.groups[h]
     /\ IsGroup(new) /\ new.name = old.name /\ new.id = old.id
     /\ new.files = Append(old.files, file)
     /\ new.types = addTypes(old.types, file, maps)
     /\ new.refs = Loads(old.refs, file.libs, tb.groups)

LEMMA ParsedOverlay ==
  ASSUME NEW tb, tb.groups \in Seq(ToSet(tb.groups)), tb.nextPackageId \in Int,
         \A h \in DOMAIN tb.groups : IsGroup(tb.groups[h]),
         NEW g \in DOMAIN tb.groups,
         \A h \in DOMAIN tb.groups : tb.groups[h].id = tb.groups[g].id => h = g,
         NEW file, NEW maps, maps # {},
         NEW parsed, parsed = parsePackage(tb, file, maps, tb.groups[g].id)
  PROVE  Overlaid(tb, g, file, maps, parsed)
<1> DEFINE groups == tb.groups
           id == groups[g].id
           filled == [groups[g] EXCEPT !.files = Append(@, file), !.types = addTypes(@, file, maps)]
<1>1. GroupsWith(tb, id) = {g}
  BY DEF GroupsWith
<1>2. parsed = [groups |-> [i \in DOMAIN groups |->
                              IF i = g THEN loadLibraries(filled, file.libs, groups) ELSE groups[i]],
                nextPackageId |-> tb.nextPackageId + 0]
  <2> DEFINE h == CHOOSE i \in GroupsWith(tb, id) : TRUE
  <2>1. parsed =
          [groups |-> [i \in DOMAIN groups |->
              IF i = h
              THEN loadLibraries([groups[h] EXCEPT !.files = Append(@, file), !.types = addTypes(@, file, maps)],
                                 file.libs, groups)
              ELSE groups[i]],
           nextPackageId |-> tb.nextPackageId + 0]
    <3>1. GroupsWith(tb, id) # {}
      BY <1>1
    <3> HIDE DEF groups
    <3> QED BY <3>1 DEF parsePackage, groups
  <2>2. h = g
    BY <1>1
  <2> HIDE DEF groups, h
  <2> QED BY <2>1, <2>2
<1>3. filled = Filled(groups[g], Append(groups[g].files, file), addTypes(groups[g].types, file, maps))
  BY DEF Filled
<1> HIDE DEF filled
<1>4. /\ IsGroup(filled) /\ filled.name = groups[g].name /\ filled.id = groups[g].id
      /\ filled.files = Append(groups[g].files, file)
      /\ filled.types = addTypes(groups[g].types, file, maps)
      /\ filled.refs = groups[g].refs
  <2>1. IsGroup(groups[g])
    OBVIOUS
  <2> DEFINE old == groups[g]
             files == Append(old.files, file)
             types == addTypes(old.types, file, maps)
  <2>2. IsGroup(old) /\ filled = Filled(old, files, types)
    BY <1>3, <2>1
  <2> HIDE DEF old, files, types
  <2>3. /\ IsGroup(filled) /\ filled.name = old.name /\ filled.id = old.id
        /\ filled.files = files /\ filled.types = types /\ filled.refs = old.refs
    BY <2>2, FilledGroup
  <2> QED BY <2>3 DEF old, files, types
<1>5. /\ SameGroup(loadLibraries(filled, file.libs, groups), filled)
      /\ loadLibraries(filled, file.libs, groups).refs = Loads(groups[g].refs, file.libs, groups)
  BY <1>4, LibrariesLoaded
<1>6. /\ DOMAIN parsed.groups = DOMAIN groups
      /\ parsed.groups[g] = loadLibraries(filled, file.libs, groups)
      /\ \A h \in DOMAIN groups : h # g => parsed.groups[h] = groups[h]
      /\ parsed.nextPackageId = tb.nextPackageId
  BY <1>2
<1>7. parsed.groups \in Seq(ToSet(parsed.groups))
  <2>1. DOMAIN groups = 1 .. Len(groups) /\ Len(groups) \in Nat
    OBVIOUS
  <2> QED BY <1>2, <1>6, <2>1 DEF ToSet
<1> QED BY <1>4, <1>5, <1>6, <1>7 DEF SameGroup, Overlaid

-----------------------------------------------------------------------------
(* The invariant *)

LEMMA FilesOK ==
  ASSUME WellFormed(File), NEW f \in File
  PROVE  PackageOK(f) /\ (f.target = NoName => f.id \in Nat \ LibraryIDs)
BY DEF WellFormed, PackageOK

LEMMA LoadedFew ==
  ASSUME WellFormed(File), loaded \in Seq(File),
         \A i, j \in DOMAIN loaded : loaded[i] = loaded[j] => i = j
  PROVE  2 .. Len(loaded) + 2 \subseteq LibraryIDs
<1> DEFINE N == Len(loaded)
<1>1. N \in Nat /\ loaded \in [1 .. N -> File]
  OBVIOUS
<1>2. IsFiniteSet(File) /\ Cardinality(File) < Cardinality(LibraryIDs)
  BY DEF WellFormed
<1>3. IsFiniteSet(1 .. N) /\ Cardinality(1 .. N) = N
  BY <1>1, FS_Interval
<1>9. LibraryIDs = 2 .. 126
  BY DEF LibraryIDs, APP_PACKAGE_ID
<1>4. Cardinality(LibraryIDs) = 125
  <2>1. 2 \in Int /\ 126 \in Int
    OBVIOUS
  <2>2. Cardinality(2 .. 126) = IF 2 > 126 THEN 0 ELSE 126 - 2 + 1
    BY <2>1, FS_Interval
  <2> QED BY <1>9, <2>2
<1>5. loaded \in Injection(1 .. N, File)
  BY <1>1 DEF Injection, IsInjective
<1>6. Cardinality(1 .. N) <= Cardinality(File)
  BY <1>2, <1>5, FS_Injection
<1>7. Cardinality(File) \in Nat
  BY <1>2, FS_CardinalityType
<1> HIDE DEF N
<1>8. N + 2 <= 126
  BY <1>1, <1>2, <1>3, <1>4, <1>6, <1>7
<1>10. 2 .. N + 2 \subseteq LibraryIDs
  BY <1>1, <1>8, <1>9
<1> QED BY <1>10 DEF N

LEMMA TableInitInv == TableInit => TableInv
<1> SUFFICES ASSUME TableInit PROVE TableInv
  OBVIOUS
<1>1. table.groups = <<>> /\ table.nextPackageId = 2 /\ loaded = <<>>
  BY DEF TableInit
<1>2. <<>> \in Seq(File) /\ <<>> \in Seq(ToSet(<<>>)) /\ DOMAIN <<>> = {} /\ Len(<<>>) = 0
  OBVIOUS
<1> QED BY <1>1, <1>2 DEF TableInv

LEMMA GroupKept ==
  ASSUME NEW old, NEW next \in Int, NEW have, GroupOK(old, next, have),
         NEW group, SameGroup(group, old), NEW after \in Int, next <= after,
         NEW more, have \subseteq more
  PROVE  GroupOK(group, after, more)
<1>1. 2 .. next - 1 \subseteq 2 .. after - 1
  OBVIOUS
<1>2. /\ group.files = old.files /\ group.types = old.types
      /\ group.name = old.name /\ group.id = old.id
  BY DEF SameGroup
<1>3. IF group.files[1].id = 0 THEN group.id \in 2 .. after - 1 ELSE group.id = group.files[1].id
  BY <1>1, <1>2 DEF GroupOK
<1> QED BY <1>2, <1>3 DEF GroupOK, SameGroup

LEMMA OwnLayers ==
  ASSUME NEW file, PackageOK(file), NEW t \in DOMAIN file.types
  PROVE  LayersOK(<<OwnLayer(file, t)>>, <<file>>, t)
<1> DEFINE layers == <<OwnLayer(file, t)>>
           files == <<file>>
<1>1. Alike(file, file, t) = t /\ t # 0
  BY AlikeTypes, TypesOf
<1>2. LayerOK(OwnLayer(file, t), file, file, t)
  BY <1>1 DEF LayerOK, OwnLayer
<1>3. /\ DOMAIN layers = {1} /\ DOMAIN files = {1} /\ layers[1] = OwnLayer(file, t) /\ files[1] = file
      /\ layers \in Seq(ToSet(layers))
  BY DEF ToSet
<1> HIDE DEF layers, files
<1> DEFINE p == [j \in {1} |-> 1]
<1>4. /\ p \in [DOMAIN layers -> DOMAIN files]
      /\ \A j, k \in DOMAIN layers : j < k => p[j] < p[k]
      /\ \A j \in DOMAIN layers : /\ LayerOK(layers[j], files[p[j]], files[1], t)
                                  /\ p[j] # 1 => layers[j].maps # {}
      /\ \A i \in DOMAIN files : Alike(files[i], files[1], t) # 0 =>
                                   \E j \in DOMAIN layers : p[j] = i
  BY <1>2, <1>3
<1> HIDE DEF p
<1>5. LayersOK(layers, files, t)
  BY <1>3, <1>4 DEF LayersOK
<1> QED BY <1>5 DEF layers, files

LEMMA LayersKept ==
  ASSUME NEW files, files \in Seq(ToSet(files)), Len(files) > 0, NEW t,
         NEW layers, LayersOK(layers, files, t), NEW file,
         Alike(file, files[1], t) = 0
  PROVE  LayersOK(layers, Append(files, file), t)
<1> DEFINE new == Append(files, file)
           n == Len(files)
<1>1. PICK p \in [DOMAIN layers -> DOMAIN files] :
        /\ \A j, k \in DOMAIN layers : j < k => p[j] < p[k]
        /\ \A j \in DOMAIN layers : /\ LayerOK(layers[j], files[p[j]], files[1], t)
                                    /\ p[j] # 1 => layers[j].maps # {}
        /\ \A i \in DOMAIN files : Alike(files[i], files[1], t) # 0 =>
                                     \E j \in DOMAIN layers : p[j] = i
  BY Zenon DEF LayersOK
<1>2. /\ DOMAIN files = 1 .. n /\ n \in Nat /\ DOMAIN new = 1 .. n + 1
      /\ \A i \in DOMAIN files : new[i] = files[i]
      /\ new[n + 1] = file /\ new[1] = files[1]
  <2>1. files \in Seq(ToSet(files) \cup {file})
    OBVIOUS
  <2> QED BY <2>1
<1>3. layers \in Seq(ToSet(layers))
  BY DEF LayersOK
<1> HIDE DEF new, n
<1>4. /\ p \in [DOMAIN layers -> DOMAIN new]
      /\ \A j \in DOMAIN layers : LayerOK(layers[j], new[p[j]], new[1], t)
      /\ \A i \in DOMAIN new : Alike(new[i], new[1], t) # 0 => \E j \in DOMAIN layers : p[j] = i
  <2>1. \A j \in DOMAIN layers : p[j] \in 1 .. n /\ p[j] \in 1 .. n + 1
    BY <1>1, <1>2
  <2>2. \A j \in DOMAIN layers : LayerOK(layers[j], new[p[j]], new[1], t)
    BY <1>1, <1>2, <2>1
  <2>3. \A i \in DOMAIN new : i = n + 1 \/ i \in DOMAIN files
    BY <1>2
  <2>4. \A i \in DOMAIN new : Alike(new[i], new[1], t) # 0 => \E j \in DOMAIN layers : p[j] = i
    BY <1>1, <1>2, <2>3
  <2> QED BY <1>1, <1>2, <2>1, <2>2, <2>4
<1>5. LayersOK(layers, new, t)
  BY <1>1, <1>3, <1>4 DEF LayersOK
<1> QED BY <1>5 DEF new

LEMMA LayersGrown ==
  ASSUME NEW files, files \in Seq(ToSet(files)), Len(files) > 0, NEW t,
         NEW layers, LayersOK(layers, files, t), NEW file,
         NEW layer, LayerOK(layer, file, files[1], t), layer.maps # {}
  PROVE  LayersOK(Append(layers, layer), Append(files, file), t)
<1> DEFINE new == Append(files, file)
           n == Len(files)
           grown == Append(layers, layer)
           m == Len(layers)
<1>1. PICK p \in [DOMAIN layers -> DOMAIN files] :
        /\ \A j, k \in DOMAIN layers : j < k => p[j] < p[k]
        /\ \A j \in DOMAIN layers : /\ LayerOK(layers[j], files[p[j]], files[1], t)
                                    /\ p[j] # 1 => layers[j].maps # {}
        /\ \A i \in DOMAIN files : Alike(files[i], files[1], t) # 0 =>
                                     \E j \in DOMAIN layers : p[j] = i
  BY Zenon DEF LayersOK
<1>2. /\ DOMAIN files = 1 .. n /\ n \in Nat /\ DOMAIN new = 1 .. n + 1
      /\ \A i \in DOMAIN files : new[i] = files[i]
      /\ new[n + 1] = file /\ new[1] = files[1]
  <2>1. files \in Seq(ToSet(files) \cup {file})
    OBVIOUS
  <2> QED BY <2>1
<1>3. layers \in Seq(ToSet(layers))
  BY DEF LayersOK
<1>4. /\ DOMAIN layers = 1 .. m /\ m \in Nat /\ DOMAIN grown = 1 .. m + 1
      /\ \A j \in DOMAIN layers : grown[j] = layers[j]
      /\ grown[m + 1] = layer /\ grown \in Seq(ToSet(grown))
  <2>1. layers \in Seq(ToSet(layers) \cup {layer})
    BY <1>3
  <2>2. /\ DOMAIN layers = 1 .. m /\ m \in Nat /\ DOMAIN grown = 1 .. m + 1
        /\ \A j \in DOMAIN layers : grown[j] = layers[j]
        /\ grown[m + 1] = layer /\ grown \in Seq(ToSet(layers) \cup {layer})
    BY <2>1
  <2>3. grown \in Seq(ToSet(grown))
    <3>1. \A j \in 1 .. m + 1 : grown[j] \in ToSet(grown)
      BY <2>2 DEF ToSet
    <3> HIDE DEF grown, m
    <3> QED BY <2>2, <3>1
  <2> QED BY <2>2, <2>3
<1> HIDE DEF new, n, grown, m
<1> DEFINE q == [j \in 1 .. m + 1 |-> IF j = m + 1 THEN n + 1 ELSE p[j]]
<1>5. \A j \in 1 .. m + 1 : j = m + 1 \/ j \in 1 .. m
  BY <1>4
<1>6. /\ q \in [DOMAIN grown -> DOMAIN new] /\ q[m + 1] = n + 1
      /\ \A j \in 1 .. m : q[j] = p[j] /\ q[j] \in 1 .. n
  BY <1>1, <1>2, <1>4, <1>5
<1> HIDE DEF q
<1>7. ASSUME NEW j \in DOMAIN grown, NEW k \in DOMAIN grown, j < k PROVE q[j] < q[k]
  <2>1. j \in 1 .. m
    BY <1>4, <1>7
  <2>2. CASE k = m + 1
    BY <1>2, <1>6, <2>1, <2>2
  <2>3. CASE k \in 1 .. m
    BY <1>1, <1>4, <1>6, <1>7, <2>1, <2>3
  <2> QED BY <1>4, <1>5, <2>2, <2>3
<1>8. ASSUME NEW j \in DOMAIN grown
      PROVE  LayerOK(grown[j], new[q[j]], new[1], t) /\ (q[j] # 1 => grown[j].maps # {})
  <2>1. CASE j = m + 1
    BY <1>2, <1>4, <1>6, <2>1
  <2>2. CASE j \in 1 .. m
    BY <1>1, <1>2, <1>4, <1>6, <2>2
  <2> QED BY <1>4, <1>5, <2>1, <2>2
<1>9. ASSUME NEW i \in DOMAIN new, Alike(new[i], new[1], t) # 0 PROVE \E j \in DOMAIN grown : q[j] = i
  <2>1. CASE i = n + 1
    BY <1>4, <1>6, <2>1
  <2>2. CASE i \in 1 .. n
    <3>1. PICK j \in DOMAIN layers : p[j] = i
      BY <1>1, <1>2, <1>9, <2>2
    <3> QED BY <1>4, <1>6, <3>1
  <2> QED BY <1>2, <2>1, <2>2
<1>10. LayersOK(grown, new, t)
  BY <1>4, <1>6, <1>7, <1>8, <1>9 DEF LayersOK
<1> QED BY <1>10 DEF grown, new

OneMore(S, s, x, r) ==
  /\ r \in Seq(S) /\ Len(r) = Len(s) + 1 /\ ToSet(s) \subseteq ToSet(r) /\ x \in ToSet(r)
  /\ \A i, j \in DOMAIN r : r[i] = r[j] => i = j

LEMMA LoadedGrown ==
  ASSUME NEW S, NEW s \in Seq(S), NEW x \in S, x \notin ToSet(s),
         \A i, j \in DOMAIN s : s[i] = s[j] => i = j,
         NEW r, r = Append(s, x)
  PROVE  OneMore(S, s, x, r)
<1>1. /\ r \in Seq(S) /\ Len(r) = Len(s) + 1 /\ Len(s) \in Nat
      /\ DOMAIN r = 1 .. Len(s) + 1 /\ DOMAIN s = 1 .. Len(s)
      /\ r[Len(s) + 1] = x /\ \A i \in DOMAIN s : r[i] = s[i]
  OBVIOUS
<1>2. \A i \in DOMAIN r : i \in DOMAIN s \/ i = Len(s) + 1
  BY <1>1
<1>3. \A i \in DOMAIN s : s[i] # x
  BY DEF ToSet
<1>4. \A i, j \in DOMAIN r : r[i] = r[j] => i = j
  BY <1>1, <1>2, <1>3
<1>5. ToSet(s) \subseteq ToSet(r) /\ x \in ToSet(r)
  BY <1>1 DEF ToSet
<1> QED BY <1>1, <1>4, <1>5 DEF OneMore

\* Adding a package that is no overlay: no group has its ID yet.
LEMMA FreshID ==
  ASSUME WellFormed(File), TableInv, NEW file \in File, ~ IsLoaded(file), file.target = NoName,
         NEW id, id = IF file.id = 0 THEN table.nextPackageId ELSE file.id
  PROVE  \A g \in DOMAIN table.groups : IsGroup(table.groups[g]) /\ table.groups[g].id # id
<1> DEFINE groups == table.groups
           next == table.nextPackageId
           have == ToSet(loaded)
<1>1. /\ loaded \in Seq(File)
      /\ \A i, j \in DOMAIN loaded : loaded[i] = loaded[j] => i = j
      /\ next \in 2 .. 2 + Len(loaded) /\ Len(loaded) \in Nat
      /\ groups \in Seq(ToSet(groups))
      /\ \A g \in DOMAIN groups : GroupOK(groups[g], next, have)
      /\ \A g, h \in DOMAIN groups : groups[g].id = groups[h].id => g = h
  BY DEF TableInv
<1>2. next \in LibraryIDs /\ 2 .. next - 1 \subseteq LibraryIDs /\ next \in Int
  <2>1. 2 .. Len(loaded) + 2 \subseteq LibraryIDs
    BY <1>1, LoadedFew
  <2> QED BY <1>1, <2>1
<1>3. file \notin have
  BY DEF IsLoaded
<1>4. PackageOK(file) /\ file.id \in Nat \ LibraryIDs
  BY FilesOK
<1>5. ASSUME NEW g \in DOMAIN groups PROVE groups[g].id # id
  <2> DEFINE main == groups[g].files[1]
  <2>1. /\ IF main.id = 0 THEN groups[g].id \in 2 .. next - 1 ELSE groups[g].id = main.id
        /\ main \in have /\ main \in File /\ main.target = NoName
    <3>1. GroupOK(groups[g], next, have)
      BY <1>1
    <3>2. groups[g].files[1] \in File
      BY <3>1 DEF GroupOK
    <3> QED BY <3>1, <3>2 DEF GroupOK
  <2>2. main.id \in Nat \ LibraryIDs
    BY <2>1, FilesOK
  <2> HIDE DEF main
  <2>3. CASE file.id = 0
    BY <1>2, <2>1, <2>2, <2>3
  <2>4. CASE file.id # 0
    <3>1. main # file
      BY <1>3, <2>1
    <3>2. main.id # file.id
      BY <2>1, <2>4, <3>1 DEF WellFormed
    <3> QED BY <1>2, <1>4, <2>1, <2>4, <3>2
  <2> QED BY <2>3, <2>4
<1>6. \A g \in DOMAIN groups : IsGroup(groups[g])
  BY <1>1 DEF GroupOK
<1> QED BY <1>5, <1>6

LEMMA AddedOpened ==
  ASSUME WellFormed(File), TableInv, NEW file \in File, ~ IsLoaded(file), file.target = NoName,
         NEW id, id = IF file.id = 0 THEN table.nextPackageId ELSE file.id,
         NEW parsed, parsed = parsePackage(table, file, {}, 0)
  PROVE  Opened(table, file, id, parsed)
<1>1. table.groups \in Seq(ToSet(table.groups))
  BY DEF TableInv
<1>2. \A g \in DOMAIN table.groups : IsGroup(table.groups[g]) /\ table.groups[g].id # id
  BY FreshID
<1> QED BY <1>1, <1>2, ParsedNew

\* Adding a package that is no overlay.
LEMMA AddedInv ==
  ASSUME WellFormed(File), TableInv, NEW file \in File, ~ IsLoaded(file), file.target = NoName,
         loaded' = Append(loaded, file),
         table'.groups = parsePackage(table, file, {}, 0).groups,
         table'.nextPackageId = parsePackage(table, file, {}, 0).nextPackageId
  PROVE  TableInv'
<1> DEFINE groups == table.groups
           next == table.nextPackageId
           n == Len(groups) + 1
           have == ToSet(loaded)
           id == IF file.id = 0 THEN next ELSE file.id
           parsed == parsePackage(table, file, {}, 0)
           after == parsed.groups
<1>1. /\ loaded \in Seq(File)
      /\ \A i, j \in DOMAIN loaded : loaded[i] = loaded[j] => i = j
      /\ next \in 2 .. 2 + Len(loaded) /\ Len(loaded) \in Nat
      /\ groups \in Seq(ToSet(groups))
      /\ \A g \in DOMAIN groups : GroupOK(groups[g], next, have)
      /\ \A g, h \in DOMAIN groups : groups[g].id = groups[h].id => g = h
  BY DEF TableInv
<1>2. next \in LibraryIDs /\ 2 .. next - 1 \subseteq LibraryIDs /\ next \in Int
  <2>1. 2 .. Len(loaded) + 2 \subseteq LibraryIDs
    BY <1>1, LoadedFew
  <2> QED BY <1>1, <2>1
<1>3. file \notin have
  BY DEF IsLoaded
<1>4. PackageOK(file) /\ file.id \in Nat \ LibraryIDs
  BY FilesOK
<1>5. Opened(table, file, id, parsed)
  <2>1. id = IF file.id = 0 THEN table.nextPackageId ELSE file.id
    OBVIOUS
  <2>2. parsed = parsePackage(table, file, {}, 0)
    OBVIOUS
  <2> HIDE DEF id, parsed
  <2> QED BY <2>1, <2>2, AddedOpened
<1>6. \A g \in DOMAIN groups : groups[g].id # id
  <2>1. id = IF file.id = 0 THEN table.nextPackageId ELSE file.id
    OBVIOUS
  <2> HIDE DEF id
  <2> QED BY <2>1, FreshID
<1> HIDE DEF id, parsed, groups, next
<1>7. /\ parsed.nextPackageId = next + (IF file.id = 0 THEN 1 ELSE 0)
      /\ after \in Seq(ToSet(after)) /\ DOMAIN after = 1 .. n
      /\ \A g \in DOMAIN groups : SameGroup(after[g], groups[g])
      /\ IsGroup(after[n]) /\ after[n].name = file.name /\ after[n].id = id
      /\ after[n].files = <<file>>
      /\ after[n].types = addTypes(<< >>, file, {})
  <2> DEFINE k == Len(table.groups) + 1
  <2>2. /\ parsed.nextPackageId = table.nextPackageId + (IF file.id = 0 THEN 1 ELSE 0)
        /\ parsed.groups \in Seq(ToSet(parsed.groups)) /\ DOMAIN parsed.groups = 1 .. k
        /\ \A g \in DOMAIN table.groups : SameGroup(parsed.groups[g], table.groups[g])
        /\ IsGroup(parsed.groups[k])
        /\ parsed.groups[k].name = file.name /\ parsed.groups[k].id = id
        /\ parsed.groups[k].files = <<file>>
        /\ parsed.groups[k].types = addTypes(<< >>, file, {})
    BY <1>5, Zenon DEF Opened
  <2> QED BY <2>2 DEF groups, next
<1> HIDE DEF after, have
<1>8. /\ loaded' \in Seq(File) /\ Len(loaded') = Len(loaded) + 1
      /\ have \subseteq ToSet(loaded') /\ file \in ToSet(loaded')
      /\ \A i, j \in DOMAIN loaded' : loaded'[i] = loaded'[j] => i = j
  <2>1. OneMore(File, loaded, file, loaded')
    BY <1>1, <1>3, LoadedGrown DEF have
  <2> QED BY <2>1 DEF OneMore, have
<1>9. parsed.nextPackageId \in 2 .. 2 + Len(loaded') /\ next <= parsed.nextPackageId
      /\ parsed.nextPackageId \in Int
  BY <1>1, <1>7, <1>8
<1>10. \A g \in 1 .. n : g = n \/ g \in DOMAIN groups
  BY <1>1
<1>11. ASSUME NEW g \in DOMAIN after PROVE GroupOK(after[g], parsed.nextPackageId, ToSet(loaded'))
  <2>1. CASE g \in DOMAIN groups
    <3>1. GroupOK(groups[g], next, have) /\ SameGroup(after[g], groups[g])
      BY <1>1, <1>7, <2>1
    <3>2. have \subseteq ToSet(loaded')
      BY <1>8
    <3> QED BY <1>2, <1>9, <3>1, <3>2, GroupKept
  <2>2. CASE g = n
    <3> DEFINE group == after[n]
    <3>1. /\ group.files \in Seq(File) /\ Len(group.files) > 0 /\ group.files[1] = file
          /\ \A i \in DOMAIN group.files : i = 1
      BY <1>7
    <3>2. file.id = 0 => group.id \in 2 .. parsed.nextPackageId - 1
      BY <1>1, <1>7 DEF id
    <3>3. file.id # 0 => group.id = file.id
      BY <1>7 DEF id
    <3>4. /\ DOMAIN group.types = DOMAIN file.types
          /\ \A t \in DOMAIN file.types : group.types[t] = <<OwnLayer(file, t)>>
      BY <1>4, <1>7, OwnTypesAdded
    <3>5. \A t \in DOMAIN group.types : LayersOK(group.types[t], group.files, t)
      BY <1>4, <1>7, <3>4, OwnLayers
    <3>6. IsGroup(group) /\ group.name = file.name /\ file \in ToSet(loaded')
      BY <1>7, <1>8
    <3> HIDE DEF group
    <3>7. GroupOK(group, parsed.nextPackageId, ToSet(loaded'))
      BY <3>1, <3>2, <3>3, <3>4, <3>5, <3>6 DEF GroupOK
    <3> QED BY <2>2, <3>7 DEF group
  <2> QED BY <1>7, <1>10, <2>1, <2>2
<1>12. ASSUME NEW g \in DOMAIN after, NEW h \in DOMAIN after, after[g].id = after[h].id PROVE g = h
  <2>1. /\ \A i \in DOMAIN groups : after[i].id = groups[i].id /\ groups[i].id # id
        /\ after[n].id = id
    BY <1>6, <1>7 DEF SameGroup, groups
  <2> QED BY <1>1, <1>7, <1>10, <1>12, <2>1
<1>13. table'.groups = after /\ table'.nextPackageId = parsed.nextPackageId
  BY DEF after, parsed
<1> QED BY <1>7, <1>8, <1>9, <1>11, <1>12, <1>13 DEF TableInv

\* Adding an overlay.
LEMMA AddedOverlaid ==
  ASSUME TableInv, NEW g \in DOMAIN table.groups, NEW file, NEW maps, maps # {},
         NEW parsed, parsed = parsePackage(table, file, maps, table.groups[g].id)
  PROVE  Overlaid(table, g, file, maps, parsed)
<1>1. /\ table.groups \in Seq(ToSet(table.groups)) /\ table.nextPackageId \in Int
      /\ \A h \in DOMAIN table.groups : table.groups[h].id = table.groups[g].id => h = g
  BY DEF TableInv
<1>2. \A h \in DOMAIN table.groups : IsGroup(table.groups[h])
  BY DEF TableInv, GroupOK
<1> QED BY <1>1, <1>2, ParsedOverlay

LEMMA OverlaidInv ==
  ASSUME WellFormed(File), TableInv, NEW file \in File, ~ IsLoaded(file),
         loaded' = Append(loaded, file),
         NEW g \in TargetGroup(file),
         createIdmap(table.groups[g].files[1], file) # {},
         table' = parsePackage(table, file, createIdmap(table.groups[g].files[1], file),
                               table.groups[g].id)
  PROVE  TableInv'
<1> DEFINE groups == table.groups
           next == table.nextPackageId
           have == ToSet(loaded)
           old == groups[g]
           main == old.files[1]
           maps == createIdmap(main, file)
           after == table'.groups
           new == after[g]
<1>1. /\ loaded \in Seq(File)
      /\ \A i, j \in DOMAIN loaded : loaded[i] = loaded[j] => i = j
      /\ next \in 2 .. 2 + Len(loaded) /\ Len(loaded) \in Nat
      /\ groups \in Seq(ToSet(groups))
      /\ \A h \in DOMAIN groups : GroupOK(groups[h], next, have)
      /\ \A h, i \in DOMAIN groups : groups[h].id = groups[i].id => h = i
  BY DEF TableInv
<1>2. g \in DOMAIN groups /\ old.name = file.target
  BY DEF TargetGroup
<1>3. /\ GroupOK(old, next, have) /\ old.files \in Seq(File) /\ Len(old.files) > 0 /\ main \in File
      /\ old.name = main.name /\ DOMAIN old.types = DOMAIN main.types
  <2>1. GroupOK(old, next, have)
    BY <1>1, <1>2
  <2>2. old.files \in Seq(File) /\ Len(old.files) > 0
    BY <2>1 DEF GroupOK
  <2> QED BY <2>1, <2>2 DEF GroupOK
<1>4. PackageOK(file) /\ PackageOK(main)
  BY <1>3, FilesOK
<1>5. TypesInCommon(file, main)
  <2>1. file.target = main.name
    BY <1>2, <1>3
  <2> HIDE DEF main
  <2> QED BY <1>3, <2>1 DEF WellFormed, TypesInCommon
<1>6. \A h \in DOMAIN groups : IsGroup(groups[h])
  BY <1>1 DEF GroupOK
<1>7. \A h \in DOMAIN groups : groups[h].id = groups[g].id => h = g
  BY <1>1, <1>2
<1>8. /\ table'.nextPackageId = next
      /\ after \in Seq(ToSet(after)) /\ DOMAIN after = DOMAIN groups
      /\ \A h \in DOMAIN groups : h # g => after[h] = groups[h]
      /\ IsGroup(new) /\ new.name = old.name /\ new.id = old.id
      /\ new.files = Append(old.files, file)
      /\ new.types = addTypes(old.types, file, maps)
  <2> DEFINE parsed == table'
  <2>1. next \in Int /\ maps # {} /\ parsed = table'
    BY <1>1
  <2> HIDE DEF maps, parsed
  <2>2. /\ table.groups \in Seq(ToSet(table.groups)) /\ table.nextPackageId \in Int
        /\ \A h \in DOMAIN table.groups : IsGroup(table.groups[h])
        /\ g \in DOMAIN table.groups
        /\ \A h \in DOMAIN table.groups : table.groups[h].id = table.groups[g].id => h = g
        /\ parsed = parsePackage(table, file, maps, table.groups[g].id)
    BY <1>1, <1>2, <1>6, <1>7, <2>1 DEF maps
  <2>3. /\ parsed.nextPackageId = table.nextPackageId
        /\ parsed.groups \in Seq(ToSet(parsed.groups))
        /\ DOMAIN parsed.groups = DOMAIN table.groups
        /\ \A h \in DOMAIN table.groups : h # g => parsed.groups[h] = table.groups[h]
        /\ IsGroup(parsed.groups[g]) /\ parsed.groups[g].name = table.groups[g].name
        /\ parsed.groups[g].id = table.groups[g].id
        /\ parsed.groups[g].files = Append(table.groups[g].files, file)
        /\ parsed.groups[g].types = addTypes(table.groups[g].types, file, maps)
    <3>1. Overlaid(table, g, file, maps, parsed)
      BY <1>2, <2>1, <2>2, AddedOverlaid
    <3> QED BY <3>1, Zenon DEF Overlaid
  <2> QED BY <2>1, <2>3
<1> HIDE DEF groups, next, have, after, old, main, new
<1>9. /\ loaded' \in Seq(File) /\ Len(loaded') = Len(loaded) + 1 /\ have \subseteq ToSet(loaded')
      /\ \A i, j \in DOMAIN loaded' : loaded'[i] = loaded'[j] => i = j
  <2>1. file \notin ToSet(loaded)
    BY DEF IsLoaded
  <2>2. OneMore(File, loaded, file, loaded')
    BY <1>1, <2>1, LoadedGrown
  <2> QED BY <2>2 DEF OneMore, have
<1>10. next \in 2 .. 2 + Len(loaded') /\ next \in Int
  BY <1>1, <1>9
<1>11. GroupOK(new, next, ToSet(loaded'))
  <2> DEFINE files == new.files
             k == Len(old.files)
  <2>1. /\ files \in Seq(File) /\ Len(files) > 0 /\ files[1] = main
        /\ \A i \in DOMAIN files : \/ i \in DOMAIN old.files /\ files[i] = old.files[i]
                                 \/ files[i] = file
    BY <1>3, <1>8 DEF main
  <2>2. \A i \in DOMAIN files : i # 1 => files[i].target = new.name
    BY <1>2, <1>3, <1>8, <2>1 DEF GroupOK
  <2>3. /\ DOMAIN new.types = DOMAIN old.types
        /\ \A t \in DOMAIN old.types :
             new.types[t] = IF Alike(file, main, t) = 0 THEN old.types[t]
                            ELSE Append(old.types[t], OverlayLayer(file, main, t))
    BY <1>3, <1>4, <1>5, <1>8, OverlayTypesAdded
  <2>4. ASSUME NEW t \in DOMAIN new.types PROVE LayersOK(new.types[t], files, t)
    <3>1. t \in DOMAIN main.types /\ LayersOK(old.types[t], old.files, t)
      BY <1>3, <2>3, <2>4 DEF GroupOK
    <3>2. old.files \in Seq(ToSet(old.files)) /\ old.files[1] = main
      BY <1>3 DEF ToSet, main
    <3>3. CASE Alike(file, main, t) = 0
      BY <1>3, <1>8, <2>3, <3>1, <3>2, <3>3, LayersKept
    <3>4. CASE Alike(file, main, t) # 0
      <4> DEFINE layer == OverlayLayer(file, main, t)
      <4>1. LayerOK(layer, file, main, t) /\ layer.maps # {}
        <5> DEFINE i == Alike(file, main, t)
                   m == TypeMap(file, main, t)
        <5>1. \A e \in DOMAIN main.types[t].entries :
                lookup(m, e) = Place(file.types[i].entries, main.types[t].entries[e].name)
          BY <1>4, <3>1, <3>4, TypeMapIs
        <5> HIDE DEF m
        <5>2. layer = [file |-> file.name, type |-> file.types[i], maps |-> {m}]
          BY DEF OverlayLayer, m
        <5> HIDE DEF layer
        <5> QED BY <3>4, <5>1, <5>2 DEF LayerOK
      <4>2. new.types[t] = Append(old.types[t], layer)
        BY <2>3, <2>4, <3>4
      <4> DEFINE were == old.files
                 layers == old.types[t]
      <4>3. /\ were \in Seq(ToSet(were)) /\ Len(were) > 0 /\ LayersOK(layers, were, t)
            /\ LayerOK(layer, file, were[1], t) /\ layer.maps # {}
        BY <1>3, <3>1, <3>2, <4>1
      <4>4. files = Append(were, file) /\ new.types[t] = Append(layers, layer)
        BY <1>8, <4>2
      <4> HIDE DEF layer, were, layers, files
      <4>5. LayersOK(Append(layers, layer), Append(were, file), t)
        BY <4>3, LayersGrown
      <4> QED BY <4>4, <4>5
    <3> QED BY <3>3, <3>4
  <2>5. IF main.id = 0 THEN new.id \in 2 .. next - 1 ELSE new.id = main.id
    BY <1>3, <1>8 DEF GroupOK, main
  <2>6. main \in ToSet(loaded') /\ main.target = NoName /\ new.name = main.name
    BY <1>3, <1>8, <1>9 DEF GroupOK, main
  <2>7. DOMAIN new.types = DOMAIN main.types
    BY <1>3, <2>3
  <2> QED BY <1>8, <2>1, <2>2, <2>4, <2>5, <2>6, <2>7 DEF GroupOK
<1>12. ASSUME NEW h \in DOMAIN after PROVE GroupOK(after[h], next, ToSet(loaded'))
  <2>1. CASE h = g
    BY <1>11, <2>1 DEF new
  <2>2. CASE h # g
    <3>1. after[h] = groups[h] /\ GroupOK(groups[h], next, have)
      BY <1>1, <1>8, <2>2
    <3>2. SameGroup(groups[h], groups[h])
      BY <3>1 DEF SameGroup, GroupOK
    <3> QED BY <1>9, <1>10, <3>1, <3>2, GroupKept
  <2> QED BY <2>1, <2>2
<1>13. \A h \in DOMAIN after : h \in DOMAIN groups /\ after[h].id = groups[h].id
  BY <1>8 DEF new, old
<1>14. \A h, i \in DOMAIN after : after[h].id = after[i].id => h = i
  BY <1>1, <1>13
<1>15. after = table'.groups /\ table'.nextPackageId = next
  BY <1>8 DEF after
<1> QED BY <1>8, <1>9, <1>10, <1>12, <1>14, <1>15 DEF TableInv

(* A package with an ID of its own has it in every table, in the one of the  *)
(* idmap tool too.                                                           *)
LEMMA IdmapTargetIs ==
  ASSUME WellFormed(File), TableInv, NEW file \in File, NEW g \in TargetGroup(file)
  PROVE  IdmapTarget(table.groups[g].files[1]) = table.groups[g].id
<1> DEFINE group == table.groups[g]
           main == group.files[1]
<1>1. g \in DOMAIN table.groups /\ group.name = file.target
  BY DEF TargetGroup
<1>2. GroupOK(group, table.nextPackageId, ToSet(loaded))
  BY <1>1 DEF TableInv
<1>3. /\ main \in File /\ group.name = main.name
      /\ IF main.id = 0 THEN group.id \in 2 .. table.nextPackageId - 1 ELSE group.id = main.id
  BY <1>2 DEF GroupOK
<1> HIDE DEF group, main
<1>4. main.id # 0
  BY <1>1, <1>3 DEF WellFormed
<1> QED BY <1>3, <1>4 DEF IdmapTarget, group, main

LEMMA TableNextInv ==
  ASSUME WellFormed(File)
  PROVE  TableInv /\ [TableNext]_tableVars => TableInv'
<1> SUFFICES ASSUME TableInv, [TableNext]_tableVars PROVE TableInv'
  OBVIOUS
<1>1. CASE table' = table /\ loaded' = loaded
  BY <1>1 DEF TableInv
<1>2. ASSUME NEW file \in File, add(file) PROVE TableInv'
  BY <1>2, AddedInv DEF add
<1>3. ASSUME NEW file \in File, addOverlay(file) PROVE TableInv'
  <2>1. PICK g \in TargetGroup(file) :
          /\ createIdmap(table.groups[g].files[1], file) # {}
          /\ table' = parsePackage(table, file, createIdmap(table.groups[g].files[1], file),
                                   IdmapTarget(table.groups[g].files[1]))
    BY <1>3, Zenon DEF addOverlay
  <2>1a. IdmapTarget(table.groups[g].files[1]) = table.groups[g].id
    BY IdmapTargetIs
  <2>2. ~ IsLoaded(file) /\ loaded' = Append(loaded, file)
    BY <1>3 DEF addOverlay
  <2> QED BY <2>1, <2>1a, <2>2, OverlaidInv
<1>4. ASSUME NEW file \in File, addShared(file) PROVE TableInv'
  <2>1. /\ loaded = <<>> /\ file.id = SYS_PACKAGE_ID /\ file.target = NoName
        /\ table' = [groups |-> parsePackage(table, file, {}, 0).groups,
                     nextPackageId |-> table.nextPackageId]
        /\ loaded' = <<file>>
    BY <1>4 DEF addShared
  <2>2. ~ IsLoaded(file) /\ loaded' = Append(loaded, file)
    BY <2>1 DEF IsLoaded, ToSet
  <2>3. parsePackage(table, file, {}, 0).nextPackageId = table.nextPackageId + 0
    BY <2>1 DEF parsePackage, SYS_PACKAGE_ID
  <2>4. table.nextPackageId + 0 = table.nextPackageId
    BY DEF TableInv
  <2>5. /\ table'.groups = parsePackage(table, file, {}, 0).groups
        /\ table'.nextPackageId = parsePackage(table, file, {}, 0).nextPackageId
    BY <2>1, <2>3, <2>4
  <2> QED BY <2>1, <2>2, <2>5, AddedInv
<1>5. ASSUME NEW p, setParameters(p) PROVE table' = table /\ loaded' = loaded
  BY <1>5 DEF setParameters
<1>6. CASE TableNext
  BY <1>1, <1>2, <1>3, <1>4, <1>5, <1>6 DEF TableNext, AddPackage
<1>7. CASE UNCHANGED tableVars
  BY <1>1, <1>7 DEF tableVars
<1> QED BY <1>6, <1>7

LEMMA TableInvOverlays ==
  ASSUME WellFormed(File), TableInv
  PROVE  OverlaysByName
<1> SUFFICES ASSUME NEW g \in ToSet(table.groups), NEW t \in DOMAIN g.files[1].types,
                    NEW e \in DOMAIN g.files[1].types[t].entries
             PROVE  LET type == g.files[1].types[t]
                        config == IF params = "land" /\ \E f \in ToSet(g.files) : Has(f, type, e, "land")
                                  THEN "land" ELSE "any"
                        places == {i \in DOMAIN g.files : Has(g.files[i], type, e, config)}
                    IN \A last \in places : (\A i \in places : i <= last) =>
                         From(getEntry(<<g.id, t, e>>), g.files[last], config, type, e)
  BY Zenon DEF OverlaysByName, From
<1> DEFINE type == g.files[1].types[t]
           config == IF params = "land" /\ \E f \in ToSet(g.files) : Has(f, type, e, "land")
                     THEN "land" ELSE "any"
<1> SUFFICES ASSUME NEW last \in DOMAIN g.files, Has(g.files[last], type, e, config),
                    \A i \in DOMAIN g.files : Has(g.files[i], type, e, config) => i <= last
             PROVE  From(getEntry(<<g.id, t, e>>), g.files[last], config, type, e)
  OBVIOUS
<1> DEFINE id == <<g.id, t, e>>
<1>1. PICK n \in DOMAIN table.groups : g = table.groups[n]
  BY DEF ToSet
<1>2. GroupOK(g, table.nextPackageId, ToSet(loaded))
  BY <1>1 DEF TableInv
<1>3. id[1] = g.id /\ id[2] = t /\ id[3] = e
  OBVIOUS
<1> HIDE DEF id
<1>4. HasGroup(id) /\ GroupOf(id) = n
  BY <1>1, <1>3 DEF HasGroup, GroupOf, TableInv
<1>5. t \in DOMAIN g.types /\ LayersOK(g.types[t], g.files, t)
  BY <1>2 DEF GroupOK
<1>6. getEntry(id) = BestEntry(g.types[t], e)
  BY <1>1, <1>3, <1>4, <1>5 DEF getEntry
<1>7. g.files \in Seq(File) /\ Len(g.files) > 0
  BY <1>2 DEF GroupOK
<1>8. g.files \in Seq(ToSet(g.files)) /\ \A i \in DOMAIN g.files : g.files[i] \in File
  BY <1>7 DEF ToSet
<1>9. \A i \in DOMAIN g.files : PackageOK(g.files[i])
  BY <1>8, FilesOK
<1>10. config = IF params = "land" /\ \E f \in ToSet(g.files) : Has(f, type, e, "land")
               THEN "land" ELSE "any"
  OBVIOUS
<1> HIDE DEF config
<1>11. From(BestEntry(g.types[t], e), g.files[last], config, type, e)
  BY <1>5, <1>7, <1>8, <1>9, <1>10, LastWins
<1> QED BY <1>6, <1>11 DEF id

\* Whatever overlays are added over whatever packages that have an ID of their own, a
\* definition looked up is the one of the last of them that has one of that type and name
\* (getEntry, createIdmap).
THEOREM OverlaysWin ==
  ASSUME WellFormed(File)
  PROVE  TableSpec => []OverlaysByName
<1>1. TableInit => TableInv
  BY TableInitInv
<1>2. TableInv /\ [TableNext]_tableVars => TableInv'
  BY TableNextInv
<1>3. TableInv => OverlaysByName
  BY TableInvOverlays
<1> QED BY <1>1, <1>2, <1>3, PTL DEF TableSpec

-----------------------------------------------------------------------------
(* The libraries *)

\* The table of references of a group is the one of its package, and leads to every group.
RefsOK(group, groups) ==
  /\ IsRefs(group.refs)
  /\ group.files[1].libs # << >> => group.refs.entries = group.files[1].libs
  /\ \A h \in DOMAIN groups : Leads(group.refs, groups[h])

RefsInv ==
  /\ \A g, h \in DOMAIN table.groups : table.groups[g].name = table.groups[h].name => g = h
  /\ \A g \in DOMAIN table.groups : RefsOK(table.groups[g], table.groups)

LEMMA RefsInitInv == TableInit => RefsInv
BY DEF TableInit, RefsInv

LEMMA NoRefsOK == IsRefs(NoRefs) /\ \A group : Leads(NoRefs, group)
BY DEF IsRefs, Leads, NoRefs

\* A library table that is loaded leads to all groups.
Led(new, refs, libs, groups) ==
  /\ IsRefs(new) /\ \A h \in DOMAIN groups : Leads(new, groups[h])
  /\ refs.entries # << >> => new = refs
  /\ refs.entries = << >> /\ libs # << >> => new.entries = libs

LEMMA LoadsLeads ==
  ASSUME NEW refs, IsRefs(refs), NEW libs,
         \A x, y \in DOMAIN libs : libs[x] = libs[y] => x = y,
         NEW groups, groups \in Seq(ToSet(groups)),
         \A g, h \in DOMAIN groups : groups[g].name = groups[h].name => g = h,
         \A h \in DOMAIN groups : Leads(refs, groups[h]),
         NEW new, new = Loads(refs, libs, groups)
  PROVE  Led(new, refs, libs, groups)
<1>1. CASE refs.entries # << >> \/ libs = << >>
  <2>1. new = refs
    BY <1>1 DEF Loads
  <2> QED BY <1>1, <2>1 DEF Led
<1>2. CASE ~ (refs.entries # << >> \/ libs = << >>)
  <2> DEFINE first == [refs EXCEPT !.entries = libs]
  <2>1. new = MapGroups(first, groups)
    BY <1>2 DEF Loads
  <2>2. IsRefs(first) /\ first.entries = libs
    BY DEF IsRefs
  <2> HIDE DEF first
  <2>3. IsRefs(new) /\ new.entries = first.entries /\ \A h \in DOMAIN groups : Leads(new, groups[h])
    BY <2>1, <2>2, GroupsMapped
  <2> QED BY <1>2, <2>2, <2>3 DEF Led
<1> QED BY <1>1, <1>2

\* What a table leads to depends on the name and the ID of a group only.
LEMMA LeadsSame ==
  ASSUME NEW refs, NEW group, NEW other, group.name = other.name, group.id = other.id,
         Leads(refs, other)
  PROVE  Leads(refs, group)
BY DEF Leads

LEMMA AddedRefs ==
  ASSUME WellFormed(File), TableInv, RefsInv, NEW file \in File, ~ IsLoaded(file), file.target = NoName,
         table'.groups = parsePackage(table, file, {}, 0).groups
  PROVE  RefsInv'
<1> DEFINE groups == table.groups
           n == Len(groups) + 1
           id == IF file.id = 0 THEN table.nextPackageId ELSE file.id
           parsed == parsePackage(table, file, {}, 0)
           after == parsed.groups
           all == addGroup(groups, file.name, id)
<1>1. Opened(table, file, id, parsed)
  <2>1. id = IF file.id = 0 THEN table.nextPackageId ELSE file.id
    OBVIOUS
  <2>2. parsed = parsePackage(table, file, {}, 0)
    OBVIOUS
  <2> HIDE DEF id, parsed
  <2> QED BY <2>1, <2>2, AddedOpened
<1>2. /\ DOMAIN groups = 1 .. Len(groups) /\ Len(groups) \in Nat
      /\ \A g \in DOMAIN groups : GroupOK(groups[g], table.nextPackageId, ToSet(loaded))
  BY DEF TableInv
<1>3. \A g \in 1 .. n : g = n \/ g \in DOMAIN groups
  BY <1>2
<1>4. table'.groups = after
  OBVIOUS
<1>5. \A g \in DOMAIN groups : groups[g].name # file.name
  <2> SUFFICES ASSUME NEW g \in DOMAIN groups PROVE groups[g].name # file.name
    OBVIOUS
  <2>1. GroupOK(groups[g], table.nextPackageId, ToSet(loaded))
    BY <1>2
  <2> DEFINE main == groups[g].files[1]
  <2>2. /\ main \in File /\ main \in ToSet(loaded) /\ main.target = NoName
        /\ groups[g].name = main.name
    <3>1. main \in File
      BY <2>1 DEF GroupOK
    <3> QED BY <2>1, <3>1 DEF GroupOK
  <2>3. main # file
    BY <2>2 DEF IsLoaded
  <2> HIDE DEF main
  <2> QED BY <2>2, <2>3 DEF WellFormed
<1> HIDE DEF id, parsed
<1>6. /\ DOMAIN after = 1 .. n
      /\ \A g \in DOMAIN groups : SameGroup(after[g], groups[g])
      /\ after[n].name = file.name /\ after[n].id = id /\ after[n].files = <<file>>
      /\ \A g \in DOMAIN groups : after[g].refs = addMapping(groups[g].refs, file.name, id)
  BY <1>1, Zenon DEF Opened
<1>7. /\ all \in Seq(ToSet(all)) /\ DOMAIN all = 1 .. n
      /\ \A g \in 1 .. n : all[g].name = after[g].name /\ all[g].id = after[g].id
      /\ after[n].refs = Loads(NoRefs, file.libs, all)
  BY <1>1, Zenon DEF Opened
<1> HIDE DEF after, all, groups, n
<1>8. \A g, h \in DOMAIN after : after[g].name = after[h].name => g = h
  <2>1. \A g, h \in DOMAIN groups : groups[g].name = groups[h].name => g = h
    BY DEF RefsInv, groups
  <2>2. \A g \in DOMAIN groups : after[g].name = groups[g].name
    BY <1>6 DEF SameGroup
  <2> QED BY <1>3, <1>5, <1>6, <2>1, <2>2
<1>9. ASSUME NEW g \in DOMAIN groups PROVE RefsOK(after[g], after)
  <2> DEFINE old == groups[g].refs
             refs == after[g].refs
  <2>1. RefsOK(groups[g], groups)
    BY DEF RefsInv, groups
  <2>2. /\ IsRefs(old) /\ \A h \in DOMAIN groups : Leads(old, groups[h])
        /\ refs = addMapping(old, file.name, id)
    BY <1>6, <2>1 DEF RefsOK
  <2> HIDE DEF old, refs
  <2>3. /\ IsRefs(refs) /\ refs.entries = old.entries
        /\ \A group : group.name = file.name /\ group.id = id => Leads(refs, group)
        /\ \A group : group.name # file.name /\ Leads(old, group) => Leads(refs, group)
    BY <2>2, MappingAdded
  <2>4. ASSUME NEW h \in DOMAIN after PROVE Leads(refs, after[h])
    <3>1. CASE h = n
      BY <1>6, <2>3, <3>1
    <3>2. CASE h \in DOMAIN groups
      <4>1. Leads(refs, groups[h])
        BY <1>5, <2>2, <2>3, <3>2
      <4>2. after[h].name = groups[h].name /\ after[h].id = groups[h].id
        BY <1>6, <3>2 DEF SameGroup
      <4> QED BY <4>1, <4>2, LeadsSame
    <3> QED BY <1>3, <1>6, <3>1, <3>2
  <2>5. after[g].files[1].libs # << >> => refs.entries = after[g].files[1].libs
    BY <1>6, <2>1, <2>3 DEF RefsOK, SameGroup, old
  <2> QED BY <2>3, <2>4, <2>5 DEF RefsOK, refs
<1>10. RefsOK(after[n], after)
  <2> DEFINE libs == file.libs
             refs == after[n].refs
  <2>1. \A x, y \in DOMAIN libs : libs[x] = libs[y] => x = y
    BY DEF WellFormed
  <2>2. \A g, h \in DOMAIN all : all[g].name = all[h].name => g = h
    BY <1>6, <1>7, <1>8
  <2>3. refs = Loads(NoRefs, libs, all)
    BY <1>7
  <2> HIDE DEF libs, refs
  <2>4. /\ IsRefs(refs) /\ \A h \in DOMAIN all : Leads(refs, all[h])
        /\ NoRefs.entries = << >> /\ libs # << >> => refs.entries = libs
    <3>1. Led(refs, NoRefs, libs, all)
      BY <1>7, <2>1, <2>2, <2>3, LoadsLeads, NoRefsOK
    <3> QED BY <3>1 DEF Led
  <2>5. NoRefs.entries = << >>
    BY DEF NoRefs
  <2>6. \A h \in DOMAIN after : Leads(refs, after[h])
    BY <1>6, <1>7, <2>4, LeadsSame
  <2>7. after[n].files[1].libs = libs
    BY <1>6 DEF libs
  <2> QED BY <2>4, <2>5, <2>6, <2>7 DEF RefsOK, refs
<1>11. \A g \in DOMAIN after : RefsOK(after[g], after)
  BY <1>3, <1>6, <1>9, <1>10
<1> QED BY <1>4, <1>8, <1>11 DEF RefsInv

LEMMA OverlaidRefs ==
  ASSUME WellFormed(File), TableInv, RefsInv, NEW file \in File,
         NEW g \in DOMAIN table.groups, NEW maps, maps # {},
         table' = parsePackage(table, file, maps, table.groups[g].id)
  PROVE  RefsInv'
<1> DEFINE groups == table.groups
           old == groups[g]
           parsed == table'
           after == parsed.groups
           new == after[g]
<1>1. Overlaid(table, g, file, maps, parsed)
  <2>1. parsed = parsePackage(table, file, maps, table.groups[g].id)
    OBVIOUS
  <2> HIDE DEF parsed
  <2> QED BY <2>1, AddedOverlaid
<1> HIDE DEF parsed
<1>2. /\ DOMAIN after = DOMAIN groups
      /\ \A h \in DOMAIN groups : h # g => after[h] = groups[h]
      /\ new.name = old.name /\ new.id = old.id /\ new.files = Append(old.files, file)
      /\ new.refs = Loads(old.refs, file.libs, groups)
  BY <1>1, Zenon DEF Overlaid
<1>3. after = table'.groups
  BY DEF parsed
<1>4. /\ \A h, i \in DOMAIN groups : groups[h].name = groups[i].name => h = i
      /\ \A h \in DOMAIN groups : RefsOK(groups[h], groups)
      /\ groups \in Seq(ToSet(groups)) /\ old.files \in Seq(File) /\ Len(old.files) > 0
  BY DEF RefsInv, TableInv, GroupOK
<1>5. \A h \in DOMAIN groups : after[h].name = groups[h].name /\ after[h].id = groups[h].id
  BY <1>2
<1>6. new.files[1] = old.files[1]
  BY <1>2, <1>4
<1> HIDE DEF after, groups
<1>7. \A h, i \in DOMAIN after : after[h].name = after[i].name => h = i
  BY <1>2, <1>4, <1>5
<1>8. RefsOK(new, after)
  <2> DEFINE were == old.refs
             libs == file.libs
             refs == new.refs
  <2>1. RefsOK(old, groups)
    BY <1>4 DEF groups
  <2>2. IsRefs(were) /\ \A h \in DOMAIN groups : Leads(were, groups[h])
    BY <2>1 DEF RefsOK
  <2>3. \A x, y \in DOMAIN libs : libs[x] = libs[y] => x = y
    BY DEF WellFormed
  <2>4. refs = Loads(were, libs, groups)
    BY <1>2
  <2> HIDE DEF were, libs, refs
  <2>5. /\ IsRefs(refs) /\ \A h \in DOMAIN groups : Leads(refs, groups[h])
        /\ were.entries # << >> => refs = were
    <3>1. Led(refs, were, libs, groups)
      BY <1>4, <2>2, <2>3, <2>4, LoadsLeads
    <3> QED BY <3>1 DEF Led
  <2>6. \A h \in DOMAIN after : Leads(refs, after[h])
    BY <1>2, <1>5, <2>5, LeadsSame
  <2>7. new.files[1].libs # << >> => refs.entries = new.files[1].libs
    BY <1>6, <2>1, <2>5 DEF RefsOK, were
  <2> QED BY <2>5, <2>6, <2>7 DEF RefsOK, refs
<1>9. ASSUME NEW h \in DOMAIN after, h # g PROVE RefsOK(after[h], after)
  <2>1. RefsOK(groups[h], groups) /\ after[h] = groups[h]
    BY <1>2, <1>4, <1>9
  <2>2. \A i \in DOMAIN after : Leads(after[h].refs, after[i])
    BY <1>2, <1>5, <2>1, LeadsSame DEF RefsOK
  <2> QED BY <2>1, <2>2 DEF RefsOK
<1>10. \A h \in DOMAIN after : RefsOK(after[h], after)
  BY <1>8, <1>9
<1> QED BY <1>3, <1>7, <1>10 DEF RefsInv

LEMMA TableNextRefs ==
  ASSUME WellFormed(File)
  PROVE  TableInv /\ RefsInv /\ [TableNext]_tableVars => RefsInv'
<1> SUFFICES ASSUME TableInv, RefsInv, [TableNext]_tableVars PROVE RefsInv'
  OBVIOUS
<1>1. CASE table' = table
  BY <1>1 DEF RefsInv
<1>2. ASSUME NEW file \in File, add(file) PROVE RefsInv'
  BY <1>2, AddedRefs DEF add
<1>3. ASSUME NEW file \in File, addOverlay(file) PROVE RefsInv'
  <2>1. PICK g \in TargetGroup(file) :
          /\ createIdmap(table.groups[g].files[1], file) # {}
          /\ table' = parsePackage(table, file, createIdmap(table.groups[g].files[1], file),
                                   IdmapTarget(table.groups[g].files[1]))
    BY <1>3, Zenon DEF addOverlay
  <2>1a. IdmapTarget(table.groups[g].files[1]) = table.groups[g].id
    BY IdmapTargetIs
  <2>2. g \in DOMAIN table.groups
    BY DEF TargetGroup
  <2> QED BY <2>1, <2>1a, <2>2, OverlaidRefs
<1>4. ASSUME NEW file \in File, addShared(file) PROVE RefsInv'
  <2>1. /\ loaded = <<>> /\ file.target = NoName
        /\ table'.groups = parsePackage(table, file, {}, 0).groups
    BY <1>4 DEF addShared
  <2>2. ~ IsLoaded(file)
    BY <2>1 DEF IsLoaded, ToSet
  <2> QED BY <2>1, <2>2, AddedRefs
<1>5. ASSUME NEW p, setParameters(p) PROVE table' = table
  BY <1>5 DEF setParameters
<1>6. CASE TableNext
  BY <1>1, <1>2, <1>3, <1>4, <1>5, <1>6 DEF TableNext, AddPackage
<1>7. CASE UNCHANGED tableVars
  BY <1>1, <1>7 DEF tableVars
<1> QED BY <1>6, <1>7

LEMMA RefsInvLibraries ==
  ASSUME WellFormed(File), TableInv, RefsInv
  PROVE  LibrariesFound
<1> SUFFICES ASSUME NEW g \in ToSet(table.groups), NEW h \in ToSet(table.groups),
                    h.name \in DOMAIN g.files[1].libs,
                    NEW t, NEW e
             PROVE  lookupResourceId(g, <<g.files[1].libs[h.name], t, e>>) = {<<h.id, t, e>>}
  BY DEF LibrariesFound
<1>1. PICK n \in DOMAIN table.groups, m \in DOMAIN table.groups :
        g = table.groups[n] /\ h = table.groups[m]
  BY DEF ToSet
<1> DEFINE main == g.files[1]
           p == main.libs[h.name]
           id == <<p, t, e>>
<1>2. main \in File
  <2>1. GroupOK(g, table.nextPackageId, ToSet(loaded))
    BY <1>1 DEF TableInv
  <2> QED BY <2>1 DEF GroupOK
<1>3. p \in LibraryIDs
  BY <1>2 DEF WellFormed
<1>4. p \in DOMAIN g.refs.ids /\ g.refs.ids[p] = h.id
  <2>1. RefsOK(g, table.groups)
    BY <1>1 DEF RefsInv
  <2>2. main.libs # << >>
    OBVIOUS
  <2>3. g.refs.entries = main.libs /\ Leads(g.refs, h)
    BY <1>1, <2>1, <2>2 DEF RefsOK
  <2> QED BY <2>3 DEF Leads
<1>5. p # APP_PACKAGE_ID /\ p # 0
  BY <1>3 DEF LibraryIDs, APP_PACKAGE_ID
<1>6. id[1] = p /\ id[2] = t /\ id[3] = e
  OBVIOUS
<1> HIDE DEF id, p, main
<1>7. lookupResourceId(g, id) = {<<h.id, t, e>>}
  BY <1>4, <1>5, <1>6 DEF lookupResourceId
<1> QED BY <1>7 DEF id, p, main

\* In whatever order packages are added, an ID that one of them was compiled with for
\* something in a library is translated to the ID that it has (DynamicRefTable).
THEOREM LibrariesAreFound ==
  ASSUME WellFormed(File)
  PROVE  TableSpec => []LibrariesFound
<1>1. TableInit => TableInv /\ RefsInv
  BY TableInitInv, RefsInitInv
<1>2. TableInv /\ RefsInv /\ [TableNext]_tableVars => (TableInv /\ RefsInv)'
  BY TableNextInv, TableNextRefs
<1>3. TableInv /\ RefsInv => LibrariesFound
  BY RefsInvLibraries
<1> QED BY <1>1, <1>2, <1>3, PTL DEF TableSpec
=============================================================================
