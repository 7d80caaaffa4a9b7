------------------------- MODULE MC_InputResources -------------------------
(***************************************************************************)
(* Small instances of the sprites and the pointer of libs/input and of the   *)
(* resource table of libs/androidfw for TLC.  The parts do not interact, and *)
(* one run checks them all: the variable part says which of them moves in a  *)
(* behaviour, and the others stay as they are in the beginning.              *)
(***************************************************************************)
EXTENDS SpriteController, PointerController, ResTableConfig, ResourceBags, TLC

VARIABLE part

nativeVars == <<part, spriteVars, pointerVars, configVars, bagVars>>

-----------------------------------------------------------------------------
(* Displays of every orientation, one that is wider, and one without size.   *)
Displays == {<<2, 3, 0>>, <<3, 2, 90>>, <<2, 3, 180>>, <<3, 2, 270>>, <<4, 2, 0>>, <<0, 0, 90>>}
Mix(m, t, f) == [moves |-> m, touches |-> t, fades |-> f]
NoCalls == Mix(0, 0, 0)
OnlyNoCalls == {NoCalls}
MixedCalls == {NoCalls, Mix(3, 0, 1), Mix(1, 2, 1), Mix(0, 3, 1), Mix(1, 0, 3)}

-----------------------------------------------------------------------------
(* Every pair of qualifiers that follow each other, and triples of values of *)
(* those with a rule of their own.                                           *)
Values == [q \in Qualifier |->
  CASE q = "density" -> {0, 120, 160, 240, 480, DENSITY_ANY}
    [] q \in {"screenLayoutSize", "keysHidden"} -> 0 .. 3
    [] OTHER -> 0 .. 2]
Nothing == <<{}, 0>>
OnlyNothing == {Nothing}
Ruled == {"layoutDir", "screenLayoutSize", "density", "keysHidden", "navHidden", "mcc",
          "localeScript"}
FewCandidates ==
  {Nothing, <<{"screenWidthDp", "screenHeightDp"}, 3>>}
    \cup {<<{Qualifiers[i], Qualifiers[i + 1]}, 2>> : i \in 1 .. Len(Qualifiers) - 1}
    \cup {<<{q}, 3>> : q \in Ruled}

-----------------------------------------------------------------------------
(* The framework, two libraries of which one refers to the other, an         *)
(* application that refers to both and inherits from the framework, and an   *)
(* overlay of the application.                                               *)
T(name, entries) == [name |-> name, entries |-> entries]
E(name, defs) == [name |-> name, defs |-> defs]
Default(v) == [c \in {"any"} |-> v]
Datum(x) == [kind |-> "datum", data |-> x]
Dynamic(id) == [kind |-> "dynamic", data |-> id]
Style(parent, attrs) == [kind |-> "bag", parent |-> parent, attrs |-> attrs]
Attrs(names) == T("attr", [i \in DOMAIN names |-> E(names[i], Default(Datum("attr")))])
Package(name, id, libs, target, types) ==
  [name |-> name, id |-> id, libs |-> libs, target |-> target, types |-> types]

Framework == Package("android", 1, << >>, NoName,
  <<Attrs(<<"a1", "a2">>),
    T("style", <<E("Base", Default(Style(NoID, <<<< <<1, 1, 1>>, Datum("base")>>,
                                                 << <<1, 1, 2>>, Datum("base")>> >>)))>>)>>)
Library == Package("lib", 0, << >>, NoName,
  <<Attrs(<<"l1">>),
    T("string", <<E("s", Default(Datum("s"))), E("s2", Default(Dynamic(<<0, 2, 1>>)))>>)>>)
Library2 == Package("lib2", 0, [n \in {"lib"} |-> 2], NoName,
  <<T("string", <<E("r", Default(Dynamic(<<2, 2, 2>>)))>>)>>)
App == Package("app", 127, [n \in {"lib", "lib2"} |-> IF n = "lib" THEN 2 ELSE 3], NoName,
  <<Attrs(<<"p1">>),
    T("style",
      <<E("S1", Default(Style(<<1, 2, 1>>, << << <<1, 1, 2>>, Datum("s1")>>,
                                              << <<2, 1, 1>>, Dynamic(<<3, 1, 1>>)>> >>))),
        E("S2", [c \in Config |-> Style(<<127, 2, 1>>, << << <<2, 1, 1>>, Datum("s2")>>,
                                                          << <<127, 1, 1>>, Datum(c)>> >>)])>>),
    T("string",
      <<E("t", Default(Datum("t"))), E("u", Default(Dynamic(<<3, 1, 1>>))),
        E("v", Default(Datum("v"))), E("w", [c \in Config |-> Datum(c)]),
        E("x", Default(Datum("x")))>>)>>)
Overlay == Package("over", 127, << >>, "app",
  <<T("string", <<E("w", Default(Datum("ow"))), E("u", [c \in Config |-> Datum("ou")])>>)>>)
(* An overlay with a type that the application has not.                      *)
OwnTypeOverlay == Package("over2", 127, << >>, "app",
  <<T("string", <<E("u", Default(Datum("ou")))>>),
    T("dimen", <<E("d", [c \in Config |-> Datum("d")])>>)>>)

Files == {Framework, Library, Library2, App, Overlay}
OverlaidFiles == {App, OwnTypeOverlay}
ASSUME WellFormed(Files)

-----------------------------------------------------------------------------
NativeInit ==
  /\ ConfigInit
  /\ part \in {"sprites", "pointer", "config", "table"}
  /\ (part = "config") = (candidates # <<>>)
  /\ PointerInit /\ (part = "pointer") = (pointerBudget # NoCalls)
  /\ SpriteInit /\ BagsInit

Sprites(A) ==
  part = "sprites" /\ A /\ UNCHANGED <<part, pointerVars, configVars, bagVars>>
Pointer(A) ==
  part = "pointer" /\ A /\ UNCHANGED <<part, spriteVars, configVars, bagVars>>
Choice(A) ==
  part = "config" /\ A /\ UNCHANGED <<part, spriteVars, pointerVars, bagVars>>
Table(A) ==
  part = "table" /\ A /\ UNCHANGED <<part, spriteVars, pointerVars, configVars>>

NativeNext ==
  \/ Sprites(SpriteNext)
  \/ Pointer(PointerNext)
  \/ Choice(ScanEntry)
  \/ Table(BagsNext)

(* The fairness of the parts.                                                *)
NativeFairness ==
  /\ WF_nativeVars(Sprites(SpriteLooper)) /\ WF_nativeVars(Sprites(closeTransaction))
  /\ WF_nativeVars(Pointer(doAnimate)) /\ WF_nativeVars(Pointer(doInactivityTimeout))
NativeSpec == NativeInit /\ [][NativeNext]_nativeVars /\ NativeFairness
=============================================================================
