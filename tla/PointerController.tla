------------------------- MODULE PointerController -------------------------
(***************************************************************************)
(* PointerController (libs/input/PointerController.cpp): the pointer, its    *)
(* fading, and the spots of the fingers.  Every call and every message of    *)
(* the looper is atomic under mLock.                                         *)
(*                                                                          *)
(* Coordinates are in half pixels, so that the half pixel that a rotation    *)
(* adds and takes off is an integer.  Alpha is in steps of which a frame     *)
(* takes one or more: 0 transparent, Opaque opaque.  A sprite is what the    *)
(* controller has told it to show.                                           *)
(***************************************************************************)
EXTENDS Integers, Sequences, FiniteSets, SequencesExt, FiniteSetsExt

CONSTANTS
  MAX_POINTER_ID,   \* the ids of fingers are 1 to this one
  SpotSprite,       \* the sprites that createSprite may return
  MAX_SPOTS, MAX_RECYCLED_SPRITES,
  Viewport,         \* the <<width, height, orientation>> of the display
  Place,            \* the places and distances of pointer calls
  CallBudget        \* bounds: the mixtures [moves, touches, fades] of calls

ASSUME PointerBounds ==
  /\ MAX_POINTER_ID \in Nat
  /\ MAX_SPOTS \in Nat \ {0} /\ MAX_RECYCLED_SPRITES \in Nat
  /\ IsFiniteSet(SpotSprite) /\ Cardinality(SpotSprite) >= MAX_SPOTS
  /\ Viewport \subseteq Int \X Int \X {0, 90, 180, 270}
  /\ Place \subseteq Int

Opaque == 2
Finger == 1 .. MAX_POINTER_ID
INVALID_ID == 0   \* no finger has it
Presentation == {"pointer", "spot", "stylus_hover"}

VARIABLES
  display,        \* displayWidth, displayHeight, displayOrientation
  pointer,        \* the pointer fields of mLocked
  pointerSprite,  \* what the sprite of the pointer was told
  spots,          \* Vector<Spot*>
  recycledSprites,
  spotShows,      \* SpotSprite -> what the sprite shows
  pointerTimers,  \* the messages the looper holds: "animate", "inactivity"
  pointerBudget   \* remaining calls

pointerVars == <<display, pointer, pointerSprite, spots, recycledSprites,
                 spotShows, pointerTimers, pointerBudget>>

(* icon: what its icon was copied from.                                     *)
PointerInit ==
  /\ display = [width |-> -1, height |-> -1, orientation |-> 0]
  /\ pointer = [x |-> 0, y |-> 0, alpha |-> 0, direction |-> 0,
                presentation |-> "pointer", presentationChanged |-> FALSE,
                icon |-> 0, hover |-> 0, iconChanged |-> FALSE]
  /\ pointerSprite = [x |-> 0, y |-> 0, visible |-> FALSE, alpha |-> Opaque,
                      icon |-> <<"pointer", 0>>]
  /\ spots = <<>>
  /\ recycledSprites = <<>>
  /\ spotShows = [s \in SpotSprite |-> [icon |-> "none", alpha |-> Opaque]]
  /\ pointerTimers = {}
  /\ pointerBudget \in CallBudget

animationPending == "animate" \in pointerTimers
Spend(kind) == /\ pointerBudget[kind] > 0
               /\ pointerBudget' = [pointerBudget EXCEPT ![kind] = @ - 1]

(* getBoundsLocked, in half pixels.                                         *)
HasBounds(d) == d.width > 0 /\ d.height > 0
Rotated(o) == o \in {90, 270}
MaxX(d) == 2 * (IF Rotated(d.orientation) THEN d.height - 1 ELSE d.width - 1)
MaxY(d) == 2 * (IF Rotated(d.orientation) THEN d.width - 1 ELSE d.height - 1)
Clamp(v, max) == IF v <= 0 THEN 0 ELSE IF v >= max THEN max ELSE v

(* updatePointerLocked, for pointer state p: the flags are cleared and the   *)
(* sprite told everything that has changed.                                  *)
IconOf(p) ==
  CASE p.presentation = "pointer" -> <<"pointer", p.icon>>
    [] p.presentation = "stylus_hover" -> <<"hover", p.hover>>
    [] OTHER -> <<"anchor", 0>>
updatePointerLocked(p) ==
  /\ pointer' = [p EXCEPT !.iconChanged = FALSE, !.presentationChanged = FALSE]
  /\ pointerSprite' =
       [x |-> p.x, y |-> p.y,
        alpha |-> IF p.alpha > 0 THEN p.alpha ELSE pointerSprite.alpha,
        visible |-> p.alpha > 0,
        icon |-> IF p.iconChanged \/ p.presentationChanged THEN IconOf(p)
                 ELSE pointerSprite.icon]

unchangedSpots == UNCHANGED <<spots, recycledSprites, spotShows>>

-----------------------------------------------------------------------------
(* Pointer calls.                                                           *)

setPositionLocked(x, y) ==
  /\ HasBounds(display)
  /\ updatePointerLocked([pointer EXCEPT !.x = Clamp(x, MaxX(display)),
                                         !.y = Clamp(y, MaxY(display))])
  /\ UNCHANGED <<display, pointerTimers>> /\ unchangedSpots
setPosition(x, y) == Spend("moves") /\ setPositionLocked(x, y)
move(dx, dy) == /\ Spend("moves") /\ <<dx, dy>> # <<0, 0>>
                /\ setPositionLocked(pointer.x + dx, pointer.y + dy)

(* startAnimationLocked and removeInactivityTimeoutLocked on the messages.   *)
fadeGradually ==
  /\ pointer' = [pointer EXCEPT !.direction = -1]
  /\ pointerTimers' = {"animate"}
  /\ UNCHANGED <<display, pointerSprite>> /\ unchangedSpots
fade(immediate) ==
  /\ Spend("fades")
  /\ IF immediate
     THEN /\ updatePointerLocked([pointer EXCEPT !.direction = 0, !.alpha = 0])
          /\ pointerTimers' = pointerTimers \ {"inactivity"}
          /\ UNCHANGED display /\ unchangedSpots
     ELSE fadeGradually
unfade(immediate) ==
  /\ Spend("fades")
  /\ IF immediate
     THEN /\ updatePointerLocked([pointer EXCEPT !.direction = 0, !.alpha = Opaque])
          /\ pointerTimers' = pointerTimers \cup {"inactivity"}
     ELSE /\ pointer' = [pointer EXCEPT !.direction = 1]
          /\ pointerTimers' = {"animate", "inactivity"}
          /\ UNCHANGED pointerSprite
  /\ UNCHANGED display /\ unchangedSpots
setInactivityTimeout ==      \* to the other value: the timer starts anew
  /\ Spend("fades")
  /\ pointerTimers' = pointerTimers \cup {"inactivity"}
  /\ UNCHANGED <<display, pointer, pointerSprite>> /\ unchangedSpots
setPointerIcon ==
  /\ Spend("fades")
  /\ updatePointerLocked([pointer EXCEPT !.icon = 1, !.iconChanged = TRUE])
  /\ UNCHANGED <<display, pointerTimers>> /\ unchangedSpots
setHoverIcon ==
  /\ Spend("fades")
  /\ updatePointerLocked([pointer EXCEPT !.hover = 1, !.iconChanged = TRUE])
  /\ UNCHANGED <<display, pointerTimers>> /\ unchangedSpots

-----------------------------------------------------------------------------
(* Spots.  A spot without finger (INVALID_ID) is fading out.                *)

Fading(s) == s.id = INVALID_ID
FadeOut(all, keep) ==
  [i \in DOMAIN all |-> IF all[i].id \in keep THEN all[i]
                        ELSE [all[i] EXCEPT !.id = INVALID_ID]]
(* fadeOutAndReleaseSpotLocked starts the animation for every spot that it   *)
(* changes.                                                                  *)
(* Mutant: it marks the spots and forgets the animation.                     *)
Bug_FadeUnanimated(all, keep) == pointerTimers
TimersAfter(all, keep) ==
  IF \E i \in DOMAIN all : ~Fading(all[i]) /\ all[i].id \notin keep
  THEN pointerTimers \cup {"animate"} ELSE pointerTimers

setPresentation(p) ==
  LET keep == IF p = "spot" THEN Finger ELSE {} IN
  /\ Spend("fades")
  /\ pointer.presentation # p
  /\ spots' = FadeOut(spots, keep)
  /\ pointerTimers' = TimersAfter(spots, keep)
  /\ updatePointerLocked([pointer EXCEPT !.presentation = p,
                                         !.presentationChanged = TRUE])
  /\ UNCHANGED <<display, recycledSprites, spotShows>>

clearSpots ==
  /\ Spend("touches")
  /\ spots' = FadeOut(spots, {})
  /\ pointerTimers' = TimersAfter(spots, {})
  /\ UNCHANGED <<display, pointer, pointerSprite, recycledSprites, spotShows>>

(* releaseSpotLocked on the state that the loops of setSpots and doAnimate   *)
(* pass along: [spots, recycled, shows].                                     *)
releaseSpotLocked(t, spot) ==
  [t EXCEPT !.shows[spot.sprite].icon = "none",
            !.recycled = IF Len(@) < MAX_RECYCLED_SPRITES
                         THEN Append(@, spot.sprite) ELSE @]

(* Mutant: the oldest spot goes even where another one is fading.            *)
Bug_EvictOldest(t) ==
  IF Len(t.spots) < MAX_SPOTS THEN t
  ELSE releaseSpotLocked([t EXCEPT !.spots = Tail(@)], Head(t.spots))

(* One round of the loop of createAndAddSpotLocked: the first fading spot    *)
(* goes, else the oldest.                                                    *)
MakeRoom(t) ==
  LET fading == {i \in DOMAIN t.spots : Fading(t.spots[i])}
      i == IF fading = {} THEN 1 ELSE Min(fading)
  IN IF Len(t.spots) < MAX_SPOTS THEN t
     ELSE releaseSpotLocked([t EXCEPT !.spots = RemoveAt(@, i)], t.spots[i])
createAndAddSpotLocked(t0, id) ==
  LET t == MakeRoom(t0)     \* there never are more than MAX_SPOTS
      used == {t.spots[i].sprite : i \in DOMAIN t.spots}
      s == IF t.recycled # <<>> THEN Last(t.recycled)
           ELSE CHOOSE free \in SpotSprite : free \notin used
  IN [spots |-> Append(t.spots, [id |-> id, sprite |-> s, alpha |-> Opaque,
                                 lastIcon |-> "none"]),
      recycled |-> IF t.recycled # <<>> THEN Front(t.recycled) ELSE <<>>,
      shows |-> IF t.recycled # <<>> THEN t.shows
                ELSE [t.shows EXCEPT ![s] = [icon |-> "none", alpha |-> Opaque]]]

(* One finger of the first loop of setSpots: Spot::updateSprite sets the     *)
(* icon only if it differs from the last one.                                *)
AddOrMove(t0, id, icon) ==
  LET known == \E i \in DOMAIN t0.spots : t0.spots[i].id = id
      t == IF known THEN t0 ELSE createAndAddSpotLocked(t0, id)
      i == CHOOSE j \in DOMAIN t.spots : t.spots[j].id = id
      spot == t.spots[i]
      s == spot.sprite
      shown == IF icon # spot.lastIcon THEN icon ELSE t.shows[s].icon
  IN [t EXCEPT !.spots = [@ EXCEPT ![i].lastIcon = icon],
               !.shows = [@ EXCEPT ![s] = [icon |-> shown, alpha |-> spot.alpha]]]

(* The first loop of setSpots, in the order of the ids, from state t: icon   *)
(* gives each finger the icon of its pressure.                               *)
AddOrMoveAll(t, ids, icon) ==
  LET added[id \in 0 .. MAX_POINTER_ID] ==
        IF id = 0 THEN t
        ELSE IF id \in ids THEN AddOrMove(added[id - 1], id, icon[id])
        ELSE added[id - 1]
  IN added[MAX_POINTER_ID]
setSpots(ids, icon) ==
  LET t == AddOrMoveAll([spots |-> spots, recycled |-> recycledSprites,
                         shows |-> spotShows], ids, icon)
  IN /\ Spend("touches")
     /\ spots' = FadeOut(t.spots, ids)
     /\ pointerTimers' = TimersAfter(t.spots, ids)
     /\ recycledSprites' = t.recycled
     /\ spotShows' = t.shows
     /\ UNCHANGED <<display, pointer, pointerSprite>>

(* setDisplayViewport: width and height are those of the unrotated display;  *)
(* a new size centres the pointer, in the old orientation, and a new         *)
(* orientation turns it about the centre of the screen.                      *)
(* Mutant: a quarter turn measures from the wrong side.                      *)
Bug_TurnByHeight(q, d, from, to) ==
  IF to = 90 THEN <<q[2], 2 * d.height - q[1]>> ELSE q
Turn(q, d, from, to) ==
  LET w == 2 * d.width
      h == 2 * d.height
      natural == CASE from = 90 -> <<w - q[2], q[1]>>
                   [] from = 180 -> <<w - q[1], h - q[2]>>
                   [] from = 270 -> <<q[2], h - q[1]>>
                   [] OTHER -> q
  IN CASE to = 90 -> <<natural[2], w - natural[1]>>
       [] to = 180 -> <<w - natural[1], h - natural[2]>>
       [] to = 270 -> <<h - natural[2], natural[1]>>
       [] OTHER -> natural
setDisplayViewport(v) ==
  LET o == v[3]
      d == [width |-> IF Rotated(o) THEN v[2] ELSE v[1],
            height |-> IF Rotated(o) THEN v[1] ELSE v[2],
            orientation |-> display.orientation]
      resized == d # display
      q == IF ~resized THEN <<pointer.x, pointer.y>>
           ELSE IF HasBounds(d) THEN <<MaxX(d) \div 2, MaxY(d) \div 2>>
           ELSE <<0, 0>>
      r == Turn(<<q[1] + 1, q[2] + 1>>, d, display.orientation, o)
      p == IF o = display.orientation THEN q ELSE <<r[1] - 1, r[2] - 1>>
      keep == IF resized THEN {} ELSE Finger
  IN /\ Spend("moves")
     /\ display' = [d EXCEPT !.orientation = o]
     /\ spots' = FadeOut(spots, keep)
     /\ pointerTimers' = TimersAfter(spots, keep)
     /\ updatePointerLocked([pointer EXCEPT !.x = p[1], !.y = p[2]])
     /\ UNCHANGED <<recycledSprites, spotShows>>

-----------------------------------------------------------------------------
(* Messages of the looper.                                                  *)

(* One frame of the pointer takes step off or puts it on its alpha; at the   *)
(* end the direction is 0.                                                   *)
Faded(p, step) ==
  LET a == p.alpha + p.direction * step
      end == (p.direction < 0 /\ a <= 0) \/ (p.direction > 0 /\ a >= Opaque)
  IN [p EXCEPT !.alpha = Max({0, Min({a, Opaque})}),
               !.direction = IF end THEN 0 ELSE @]
(* One frame of one spot: t.spots collects the spots that stay.              *)
FadeSpot(t, spot, step) ==
  LET a == spot.alpha - step IN
  IF ~Fading(spot) THEN [t EXCEPT !.spots = Append(@, spot)]
  ELSE IF a <= 0 THEN releaseSpotLocked(t, spot)
  ELSE [t EXCEPT !.spots = Append(@, [spot EXCEPT !.alpha = a]),
                 !.shows[spot.sprite].alpha = a]
(* The loop of doAnimate over the spots of list, from state t.               *)
FadeSpots(t, list, step) ==
  LET faded[n \in 0 .. Len(list)] ==
        IF n = 0 THEN t ELSE FadeSpot(faded[n - 1], list[n], step)
  IN faded[Len(list)]
(* A frame may be late: it takes one step or all of them.                    *)
doAnimate ==
  /\ animationPending
  /\ \E step \in 1 .. Opaque :
       LET p == Faded(pointer, step)
           t == FadeSpots([spots |-> <<>>, recycled |-> recycledSprites,
                           shows |-> spotShows], spots, step)
           keepAnimating == p.direction # 0 \/ \E i \in DOMAIN t.spots : Fading(t.spots[i])
       IN /\ IF pointer.direction # 0 THEN updatePointerLocked(p)
             ELSE UNCHANGED <<pointer, pointerSprite>>
          /\ spots' = t.spots
          /\ recycledSprites' = t.recycled
          /\ spotShows' = t.shows
          /\ pointerTimers' = IF keepAnimating THEN pointerTimers
                              ELSE pointerTimers \ {"animate"}
  /\ UNCHANGED <<display, pointerBudget>>

doInactivityTimeout ==
  /\ "inactivity" \in pointerTimers
  /\ fadeGradually
  /\ UNCHANGED pointerBudget

PointerCalls ==
  \/ \E x, y \in Place : setPosition(x, y) \/ move(x, y)
  \/ \E v \in Viewport : setDisplayViewport(v)
  \/ \E now \in BOOLEAN : fade(now) \/ unfade(now)
  \/ setInactivityTimeout \/ setPointerIcon \/ setHoverIcon
  \/ \E p \in Presentation : setPresentation(p)
  \/ clearSpots
  \/ \E ids \in SUBSET Finger : \E icon \in [ids -> {"touch", "hover"}] :
       setSpots(ids, icon)
PointerNext == PointerCalls \/ doAnimate \/ doInactivityTimeout

(* The looper delivers what it holds.                                        *)
PointerFairness == WF_pointerVars(doAnimate) /\ WF_pointerVars(doInactivityTimeout)
PointerSpec == PointerInit /\ [][PointerNext]_pointerVars /\ PointerFairness

-----------------------------------------------------------------------------
(* The pointer stays on the screen through any sequence of moves, resizings  *)
(* and rotations, and its sprite shows it where it is.                       *)
PointerOnScreen ==
  /\ HasBounds(display) =>
       /\ pointer.x \in 0 .. MaxX(display)
       /\ pointer.y \in 0 .. MaxY(display)
  /\ pointerSprite.x = pointer.x /\ pointerSprite.y = pointer.y
  /\ pointerSprite.visible = (pointer.alpha > 0)
  /\ pointerSprite.icon = IconOf(pointer)

(* The fingers that have a spot of the list all.                             *)
FingersOf(all) == {all[i].id : i \in DOMAIN all} \ {INVALID_ID}

(* The next call of setSpots gives a spot to every finger, those that are    *)
(* fading out make room, unless the fingers of the call and the others that  *)
(* have spots are more than MAX_SPOTS together: then the oldest spot is      *)
(* evicted, which may be that of a finger that is down.                      *)
FingersGetSpots ==
  \A ids \in SUBSET Finger :
    Cardinality(ids \cup FingersOf(spots)) <= MAX_SPOTS =>
      ids \subseteq FingersOf(AddOrMoveAll([spots |-> spots, recycled |-> recycledSprites,
                                           shows |-> spotShows],
                                          ids, [id \in ids |-> "touch"]).spots)

(* Sprites go from spot to pool and back without being shared, and a sprite  *)
(* shows something exactly while a spot owns it: no spot stays on the screen *)
(* after it was released.  No finger has two spots, and within MAX_SPOTS     *)
(* none of a call is left without one.                                       *)
NoGhostSpots ==
  LET owned == [i \in DOMAIN spots |-> spots[i].sprite] IN
  /\ IsInjective(owned \o recycledSprites)
  /\ Len(spots) <= MAX_SPOTS
  /\ \A s \in SpotSprite : (spotShows[s].icon # "none") = (s \in ToSet(owned))
  /\ \A i, j \in DOMAIN spots : spots[i].id = spots[j].id => i = j \/ Fading(spots[i])
  /\ FingersGetSpots

(* Left alone, the pointer and the spots without finger fade away, and the   *)
(* animation stops.                                                          *)
FadesAway ==
  <>[](/\ pointer.alpha = 0 /\ pointer.direction = 0
       /\ \A i \in DOMAIN spots : ~Fading(spots[i])
       /\ pointerTimers = {})
=============================================================================
