-------------------------- MODULE SpriteController --------------------------
(***************************************************************************)
(* SpriteController (libs/input/SpriteController.cpp): client threads       *)
(* change the state of sprites under mLock; the looper thread copies the     *)
(* states of the invalidated sprites under the lock, works on their surfaces *)
(* without it, and writes the new surface properties back under it.          *)
(*                                                                          *)
(* An icon is the size of its bitmap (0: no valid icon); icons of different  *)
(* sizes have different hot spots, the first one that of a new sprite.       *)
(* Position, layer and matrix are members of Attribute: each has a dirty bit *)
(* and a call of its own.  The surface of a sprite, held by the composer, is *)
(* kept next to what the sprite records of it.                               *)
(***************************************************************************)
EXTENDS Naturals, Sequences, SequencesExt

CONSTANTS
  Sprite,       \* the sprites that clients may create
  Attribute,    \* position, layer, transformation matrix
  MaxChanges,   \* bound: calls of clients
  MaxFaults     \* bound: calls to the composer that fail

ASSUME SpriteBounds == MaxChanges \in Nat /\ MaxFaults \in Nat

Icon == 0 .. 2
HotSpot(icon) == IF icon = 2 THEN 1 ELSE 0
Dirty == {"bitmap", "hotspot", "visibility", "alpha"} \cup Attribute

VARIABLES
  sprite,        \* Sprite -> its SpriteState, guarded by mLock
  spriteRef,     \* the sprites of which a client still holds a reference
  spriteLocked,  \* mLocked: nesting, deferred update, invalidated, disposed
  spriteQueue,   \* the messages of the looper
  updates,       \* what doUpdateSprites works on: Sprite -> SpriteUpdate
  updatePhase,   \* where the looper thread is
  screen,        \* Sprite -> its surface as the composer has it
  unlucky,       \* sprites for which the composer has refused a call
  spriteBudget   \* remaining changes and faults

spriteVars == <<sprite, spriteRef, spriteLocked, spriteQueue, updates,
                updatePhase, screen, unlucky, spriteBudget>>

Born == [icon |-> 0, hotspot |-> 0, visible |-> FALSE, alpha |-> 1,
         attr |-> [a \in Attribute |-> 0], dirty |-> {},
         control |-> FALSE, size |-> 0, drawn |-> FALSE, shown |-> FALSE]
SpriteState ==
  [icon : Icon, hotspot : {0, 1}, visible : BOOLEAN, alpha : {0, 1}, attr : [Attribute -> {0, 1}],
   dirty : SUBSET Dirty, control : BOOLEAN, size : Icon, drawn : BOOLEAN,
   shown : BOOLEAN]
(* No surface has no size.  content 0 is what a resize leaves behind.       *)
NoScreen == [size |-> 0, content |-> 0, visible |-> FALSE, alpha |-> 0,
             attr |-> [a \in Attribute |-> 0], hotspot |-> 0]

SpriteInit ==
  /\ sprite = [s \in Sprite |-> Born]
  /\ spriteRef = {}
  /\ spriteLocked = [nesting |-> 0, deferred |-> FALSE,
                     invalidated |-> <<>>, disposed |-> {}]
  /\ spriteQueue = <<>>
  /\ updates = << >>
  /\ updatePhase = "idle"
  /\ screen = [s \in Sprite |-> NoScreen]
  /\ unlucky = {}
  /\ spriteBudget = [changes |-> MaxChanges, faults |-> MaxFaults]

wantSurfaceVisible(st) == st.visible /\ st.alpha > 0 /\ st.icon # 0

-----------------------------------------------------------------------------
(* Client calls, each atomic under mLock.                                   *)

Change == /\ spriteBudget.changes > 0
          /\ spriteBudget' = [spriteBudget EXCEPT !.changes = @ - 1]

(* A sprite is born when nothing is left of the previous one of its name.    *)
Held(s) == s \in spriteRef \/ s \in ToSet(spriteLocked.invalidated)
           \/ s \in DOMAIN updates
createSprite(s) ==
  /\ ~Held(s) /\ screen[s] = NoScreen
  /\ spriteRef' = spriteRef \cup {s}
  /\ sprite' = [sprite EXCEPT ![s] = Born]
  /\ unlucky' = unlucky \ {s}
  /\ Change
  /\ UNCHANGED <<spriteLocked, spriteQueue, updates, updatePhase, screen>>

openTransaction ==
  /\ spriteLocked.nesting < 2     \* bound on nesting
  /\ spriteLocked' = [spriteLocked EXCEPT !.nesting = @ + 1]
  /\ Change
  /\ UNCHANGED <<sprite, spriteRef, spriteQueue, updates, updatePhase, screen, unlucky>>

closeTransaction ==
  LET last == spriteLocked.nesting = 1 /\ spriteLocked.deferred IN
  /\ spriteLocked.nesting > 0
  /\ spriteLocked' = [spriteLocked EXCEPT !.nesting = @ - 1,
                                          !.deferred = @ /\ ~last]
  /\ spriteQueue' = IF last THEN Append(spriteQueue, "update") ELSE spriteQueue
  /\ UNCHANGED <<sprite, spriteRef, updates, updatePhase, screen, unlucky, spriteBudget>>

(* Mutant: an update that a transaction defers is not noted.                 *)
Bug_ForgetDeferred(s) ==
  /\ spriteLocked' = [spriteLocked EXCEPT !.invalidated = Append(@, s)]
  /\ spriteQueue' = IF spriteLocked.invalidated = <<>> /\ spriteLocked.nesting = 0
                    THEN Append(spriteQueue, "update") ELSE spriteQueue

invalidateSpriteLocked(s) ==
  LET wasEmpty == spriteLocked.invalidated = <<>>
      open == spriteLocked.nesting # 0
  IN /\ spriteLocked' = [spriteLocked EXCEPT
          !.invalidated = Append(@, s),
          !.deferred = @ \/ (wasEmpty /\ open)]
     /\ spriteQueue' = IF wasEmpty /\ ~open THEN Append(spriteQueue, "update")
                                            ELSE spriteQueue

(* A setter stores the new state and, unless the sprite was dirty already,   *)
(* invalidates it.                                                           *)
Set(s, new, dirty) ==
  /\ s \in spriteRef
  /\ sprite' = [sprite EXCEPT ![s] = [new EXCEPT !.dirty = @ \cup dirty]]
  /\ IF sprite[s].dirty = {} THEN invalidateSpriteLocked(s)
     ELSE UNCHANGED <<spriteLocked, spriteQueue>>
  /\ Change
  /\ UNCHANGED <<spriteRef, updates, updatePhase, screen, unlucky>>

(* The bitmap is copied before the test whether the old icon was valid, so   *)
(* only the hot spots count; an invalid icon resets the bitmap and leaves    *)
(* the hot spot as it was.                                                   *)
setIcon(s, icon) ==
  \/ /\ icon # 0
     /\ Set(s, [sprite[s] EXCEPT !.icon = icon, !.hotspot = HotSpot(icon)],
            IF sprite[s].hotspot = HotSpot(icon) THEN {"bitmap"}
                                                 ELSE {"bitmap", "hotspot"})
  \/ /\ icon = 0 /\ sprite[s].icon # 0
     /\ Set(s, [sprite[s] EXCEPT !.icon = 0], {"bitmap", "hotspot"})
setVisible(s) ==
  Set(s, [sprite[s] EXCEPT !.visible = ~@], {"visibility"})
setAlpha(s) ==
  Set(s, [sprite[s] EXCEPT !.alpha = 1 - @], {"alpha"})
setAttribute(s, a) ==
  Set(s, [sprite[s] EXCEPT !.attr[a] = 1 - @], {a})

(* The destructor of a sprite leaves its surface to the looper.              *)
disposeSurfaceLocked(gone) ==
  LET owned == {s \in gone : sprite[s].control} IN
  /\ spriteLocked' = [spriteLocked EXCEPT !.disposed = @ \cup owned]
  /\ spriteQueue' = IF owned # {} /\ spriteLocked.disposed = {}
                    THEN Append(spriteQueue, "dispose") ELSE spriteQueue
  /\ sprite' = [s \in Sprite |-> IF s \in gone THEN Born ELSE sprite[s]]

ReleaseSprite(s) ==
  LET last == s \notin ToSet(spriteLocked.invalidated) \cup DOMAIN updates IN
  /\ s \in spriteRef
  /\ spriteRef' = spriteRef \ {s}
  /\ disposeSurfaceLocked(IF last THEN {s} ELSE {})
  /\ Change
  /\ UNCHANGED <<updates, updatePhase, screen, unlucky>>

-----------------------------------------------------------------------------
(* doUpdateSprites.                                                         *)

Collect ==
  LET batch == ToSet(spriteLocked.invalidated) IN
  /\ updatePhase = "idle" /\ spriteQueue # <<>> /\ Head(spriteQueue) = "update"
  /\ updates' = [s \in batch |-> sprite[s]]
  /\ sprite' = [s \in Sprite |-> IF s \in batch
                  THEN [sprite[s] EXCEPT !.dirty = {}] ELSE sprite[s]]
  /\ spriteLocked' = [spriteLocked EXCEPT !.invalidated = <<>>]
  /\ spriteQueue' = Tail(spriteQueue)
  /\ updatePhase' = "work"
  /\ UNCHANGED <<spriteRef, screen, unlucky, spriteBudget>>

(* The four passes over one sprite: u is the update, surf its surface, fail  *)
(* the kinds of composer calls that fail.                                    *)
Created(u, fail) ==
  IF ~u.control /\ wantSurfaceVisible(u) /\ "create" \notin fail
  THEN [u EXCEPT !.control = TRUE, !.size = u.icon, !.drawn = FALSE, !.shown = FALSE]
  ELSE u
NeedsResize(u) == u.control /\ wantSurfaceVisible(u) /\ u.size < u.icon
Resized(u, fail) ==
  IF NeedsResize(u) /\ "size" \notin fail
  THEN [u EXCEPT !.size = u.icon, !.drawn = FALSE, !.shown = @ /\ "hide" \in fail]
  ELSE u
Undrawn(u) == IF "bitmap" \in u.dirty THEN [u EXCEPT !.drawn = FALSE] ELSE u
NeedsDraw(u) == u.control /\ ~u.drawn /\ wantSurfaceVisible(u)
Redrawn(u, fail) ==
  IF NeedsDraw(u) /\ "draw" \notin fail THEN [u EXCEPT !.drawn = TRUE] ELSE u
Displayed(u, fail) ==
  LET want == wantSurfaceVisible(u) /\ u.drawn IN
  IF ~u.control THEN u
  ELSE IF want /\ ~u.shown /\ "show" \notin fail THEN [u EXCEPT !.shown = TRUE]
  ELSE IF ~want /\ u.shown /\ "hide" \notin fail THEN [u EXCEPT !.shown = FALSE]
  ELSE u

(* The properties that are set on a surface: all of them when it is about to *)
(* be shown, else those that are dirty.                                      *)
(* Mutant: a surface that is shown again is told only what is dirty.         *)
Bug_SendDirty(u, bit) == wantSurfaceVisible(u) /\ u.drawn /\ bit \in u.dirty
Sends(u, bit) ==
  LET want == wantSurfaceVisible(u) /\ u.drawn
  IN want /\ (~u.shown \/ bit \in u.dirty)

(* The surface after the passes: u is the update as collected, sized and     *)
(* drew what it was after the resizing and the drawing.                      *)
Surface(u, sized, drew, fail, surf) ==
  LET new(bit, value, old) ==
        IF Sends(drew, bit) /\ "set" \notin fail THEN value ELSE old
      drawn == NeedsDraw(Undrawn(sized)) /\ "draw" \notin fail
  IN IF ~sized.control THEN surf
     ELSE [size |-> sized.size,
           content |-> IF drawn THEN u.icon
                       ELSE IF sized.size # u.size THEN 0 ELSE surf.content,
           visible |-> Displayed(drew, fail).shown,
           alpha |-> new("alpha", u.alpha, surf.alpha),
           attr |-> [a \in Attribute |-> new(a, u.attr[a], surf.attr[a])],
           hotspot |-> new("hotspot", u.hotspot, surf.hotspot)]

(* The composer refuses nothing, or one kind of call for one sprite.         *)
Faults == {"create", "size", "draw", "set", "show", "hide"}
Refused == {{}} \cup
  IF spriteBudget.faults = 0 THEN {}
  ELSE {{<<s, f>>} : s \in DOMAIN updates, f \in Faults}

(* Nobody else touches the surfaces, so the passes over all sprites are one  *)
(* step.                                                                     *)
WorkOnSurfaces ==
  /\ updatePhase = "work"
  /\ \E bad \in Refused :
       LET D == DOMAIN updates
           fail == [s \in D |-> {f \in Faults : <<s, f>> \in bad}]
       IN \E sized \in {[s \in D |-> Resized(Created(updates[s], fail[s]), fail[s])]} :
          \E drew \in {[s \in D |-> Redrawn(Undrawn(sized[s]), fail[s])]} :
            /\ updates' = [s \in D |-> Displayed(drew[s], fail[s])]
            /\ screen' = [s \in Sprite |-> IF s \notin D THEN screen[s]
                 ELSE Surface(updates[s], sized[s], drew[s], fail[s], screen[s])]
            /\ unlucky' = unlucky \cup {s \in D : fail[s] # {}}
            /\ spriteBudget' = [spriteBudget EXCEPT
                 !.faults = IF bad = {} THEN @ ELSE @ - 1]
  /\ updatePhase' = "write"
  /\ UNCHANGED <<sprite, spriteRef, spriteLocked, spriteQueue>>

(* Mutant: the dirty bits are cleared when the work is done, not when the    *)
(* states are copied.                                                        *)
Bug_ClearDirtyLate ==
  /\ updatePhase = "write"
  /\ sprite' = [s \in Sprite |->
       IF s \in DOMAIN updates
       THEN [updates[s] EXCEPT !.dirty = {}, !.icon = sprite[s].icon,
              !.hotspot = sprite[s].hotspot, !.visible = sprite[s].visible, !.alpha = sprite[s].alpha,
              !.attr = sprite[s].attr]
       ELSE sprite[s]]
  /\ updatePhase' = "clear"
  /\ UNCHANGED <<spriteRef, spriteLocked, spriteQueue, updates, screen, unlucky,
                 spriteBudget>>

(* Mutant: a sprite that no client holds any more is not written back.       *)
Bug_WriteReferenced ==
  /\ updatePhase = "write"
  /\ sprite' = [s \in Sprite |->
       IF s \in DOMAIN updates \cap spriteRef
       THEN [sprite[s] EXCEPT !.control = updates[s].control,
                              !.size = updates[s].size,
                              !.drawn = updates[s].drawn,
                              !.shown = updates[s].shown]
       ELSE sprite[s]]
  /\ updatePhase' = "clear"
  /\ UNCHANGED <<spriteRef, spriteLocked, spriteQueue, updates, screen, unlucky,
                 spriteBudget>>

(* setSurfaceLocked of every sprite whose surface has changed; writing back  *)
(* what has not changed does nothing, for only this thread writes it.        *)
WriteBack ==
  /\ updatePhase = "write"
  /\ sprite' = [s \in Sprite |->
       IF s \in DOMAIN updates
       THEN [sprite[s] EXCEPT !.control = updates[s].control,
                              !.size = updates[s].size,
                              !.drawn = updates[s].drawn,
                              !.shown = updates[s].shown]
       ELSE sprite[s]]
  /\ updatePhase' = "clear"
  /\ UNCHANGED <<spriteRef, spriteLocked, spriteQueue, updates, screen, unlucky,
                 spriteBudget>>

(* updates.clear(): the last references go, outside the lock.                *)
ClearUpdates ==
  /\ updatePhase = "clear"
  /\ disposeSurfaceLocked({s \in DOMAIN updates :
       s \notin spriteRef \cup ToSet(spriteLocked.invalidated)})
  /\ updates' = << >>
  /\ updatePhase' = "idle"
  /\ UNCHANGED <<spriteRef, screen, unlucky, spriteBudget>>

doDisposeSurfaces ==
  /\ updatePhase = "idle" /\ spriteQueue # <<>> /\ Head(spriteQueue) = "dispose"
  /\ screen' = [s \in Sprite |->
       IF s \in spriteLocked.disposed THEN NoScreen ELSE screen[s]]
  /\ spriteLocked' = [spriteLocked EXCEPT !.disposed = {}]
  /\ spriteQueue' = Tail(spriteQueue)
  /\ UNCHANGED <<sprite, spriteRef, updates, updatePhase, unlucky, spriteBudget>>

-----------------------------------------------------------------------------
ClientChanges ==
  \/ openTransaction
  \/ \E s \in Sprite :
       \/ createSprite(s)
       \/ \E icon \in Icon : setIcon(s, icon)
       \/ setVisible(s)
       \/ setAlpha(s)
       \/ \E a \in Attribute : setAttribute(s, a)
       \/ ReleaseSprite(s)
SpriteLooper == Collect \/ WorkOnSurfaces \/ WriteBack \/ ClearUpdates \/ doDisposeSurfaces
SpriteNext == ClientChanges \/ closeTransaction \/ SpriteLooper

(* The looper runs, and who opens a transaction closes it.                   *)
SpriteFairness == WF_spriteVars(SpriteLooper) /\ WF_spriteVars(closeTransaction)
SpriteSpec == SpriteInit /\ [][SpriteNext]_spriteVars /\ SpriteFairness

-----------------------------------------------------------------------------
(* An update is never lost: whenever a sprite is dirty, or the looper has a  *)
(* surface to release, there is a message on its way, or a transaction open  *)
(* whose end will send it.  A dirty sprite that is not in the list, or a     *)
(* list without message, would stay as it is until another client call.      *)
NoLostUpdate ==
  /\ \A s \in Sprite : sprite[s].dirty # {} => s \in ToSet(spriteLocked.invalidated)
  /\ spriteLocked.invalidated # <<>> =>
       \/ \E i \in DOMAIN spriteQueue : spriteQueue[i] = "update"
       \/ spriteLocked.deferred /\ spriteLocked.nesting > 0
  /\ spriteLocked.disposed # {} =>
       \E i \in DOMAIN spriteQueue : spriteQueue[i] = "dispose"

(* The surfaces that the composer has are the ones on record: in the state   *)
(* of their sprite, in the update that the looper is about to write back, or *)
(* among the disposed ones.  The record has their size and visibility right, *)
(* whatever the composer refuses; a surface that is on no record would stay  *)
(* on the screen for ever.                                                   *)
Recorded(s) ==
  IF updatePhase = "write" /\ s \in DOMAIN updates THEN updates[s] ELSE sprite[s]
SurfacesRecorded ==
  \A s \in Sprite :
    IF Recorded(s).control
    THEN screen[s].size = Recorded(s).size /\ screen[s].visible = Recorded(s).shown
    ELSE screen[s] = NoScreen \/ s \in spriteLocked.disposed

(* What the screen should show of a sprite, and shows.                       *)
AsWanted(s) ==
  LET st == sprite[s]
      surf == screen[s]
  IN IF s \notin spriteRef THEN surf = NoScreen
     ELSE IF ~wantSurfaceVisible(st) THEN ~surf.visible
     ELSE /\ surf.visible
          /\ surf.size >= st.icon /\ surf.content = st.icon
          /\ surf.alpha = st.alpha /\ surf.attr = st.attr
          /\ surf.hotspot = HotSpot(st.icon)

(* A sprite that is not dirty is on the screen as its state says, whenever   *)
(* the looper is not at work: no call is cut off by an update that has read  *)
(* the state before it, and a surface that is shown again after a time has   *)
(* all that changed in the meantime.                                         *)
CleanIsShown ==
  updatePhase = "idle" =>
    \A s \in spriteRef \ unlucky : sprite[s].dirty = {} => AsWanted(s)

(* Once the clients are done, every sprite is shown with its last icon,      *)
(* place and alpha or not at all, and the surfaces of the sprites that are   *)
(* gone are released, unless the composer refused a call (nothing retries    *)
(* it): the decoupling of state, copy and surface, whatever overlaps, drops  *)
(* no change.                                                                *)
SpritesShown == <>[](\A s \in Sprite : s \in unlucky \/ AsWanted(s))
=============================================================================
