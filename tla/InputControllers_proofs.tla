---------------------- MODULE InputControllers_proofs ----------------------
(***************************************************************************)
(* Proofs about SpriteController for any number of sprites, attributes,    *)
(* calls and faults: no update is lost, every surface is on record, and a  *)
(* sprite that is not dirty is on the screen as its state says.            *)
(*                                                                         *)
(* Then about PointerController: the pointer stays on the screen and its   *)
(* sprite shows it, and the sprites of the spots go to the pool and back   *)
(* without being shared, for any displays, distances, fingers and calls.   *)
(***************************************************************************)
EXTENDS SpriteController, PointerController, TLAPS, FiniteSetTheorems,
        SequenceTheorems, WellFoundedInduction

-----------------------------------------------------------------------------
(* SpriteController.  The inductive invariant: types *)

Locked == [nesting : Nat, deferred : BOOLEAN, invalidated : Seq(Sprite),
           disposed : SUBSET Sprite]
Message == {"update", "dispose"}
ScreenState == [size : Icon, content : Icon, visible : BOOLEAN, alpha : {0, 1},
                attr : [Attribute -> {0, 1}], hotspot : {0, 1}]
STypes ==
  /\ sprite \in [Sprite -> SpriteState]
  /\ spriteRef \subseteq Sprite
  /\ spriteLocked \in Locked
  /\ spriteQueue \in Seq(Message)
  /\ DOMAIN updates \subseteq Sprite
  /\ \A s \in DOMAIN updates : updates[s] \in SpriteState
  /\ updatePhase \in {"idle", "work", "write", "clear"}
  /\ updatePhase = "idle" => DOMAIN updates = {}
  /\ screen \in [Sprite -> ScreenState]

-----------------------------------------------------------------------------
(* The inductive invariant: messages *)

Has(q, m) == \E i \in 1 .. Len(q) : q[i] = m
Listed == ToSet(spriteLocked.invalidated)
Sent(q, l) ==
  /\ l.deferred => l.nesting > 0
  /\ l.invalidated # <<>> => Has(q, "update") \/ l.deferred
  /\ l.disposed # {} => Has(q, "dispose")
DirtyListed == \A s \in Sprite : sprite[s].dirty # {} => s \in Listed
\* A sprite whose surface is disposed is gone.
DisposedGone ==
  \A s \in spriteLocked.disposed :
    /\ s \notin spriteRef \cup Listed \cup DOMAIN updates
    /\ ~sprite[s].control /\ screen[s] # NoScreen

-----------------------------------------------------------------------------
(* The inductive invariant: what the surface of a sprite has of its state *)

\* A surface has a size, and only a surface is shown.
SurfaceOK(u) == (u.control => u.size # 0) /\ (u.shown => u.control)

\* The surface surf has what state u says, save what is dirty.
Follows(u, dirty, surf) ==
  /\ u.shown =>
       /\ "alpha" \notin dirty => surf.alpha = u.alpha
       /\ \A a \in Attribute : a \notin dirty => surf.attr[a] = u.attr[a]
       /\ "hotspot" \notin dirty => surf.hotspot = u.hotspot
       /\ "bitmap" \notin dirty => u.drawn
  /\ u.control /\ u.drawn /\ "bitmap" \notin dirty =>
       surf.content = u.icon /\ surf.size >= u.icon
  /\ dirty \cap {"bitmap", "visibility", "alpha"} = {} =>
       (u.shown <=> wantSurfaceVisible(u))

\* State st differs from its copy u only in what is dirty.
Newer(st, u) ==
  /\ "bitmap" \notin st.dirty => st.icon = u.icon
  /\ "hotspot" \notin st.dirty => st.hotspot = u.hotspot
  /\ "visibility" \notin st.dirty => st.visible = u.visible
  /\ "alpha" \notin st.dirty => st.alpha = u.alpha
  /\ \A a \in Attribute : a \notin st.dirty => st.attr[a] = u.attr[a]
SameSurface(st, u) ==
  st.control = u.control /\ st.size = u.size /\ st.drawn = u.drawn /\ st.shown = u.shown

\* The states and the surface of a sprite that the looper works on, or not.
InWork(s) == updatePhase \in {"work", "write"} /\ s \in DOMAIN updates
ScreenOK(s) ==
  /\ SurfaceOK(sprite[s])
  /\ InWork(s) =>
       /\ SurfaceOK(updates[s])
       /\ Newer(sprite[s], updates[s])
       /\ updatePhase = "work" => SameSurface(sprite[s], updates[s])
       /\ s \notin unlucky =>
            Follows(updates[s], IF updatePhase = "work" THEN updates[s].dirty ELSE {},
                    screen[s])
  /\ ~InWork(s) /\ s \notin unlucky => Follows(sprite[s], sprite[s].dirty, screen[s])

SInv ==
  /\ STypes /\ Sent(spriteQueue, spriteLocked)
  /\ DirtyListed /\ DisposedGone /\ SurfacesRecorded
  /\ \A s \in Sprite : ScreenOK(s)
-----------------------------------------------------------------------------
(* Lists and messages *)

LEMMA ListFacts ==
  ASSUME NEW S, NEW q \in Seq(S)
  PROVE  /\ DOMAIN q = 1 .. Len(q) /\ Len(q) \in Nat
         /\ q # <<>> <=> Len(q) >= 1
         /\ ToSet(q) = {q[i] : i \in 1 .. Len(q)} /\ ToSet(q) \subseteq S
<1>1. DOMAIN q = 1 .. Len(q) /\ Len(q) \in Nat
  BY LenProperties
<1>2. q # <<>> <=> Len(q) >= 1
  BY <1>1, EmptySeq
<1>3. \A i \in 1 .. Len(q) : q[i] \in S
  BY ElementOfSeq
<1> QED BY <1>1, <1>2, <1>3 DEF ToSet

LEMMA NothingListed == ToSet(<<>>) = {}
<1>1. DOMAIN <<>> = {}
  OBVIOUS
<1> QED BY <1>1 DEF ToSet

LEMMA AppendListed ==
  ASSUME NEW S
  PROVE  \A q \in Seq(S) : \A e \in S :
           /\ Append(q, e) \in Seq(S) /\ Append(q, e) # <<>>
           /\ ToSet(Append(q, e)) = ToSet(q) \cup {e}
<1> SUFFICES ASSUME NEW q \in Seq(S), NEW e \in S
             PROVE  /\ Append(q, e) \in Seq(S) /\ Append(q, e) # <<>>
                    /\ ToSet(Append(q, e)) = ToSet(q) \cup {e}
  OBVIOUS
<1> DEFINE r == Append(q, e)
<1>1. /\ r \in Seq(S) /\ r # <<>> /\ Len(r) = Len(q) + 1
      /\ \A i \in 1 .. Len(q) : r[i] = q[i]
      /\ r[Len(q) + 1] = e
  BY AppendProperties
<1> HIDE DEF r
<1>2. /\ Len(q) \in Nat /\ ToSet(q) = {q[i] : i \in 1 .. Len(q)}
      /\ ToSet(r) = {r[i] : i \in 1 .. Len(r)}
  BY <1>1, ListFacts
<1>3. 1 .. Len(r) = (1 .. Len(q)) \cup {Len(q) + 1}
  BY <1>1, <1>2
<1>4. ToSet(r) = ToSet(q) \cup {e}
  BY <1>1, <1>2, <1>3
<1> QED BY <1>1, <1>4 DEF r

\* A message that is sent is there, and the others still are.
LEMMA SendHas ==
  \A q \in Seq(Message) : \A m \in Message :
    /\ Append(q, m) \in Seq(Message)
    /\ Has(Append(q, m), m)
    /\ \A n \in Message : Has(q, n) => Has(Append(q, m), n)
<1> SUFFICES ASSUME NEW q \in Seq(Message), NEW m \in Message
             PROVE  /\ Append(q, m) \in Seq(Message)
                    /\ Has(Append(q, m), m)
                    /\ \A n \in Message : Has(q, n) => Has(Append(q, m), n)
  OBVIOUS
<1> DEFINE r == Append(q, m)
<1>1. /\ r \in Seq(Message) /\ Len(r) = Len(q) + 1 /\ Len(q) \in Nat
      /\ \A i \in 1 .. Len(q) : r[i] = q[i]
      /\ r[Len(q) + 1] = m
  BY AppendProperties, LenProperties
<1> HIDE DEF r
<1>2. Len(q) + 1 \in 1 .. Len(r) /\ 1 .. Len(q) \subseteq 1 .. Len(r)
  BY <1>1
<1>3. Has(r, m) /\ \A n \in Message : Has(q, n) => Has(r, n)
  BY <1>1, <1>2 DEF Has
<1> QED BY <1>1, <1>3 DEF r

\* A message that is received takes no other away.
LEMMA ReceiveHas ==
  \A q \in Seq(Message) :
    q # <<>> => /\ Tail(q) \in Seq(Message)
                /\ \A n \in Message : Has(q, n) /\ Head(q) # n => Has(Tail(q), n)
<1> SUFFICES ASSUME NEW q \in Seq(Message), q # <<>>
             PROVE  /\ Tail(q) \in Seq(Message)
                    /\ \A n \in Message : Has(q, n) /\ Head(q) # n => Has(Tail(q), n)
  OBVIOUS
<1> DEFINE r == Tail(q)
<1>1. /\ Head(q) = q[1] /\ r \in Seq(Message) /\ Len(r) = Len(q) - 1
      /\ \A i \in 1 .. Len(r) : r[i] = q[i + 1]
  BY HeadTailProperties, EmptySeq
<1>2. Len(q) \in Nat /\ Len(q) >= 1
  BY ListFacts
<1> HIDE DEF r
<1>3. ASSUME NEW n \in Message, NEW i \in 1 .. Len(q), q[i] = n, Head(q) # n
      PROVE  Has(r, n)
  <2>1. i - 1 \in 1 .. Len(r) /\ (i - 1) + 1 = i
    BY <1>1, <1>2, <1>3
  <2> QED BY <1>1, <1>3, <2>1 DEF Has
<1> QED BY <1>1, <1>3 DEF Has, r

\* A new sprite, and one without surface.
LEMMA BornIsState == Born \in SpriteState
BY DEF Born, SpriteState, Icon, Dirty

LEMMA NoScreenIsScreen == NoScreen \in ScreenState /\ NoScreen.size = 0
BY DEF NoScreen, ScreenState, Icon

-----------------------------------------------------------------------------
(* States and their copies *)

\* What is shown of a copy is shown of a newer state, save what is dirty.
LEMMA NewerFollows ==
  \A u, st \in SpriteState : \A dirty \in SUBSET st.dirty : \A surf \in ScreenState :
    SameSurface(st, u) /\ Newer(st, u) /\ Follows(u, dirty, surf)
    => Follows(st, st.dirty, surf)
<1> SUFFICES ASSUME NEW u \in SpriteState, NEW st \in SpriteState,
                    NEW dirty \in SUBSET st.dirty, NEW surf \in ScreenState,
                    SameSurface(st, u), Newer(st, u), Follows(u, dirty, surf)
             PROVE  Follows(st, st.dirty, surf)
  OBVIOUS
<1>1. st.shown =>
        /\ "alpha" \notin st.dirty => surf.alpha = st.alpha
        /\ \A a \in Attribute : a \notin st.dirty => surf.attr[a] = st.attr[a]
        /\ "hotspot" \notin st.dirty => surf.hotspot = st.hotspot
        /\ "bitmap" \notin st.dirty => st.drawn
  BY DEF SameSurface, Newer, Follows
<1>2. st.control /\ st.drawn /\ "bitmap" \notin st.dirty =>
        surf.content = st.icon /\ surf.size >= st.icon
  BY DEF SameSurface, Newer, Follows
<1>3. ASSUME st.dirty \cap {"bitmap", "visibility", "alpha"} = {}
      PROVE  st.shown <=> wantSurfaceVisible(st)
  <2>1. dirty \cap {"bitmap", "visibility", "alpha"} = {}
    BY <1>3
  <2>2. st.icon = u.icon /\ st.visible = u.visible /\ st.alpha = u.alpha
    BY <1>3 DEF Newer
  <2>3. u.shown <=> wantSurfaceVisible(u)
    BY <2>1 DEF Follows
  <2> QED BY <2>2, <2>3 DEF SameSurface, wantSurfaceVisible
<1> QED BY <1>1, <1>2, <1>3 DEF Follows

\* A change of a state that is newer than its copy leaves it newer.
LEMMA NewerStill ==
  \A u, st, new \in SpriteState :
    st.dirty \subseteq new.dirty /\ Newer(new, st) /\ Newer(st, u) => Newer(new, u)
BY DEF Newer

LEMMA BornFollows ==
  \A surf \in ScreenState : SurfaceOK(Born) /\ Follows(Born, {}, surf)
BY DEF Born, Follows, SurfaceOK, wantSurfaceVisible

-----------------------------------------------------------------------------
(* The invariant in the next state *)

LEMMA Primes ==
  /\ Listed' = ToSet(spriteLocked'.invalidated)
  /\ Sent(spriteQueue, spriteLocked)' <=> Sent(spriteQueue', spriteLocked')
BY DEF Listed, ToSet, Sent, Has

LEMMA ScreenPrimes ==
  ASSUME NEW s \in Sprite
  PROVE  ScreenOK(s)' <=>
    /\ SurfaceOK(sprite'[s])
    /\ InWork(s)' =>
         /\ SurfaceOK(updates'[s])
         /\ Newer(sprite'[s], updates'[s])
         /\ updatePhase' = "work" => SameSurface(sprite'[s], updates'[s])
         /\ s \notin unlucky' =>
              Follows(updates'[s],
                      IF updatePhase' = "work" THEN updates'[s].dirty ELSE {},
                      screen'[s])
    /\ ~InWork(s)' /\ s \notin unlucky' =>
         Follows(sprite'[s], sprite'[s].dirty, screen'[s])
BY DEF ScreenOK, SurfaceOK, Newer, SameSurface, Follows, wantSurfaceVisible, InWork

\* A sprite that a step does not touch.
LEMMA ScreenKept ==
  ASSUME NEW s \in Sprite, ScreenOK(s),
         sprite'[s] = sprite[s], screen'[s] = screen[s],
         UNCHANGED <<updates, updatePhase>>, s \notin unlucky' => s \notin unlucky
  PROVE  ScreenOK(s)'
<1>1. InWork(s)' <=> InWork(s)
  BY DEF InWork
<1> QED BY <1>1, ScreenPrimes DEF ScreenOK

LEMMA ScreenUnchanged ==
  ASSUME \A s \in Sprite : ScreenOK(s),
         UNCHANGED <<sprite, screen, updates, updatePhase, unlucky>>
  PROVE  (\A s \in Sprite : ScreenOK(s))'
BY ScreenKept

-----------------------------------------------------------------------------
(* The calls of clients *)

LEMMA createKeepsSInv ==
  ASSUME SInv, NEW s \in Sprite, createSprite(s)
  PROVE  SInv'
<1>1. /\ s \notin spriteRef \cup Listed \cup DOMAIN updates /\ screen[s] = NoScreen
      /\ spriteRef' = spriteRef \cup {s} /\ unlucky' = unlucky \ {s}
      /\ sprite' = [sprite EXCEPT ![s] = Born]
      /\ UNCHANGED <<spriteLocked, spriteQueue, updates, updatePhase, screen>>
  BY DEF createSprite, Held, Listed
<1>2. /\ STypes /\ sprite \in [Sprite -> SpriteState] /\ screen \in [Sprite -> ScreenState]
  BY DEF SInv, STypes
<1>3. /\ sprite' \in [Sprite -> SpriteState] /\ sprite'[s] = Born
      /\ \A t \in Sprite \ {s} : sprite'[t] = sprite[t]
  BY <1>1, <1>2, BornIsState
<1>4. STypes'
  BY <1>1, <1>2, <1>3 DEF STypes
<1>5. Sent(spriteQueue, spriteLocked)'
  BY <1>1, Primes DEF SInv
<1>6. Born.dirty = {} /\ ~Born.control
  BY DEF Born
<1>7. Listed' = Listed
  BY <1>1 DEF Listed
<1>8. DirtyListed'
  BY <1>3, <1>6, <1>7 DEF SInv, DirtyListed
<1>9. spriteLocked.disposed \subseteq Sprite /\ s \notin spriteLocked.disposed
  BY <1>1, <1>2 DEF SInv, DisposedGone, STypes, Locked
<1>10. DisposedGone'
  BY <1>1, <1>3, <1>7, <1>9 DEF SInv, DisposedGone
<1>11. SurfacesRecorded'
  BY <1>1, <1>3, <1>6 DEF SInv, SurfacesRecorded, Recorded
<1>12. ASSUME NEW t \in Sprite
       PROVE  ScreenOK(t)'
  <2>1. CASE t = s
    <3>1. ~InWork(s)'
      BY <1>1 DEF InWork
    <3>2. SurfaceOK(sprite'[s]) /\ Follows(sprite'[s], sprite'[s].dirty, screen'[s])
      BY <1>1, <1>2, <1>3, <1>6, BornFollows
    <3> QED BY <2>1, <3>1, <3>2, ScreenPrimes
  <2>2. CASE t # s
    BY <1>1, <1>3, <2>2, ScreenKept DEF SInv
  <2> QED BY <2>1, <2>2
<1> QED BY <1>4, <1>5, <1>8, <1>10, <1>11, <1>12 DEF SInv

LEMMA openTransactionKeepsSInv ==
  ASSUME SInv, openTransaction
  PROVE  SInv'
<1>1. /\ spriteLocked' = [spriteLocked EXCEPT !.nesting = @ + 1]
      /\ UNCHANGED <<sprite, spriteRef, spriteQueue, updates, updatePhase, screen, unlucky>>
  BY DEF openTransaction
<1>2. STypes /\ spriteLocked \in Locked
  BY DEF SInv, STypes
<1>3. /\ spriteLocked' \in Locked
      /\ spriteLocked'.nesting = spriteLocked.nesting + 1
      /\ spriteLocked'.deferred = spriteLocked.deferred
      /\ spriteLocked'.invalidated = spriteLocked.invalidated
      /\ spriteLocked'.disposed = spriteLocked.disposed
  BY <1>1, <1>2 DEF Locked
<1>4. STypes'
  BY <1>1, <1>2, <1>3 DEF STypes
<1>5. Sent(spriteQueue', spriteLocked')
  BY <1>1, <1>2, <1>3 DEF SInv, Sent, Locked
<1>6. Listed' = Listed
  BY <1>3 DEF Listed
<1>7. DirtyListed' /\ DisposedGone' /\ SurfacesRecorded'
  BY <1>1, <1>3, <1>6 DEF SInv, DirtyListed, DisposedGone, SurfacesRecorded, Recorded
<1> QED BY <1>1, <1>4, <1>5, <1>7, Primes, ScreenUnchanged DEF SInv

LEMMA closeTransactionKeepsSInv ==
  ASSUME SInv, closeTransaction
  PROVE  SInv'
<1> DEFINE last == spriteLocked.nesting = 1 /\ spriteLocked.deferred
<1>1. /\ spriteLocked.nesting > 0
      /\ spriteLocked' = [spriteLocked EXCEPT !.nesting = @ - 1,
                                              !.deferred = @ /\ ~last]
      /\ spriteQueue' = IF last THEN Append(spriteQueue, "update") ELSE spriteQueue
      /\ UNCHANGED <<sprite, spriteRef, updates, updatePhase, screen, unlucky>>
  BY DEF closeTransaction
<1>2. STypes /\ spriteLocked \in Locked /\ spriteQueue \in Seq(Message)
  BY DEF SInv, STypes
<1>3. /\ spriteLocked' \in Locked
      /\ spriteLocked'.nesting = spriteLocked.nesting - 1
      /\ spriteLocked'.deferred <=> spriteLocked.deferred /\ ~last
      /\ spriteLocked'.invalidated = spriteLocked.invalidated
      /\ spriteLocked'.disposed = spriteLocked.disposed
  <2>1. spriteLocked.deferred \in BOOLEAN /\ spriteLocked.nesting - 1 \in Nat
    BY <1>1, <1>2 DEF Locked
  <2>2. CASE last
    <3>1. spriteLocked' = [spriteLocked EXCEPT !.nesting = @ - 1, !.deferred = FALSE]
      BY <1>1, <2>2
    <3> QED BY <1>2, <2>1, <2>2, <3>1 DEF Locked
  <2>3. CASE ~last
    <3>1. spriteLocked' = [spriteLocked EXCEPT !.nesting = @ - 1]
      <4>1. spriteLocked' = [spriteLocked EXCEPT !.nesting = @ - 1,
                                                 !.deferred = spriteLocked.deferred]
        BY <1>1, <2>1, <2>3
      <4> QED BY <1>2, <4>1 DEF Locked
    <3> QED BY <1>2, <2>1, <2>3, <3>1 DEF Locked
  <2> QED BY <2>2, <2>3
<1>4. /\ spriteQueue' \in Seq(Message)
      /\ last => Has(spriteQueue', "update")
      /\ \A m \in Message : Has(spriteQueue, m) => Has(spriteQueue', m)
  BY <1>1, <1>2, SendHas DEF Message
<1>5. STypes'
  BY <1>1, <1>2, <1>3, <1>4 DEF STypes
<1>6. Sent(spriteQueue', spriteLocked')
  BY <1>1, <1>2, <1>3, <1>4 DEF SInv, Sent, Locked, Message
<1>7. Listed' = Listed
  BY <1>3 DEF Listed
<1>8. DirtyListed' /\ DisposedGone' /\ SurfacesRecorded'
  BY <1>1, <1>3, <1>7 DEF SInv, DirtyListed, DisposedGone, SurfacesRecorded, Recorded
<1> QED BY <1>1, <1>5, <1>6, <1>8, Primes, ScreenUnchanged DEF SInv

\* A sprite that is invalidated is listed, and a message sent or deferred.
LEMMA InvalidateSends ==
  ASSUME NEW s \in Sprite, spriteLocked \in Locked, spriteQueue \in Seq(Message),
         Sent(spriteQueue, spriteLocked), invalidateSpriteLocked(s)
  PROVE  /\ spriteLocked' \in Locked /\ spriteQueue' \in Seq(Message)
         /\ Sent(spriteQueue', spriteLocked')
         /\ Listed' = Listed \cup {s} /\ spriteLocked'.disposed = spriteLocked.disposed
<1> DEFINE wasEmpty == spriteLocked.invalidated = <<>>
           open == spriteLocked.nesting # 0
<1>1. /\ spriteLocked' = [spriteLocked EXCEPT
           !.invalidated = Append(@, s),
           !.deferred = @ \/ (wasEmpty /\ open)]
      /\ spriteQueue' = IF wasEmpty /\ ~open THEN Append(spriteQueue, "update")
                                             ELSE spriteQueue
  BY DEF invalidateSpriteLocked
<1>2. spriteLocked.invalidated \in Seq(Sprite) /\ spriteLocked.nesting \in Nat
  BY DEF Locked
<1>3. /\ Append(spriteLocked.invalidated, s) \in Seq(Sprite)
      /\ Append(spriteLocked.invalidated, s) # <<>>
      /\ ToSet(Append(spriteLocked.invalidated, s)) = Listed \cup {s}
  BY <1>2, AppendListed DEF Listed
<1>4. /\ spriteLocked'.nesting = spriteLocked.nesting
      /\ spriteLocked'.deferred <=> spriteLocked.deferred \/ (wasEmpty /\ open)
      /\ spriteLocked'.invalidated = Append(spriteLocked.invalidated, s)
      /\ spriteLocked'.disposed = spriteLocked.disposed
      /\ spriteLocked' \in Locked
  BY <1>1, <1>3 DEF Locked
<1>5. /\ spriteQueue' \in Seq(Message)
      /\ wasEmpty /\ ~open => Has(spriteQueue', "update")
      /\ \A m \in Message : Has(spriteQueue, m) => Has(spriteQueue', m)
  BY <1>1, SendHas DEF Message
<1>6. Sent(spriteQueue', spriteLocked')
  BY <1>2, <1>4, <1>5 DEF Sent, Message
<1> QED BY <1>3, <1>4, <1>5, <1>6, Primes

\* A setter of a sprite: it may change what it makes dirty, and leaves the
\* surface alone.
LEMMA SetKeepsSInv ==
  ASSUME SInv, NEW s \in Sprite, NEW new \in SpriteState, NEW dirty \in SUBSET Dirty,
         new.dirty = sprite[s].dirty, SameSurface(new, sprite[s]),
         Newer([new EXCEPT !.dirty = @ \cup dirty], sprite[s]),
         Set(s, new, dirty)
  PROVE  SInv'
<1> DEFINE st == [new EXCEPT !.dirty = @ \cup dirty]
<1>1. /\ s \in spriteRef
      /\ sprite' = [sprite EXCEPT ![s] = st]
      /\ IF sprite[s].dirty = {} THEN invalidateSpriteLocked(s)
         ELSE UNCHANGED <<spriteLocked, spriteQueue>>
      /\ UNCHANGED <<spriteRef, updates, updatePhase, screen, unlucky>>
  BY DEF Set
<1>2. /\ sprite \in [Sprite -> SpriteState] /\ screen \in [Sprite -> ScreenState]
      /\ sprite[s] \in SpriteState /\ screen[s] \in ScreenState
      /\ spriteLocked \in Locked /\ spriteQueue \in Seq(Message)
  BY DEF SInv, STypes
<1>3. /\ st \in SpriteState /\ st.dirty = sprite[s].dirty \cup dirty
      /\ SameSurface(st, sprite[s])
  BY <1>2 DEF SpriteState, SameSurface
<1>4. Newer(st, sprite[s])
  OBVIOUS
<1> HIDE DEF st
<1>5. /\ sprite' \in [Sprite -> SpriteState] /\ sprite'[s] = st
      /\ \A t \in Sprite \ {s} : sprite'[t] = sprite[t]
  BY <1>1, <1>2, <1>3
<1>6. /\ spriteLocked' \in Locked /\ spriteQueue' \in Seq(Message)
      /\ Sent(spriteQueue', spriteLocked')
      /\ Listed' = Listed \cup {s} /\ spriteLocked'.disposed = spriteLocked.disposed
  <2>1. CASE sprite[s].dirty = {}
    BY <1>1, <1>2, <2>1, InvalidateSends DEF SInv
  <2>2. CASE sprite[s].dirty # {}
    <3>1. s \in Listed
      BY <2>2 DEF SInv, DirtyListed
    <3> QED BY <1>1, <1>2, <2>2, <3>1 DEF SInv, Listed
  <2> QED BY <2>1, <2>2
<1>7. STypes'
  BY <1>1, <1>5, <1>6 DEF SInv, STypes
<1>8. DirtyListed'
  BY <1>5, <1>6 DEF SInv, DirtyListed
<1>9. spriteLocked.disposed \subseteq Sprite \ {s}
  BY <1>1, <1>2 DEF SInv, DisposedGone, Locked
<1>10. DisposedGone'
  BY <1>1, <1>5, <1>6, <1>9 DEF SInv, DisposedGone
<1>11. SurfacesRecorded'
  BY <1>1, <1>3, <1>5, <1>6 DEF SInv, SurfacesRecorded, Recorded, SameSurface
<1>12. ASSUME NEW t \in Sprite
       PROVE  ScreenOK(t)'
  <2>1. CASE t = s
    <3>1. SurfaceOK(st) /\ InWork(s)' = InWork(s)
      BY <1>1, <1>3 DEF SInv, ScreenOK, SurfaceOK, SameSurface, InWork
    <3>2. CASE InWork(s)
      <4>1. updates[s] \in SpriteState /\ Newer(sprite[s], updates[s])
        BY <3>2 DEF SInv, STypes, ScreenOK, InWork
      <4>2. Newer(st, updates[s])
        BY <1>2, <1>3, <1>4, <4>1, NewerStill
      <4> QED BY <1>1, <1>3, <1>5, <2>1, <3>1, <3>2, <4>2, ScreenPrimes
              DEF SInv, ScreenOK, SameSurface
    <3>3. CASE ~InWork(s)
      <4>1. s \notin unlucky => Follows(st, st.dirty, screen[s])
        <5>1. s \notin unlucky => Follows(sprite[s], sprite[s].dirty, screen[s])
          BY <3>3 DEF SInv, ScreenOK
        <5> QED BY <1>2, <1>3, <1>4, <5>1, NewerFollows
      <4> QED BY <1>1, <1>5, <2>1, <3>1, <3>3, <4>1, ScreenPrimes
    <3> QED BY <3>2, <3>3
  <2>2. CASE t # s
    BY <1>1, <1>5, <2>2, ScreenKept DEF SInv
  <2> QED BY <2>1, <2>2
<1> QED BY <1>6, <1>7, <1>8, <1>10, <1>11, <1>12, Primes DEF SInv

\* What setIcon makes of a state: an icon comes with its hot spot, and without
\* one the hot spot stays.
LEMMA setIconKeepsSInv ==
  ASSUME SInv, NEW s \in Sprite, NEW icon \in Icon, setIcon(s, icon)
  PROVE  SInv'
<1>1. sprite[s] \in SpriteState
  BY DEF SInv, STypes
<1>2. CASE icon # 0
  <2> DEFINE new == [sprite[s] EXCEPT !.icon = icon, !.hotspot = HotSpot(icon)]
             dirty == IF sprite[s].hotspot = HotSpot(icon) THEN {"bitmap"}
                                                           ELSE {"bitmap", "hotspot"}
  <2>1. Set(s, new, dirty)
    BY <1>2 DEF setIcon
  <2>2. HotSpot(icon) \in {0, 1}
    BY DEF HotSpot
  <2>3. new \in SpriteState /\ new.dirty = sprite[s].dirty /\ SameSurface(new, sprite[s])
    BY <1>1, <2>2 DEF SpriteState, SameSurface
  <2>4. dirty \in SUBSET Dirty
    BY DEF Dirty
  <2>5. Newer([new EXCEPT !.dirty = @ \cup dirty], sprite[s])
    BY <1>1 DEF SpriteState, Newer
  <2> HIDE DEF new, dirty
  <2> QED BY <2>1, <2>3, <2>4, <2>5, SetKeepsSInv
<1>3. CASE icon = 0
  <2> DEFINE new == [sprite[s] EXCEPT !.icon = 0]
             dirty == {"bitmap", "hotspot"}
  <2>1. Set(s, new, dirty)
    BY <1>3 DEF setIcon
  <2>2. new \in SpriteState /\ new.dirty = sprite[s].dirty /\ SameSurface(new, sprite[s])
    BY <1>1 DEF SpriteState, SameSurface, Icon
  <2>3. dirty \in SUBSET Dirty
    BY DEF Dirty
  <2>4. Newer([new EXCEPT !.dirty = @ \cup dirty], sprite[s])
    BY <1>1 DEF SpriteState, Newer
  <2> HIDE DEF new, dirty
  <2> QED BY <2>1, <2>2, <2>3, <2>4, SetKeepsSInv
<1> QED BY <1>2, <1>3

LEMMA setVisibleKeepsSInv ==
  ASSUME SInv, NEW s \in Sprite, setVisible(s)
  PROVE  SInv'
<1> DEFINE new == [sprite[s] EXCEPT !.visible = ~@]
           dirty == {"visibility"}
<1>1. Set(s, new, dirty) /\ sprite[s] \in SpriteState
  BY DEF setVisible, SInv, STypes
<1>2. new \in SpriteState /\ new.dirty = sprite[s].dirty /\ SameSurface(new, sprite[s])
  BY <1>1 DEF SpriteState, SameSurface
<1>3. dirty \in SUBSET Dirty
  BY DEF Dirty
<1>4. Newer([new EXCEPT !.dirty = @ \cup dirty], sprite[s])
  BY <1>1 DEF SpriteState, Newer
<1> HIDE DEF new, dirty
<1> QED BY <1>1, <1>2, <1>3, <1>4, SetKeepsSInv

LEMMA setAlphaKeepsSInv ==
  ASSUME SInv, NEW s \in Sprite, setAlpha(s)
  PROVE  SInv'
<1> DEFINE new == [sprite[s] EXCEPT !.alpha = 1 - @]
           dirty == {"alpha"}
<1>1. Set(s, new, dirty) /\ sprite[s] \in SpriteState
  BY DEF setAlpha, SInv, STypes
<1>2. new \in SpriteState /\ new.dirty = sprite[s].dirty /\ SameSurface(new, sprite[s])
  BY <1>1 DEF SpriteState, SameSurface
<1>3. dirty \in SUBSET Dirty
  BY DEF Dirty
<1>4. Newer([new EXCEPT !.dirty = @ \cup dirty], sprite[s])
  BY <1>1 DEF SpriteState, Newer
<1> HIDE DEF new, dirty
<1> QED BY <1>1, <1>2, <1>3, <1>4, SetKeepsSInv

LEMMA setAttributeKeepsSInv ==
  ASSUME SInv, NEW s \in Sprite, NEW a \in Attribute, setAttribute(s, a)
  PROVE  SInv'
<1> DEFINE new == [sprite[s] EXCEPT !.attr[a] = 1 - @]
           dirty == {a}
<1>1. Set(s, new, dirty) /\ sprite[s] \in SpriteState
  BY DEF setAttribute, SInv, STypes
<1>2. new \in SpriteState /\ new.dirty = sprite[s].dirty /\ SameSurface(new, sprite[s])
  BY <1>1 DEF SpriteState, SameSurface
<1>3. dirty \in SUBSET Dirty
  BY DEF Dirty
<1>4. Newer([new EXCEPT !.dirty = @ \cup dirty], sprite[s])
  BY <1>1 DEF SpriteState, Newer
<1> HIDE DEF new, dirty
<1> QED BY <1>1, <1>2, <1>3, <1>4, SetKeepsSInv

-----------------------------------------------------------------------------
(* Sprites that go *)

\* The destructors of sprites that nobody holds any more, and that the looper
\* does not work on.
LEMMA DisposeKeepsSInv ==
  ASSUME SInv, NEW gone \in SUBSET Sprite, disposeSurfaceLocked(gone),
         spriteRef' \subseteq spriteRef, UNCHANGED <<screen, unlucky>>,
         \/ UNCHANGED <<updates, updatePhase>>
         \/ updatePhase = "clear" /\ updatePhase' = "idle" /\ updates' = << >>,
         gone \cap (spriteRef' \cup Listed \cup DOMAIN updates') = {}
  PROVE  SInv'
<1> DEFINE owned == {s \in gone : sprite[s].control}
<1>1. /\ spriteLocked' = [spriteLocked EXCEPT !.disposed = @ \cup owned]
      /\ spriteQueue' = IF owned # {} /\ spriteLocked.disposed = {}
                        THEN Append(spriteQueue, "dispose") ELSE spriteQueue
      /\ sprite' = [s \in Sprite |-> IF s \in gone THEN Born ELSE sprite[s]]
  BY DEF disposeSurfaceLocked
<1>2. /\ sprite \in [Sprite -> SpriteState] /\ screen \in [Sprite -> ScreenState]
      /\ spriteLocked \in Locked /\ spriteQueue \in Seq(Message)
      /\ Sent(spriteQueue, spriteLocked)
  BY DEF SInv, STypes
<1>3. /\ sprite' \in [Sprite -> SpriteState]
      /\ \A s \in gone : sprite'[s] = Born
      /\ \A s \in Sprite \ gone : sprite'[s] = sprite[s]
  BY <1>1, <1>2, BornIsState
<1>4. owned \subseteq Sprite
  OBVIOUS
<1>5. /\ spriteLocked' \in Locked
      /\ spriteLocked'.nesting = spriteLocked.nesting
      /\ spriteLocked'.deferred = spriteLocked.deferred
      /\ spriteLocked'.invalidated = spriteLocked.invalidated
      /\ spriteLocked'.disposed = spriteLocked.disposed \cup owned
  BY <1>1, <1>2, <1>4 DEF Locked
<1>6. /\ spriteQueue' \in Seq(Message)
      /\ owned # {} /\ spriteLocked.disposed = {} => Has(spriteQueue', "dispose")
      /\ \A m \in Message : Has(spriteQueue, m) => Has(spriteQueue', m)
  BY <1>1, <1>2, SendHas DEF Message
<1>7. Sent(spriteQueue', spriteLocked')
  BY <1>2, <1>5, <1>6 DEF Sent, Message
<1>8. Listed' = Listed
  BY <1>5 DEF Listed
<1>9. DOMAIN << >> = {}
  OBVIOUS
<1>10. STypes'
  <2>1. /\ DOMAIN updates' \subseteq Sprite
        /\ \A s \in DOMAIN updates' : updates'[s] \in SpriteState
        /\ updatePhase' \in {"idle", "work", "write", "clear"}
        /\ updatePhase' = "idle" => DOMAIN updates' = {}
    BY <1>9 DEF SInv, STypes
  <2> QED BY <1>2, <1>3, <1>5, <1>6, <2>1 DEF SInv, STypes
<1>11. Born.dirty = {} /\ ~Born.control
  BY DEF Born
<1>12. DirtyListed'
  BY <1>3, <1>8, <1>11 DEF SInv, DirtyListed
<1>13. /\ DOMAIN updates' \subseteq DOMAIN updates
       /\ \A s \in Sprite : /\ InWork(s)' <=> InWork(s)
                            /\ InWork(s) => s \notin gone
  BY <1>9 DEF InWork
<1>14. ASSUME NEW s \in Sprite
       PROVE  Recorded(s)' = IF s \in gone THEN Born ELSE Recorded(s)
  BY <1>3, <1>9, <1>13 DEF Recorded, InWork
<1>15. \A s \in owned : Recorded(s) = sprite[s] /\ screen[s] # NoScreen
  <2> TAKE s \in owned
  <2>1. Recorded(s) = sprite[s]
    BY <1>13 DEF Recorded, InWork
  <2>2. sprite[s].size # 0 /\ screen[s].size = sprite[s].size
    BY <2>1 DEF SInv, ScreenOK, SurfaceOK, SurfacesRecorded
  <2> QED BY <2>1, <2>2, NoScreenIsScreen
<1>16. DisposedGone'
  <2>1. spriteLocked.disposed \subseteq Sprite
    BY <1>2 DEF Locked
  <2>2. ASSUME NEW s \in spriteLocked'.disposed
        PROVE  /\ s \notin spriteRef' \cup Listed' \cup DOMAIN updates'
               /\ ~sprite'[s].control /\ screen'[s] # NoScreen
    <3>1. CASE s \in owned
      BY <1>3, <1>8, <1>11, <1>15, <3>1
    <3>2. CASE s \in spriteLocked.disposed
      BY <1>3, <1>8, <1>11, <1>13, <2>1, <3>2 DEF SInv, DisposedGone
    <3> QED BY <1>5, <3>1, <3>2
  <2> QED BY <2>2 DEF DisposedGone
<1>17. SurfacesRecorded'
  <2>1. ASSUME NEW s \in Sprite
        PROVE  IF Recorded(s)'.control
               THEN /\ screen'[s].size = Recorded(s)'.size
                    /\ screen'[s].visible = Recorded(s)'.shown
               ELSE screen'[s] = NoScreen \/ s \in spriteLocked'.disposed
    <3>1. CASE s \in owned
      BY <1>5, <1>11, <1>14, <3>1
    <3>2. CASE s \in gone \ owned
      <4>1. Recorded(s) = sprite[s]
        BY <1>13, <3>2 DEF Recorded, InWork
      <4> QED BY <1>5, <1>11, <1>14, <3>2, <4>1 DEF SInv, SurfacesRecorded
    <3>3. CASE s \notin gone
      BY <1>5, <1>14, <3>3 DEF SInv, SurfacesRecorded
    <3> QED BY <3>1, <3>2, <3>3
  <2> QED BY <2>1 DEF SurfacesRecorded
<1>18. ASSUME NEW s \in Sprite
       PROVE  ScreenOK(s)'
  <2>1. CASE s \in gone
    <3>1. SurfaceOK(Born) /\ Follows(Born, {}, screen[s])
      BY <1>2, BornFollows
    <3> QED BY <1>3, <1>11, <1>13, <2>1, <3>1, ScreenPrimes
  <2>2. CASE s \notin gone
    <3>1. CASE UNCHANGED <<updates, updatePhase>>
      BY <1>3, <2>2, <3>1, ScreenKept DEF SInv
    <3>2. CASE updatePhase = "clear"
      <4>1. ~InWork(s) /\ ~InWork(s)'
        BY <1>13, <3>2 DEF InWork
      <4> QED BY <1>3, <2>2, <4>1, ScreenPrimes DEF SInv, ScreenOK
    <3> QED BY <3>1, <3>2
  <2> QED BY <2>1, <2>2
<1> QED BY <1>7, <1>10, <1>12, <1>16, <1>17, <1>18, Primes DEF SInv

LEMMA ReleaseSpriteKeepsSInv ==
  ASSUME SInv, NEW s \in Sprite, ReleaseSprite(s)
  PROVE  SInv'
<1> DEFINE gone == IF s \notin Listed \cup DOMAIN updates THEN {s} ELSE {}
<1>1. /\ spriteRef' = spriteRef \ {s} /\ disposeSurfaceLocked(gone)
      /\ UNCHANGED <<updates, updatePhase, screen, unlucky>>
  BY DEF ReleaseSprite, Listed
<1>2. gone \in SUBSET Sprite /\ gone \cap (spriteRef' \cup Listed \cup DOMAIN updates') = {}
  BY <1>1
<1> HIDE DEF gone
<1> QED BY <1>1, <1>2, DisposeKeepsSInv

LEMMA ClearUpdatesKeepsSInv ==
  ASSUME SInv, ClearUpdates
  PROVE  SInv'
<1> DEFINE gone == {s \in DOMAIN updates : s \notin spriteRef \cup Listed}
<1>1. /\ updatePhase = "clear" /\ updatePhase' = "idle" /\ updates' = << >>
      /\ disposeSurfaceLocked(gone)
      /\ UNCHANGED <<spriteRef, screen, unlucky>>
  BY DEF ClearUpdates, Listed
<1>2. gone \in SUBSET Sprite /\ gone \cap (spriteRef' \cup Listed \cup DOMAIN updates') = {}
  BY <1>1 DEF SInv, STypes
<1> HIDE DEF gone
<1> QED BY <1>1, <1>2, DisposeKeepsSInv

LEMMA doDisposeSurfacesKeepsSInv ==
  ASSUME SInv, doDisposeSurfaces
  PROVE  SInv'
<1>1. /\ updatePhase = "idle" /\ spriteQueue # <<>> /\ Head(spriteQueue) = "dispose"
      /\ screen' = [s \in Sprite |->
           IF s \in spriteLocked.disposed THEN NoScreen ELSE screen[s]]
      /\ spriteLocked' = [spriteLocked EXCEPT !.disposed = {}]
      /\ spriteQueue' = Tail(spriteQueue)
      /\ UNCHANGED <<sprite, spriteRef, updates, updatePhase, unlucky>>
  BY DEF doDisposeSurfaces
<1>2. /\ screen \in [Sprite -> ScreenState] /\ spriteLocked \in Locked
      /\ spriteQueue \in Seq(Message) /\ Sent(spriteQueue, spriteLocked)
  BY DEF SInv, STypes
<1>3. /\ screen' \in [Sprite -> ScreenState]
      /\ \A s \in spriteLocked.disposed : s \in Sprite => screen'[s] = NoScreen
      /\ \A s \in Sprite \ spriteLocked.disposed : screen'[s] = screen[s]
  BY <1>1, <1>2, NoScreenIsScreen
<1>4. /\ spriteLocked' \in Locked
      /\ spriteLocked'.nesting = spriteLocked.nesting
      /\ spriteLocked'.deferred = spriteLocked.deferred
      /\ spriteLocked'.invalidated = spriteLocked.invalidated
      /\ spriteLocked'.disposed = {}
  BY <1>1, <1>2 DEF Locked
<1>5. /\ spriteQueue' \in Seq(Message)
      /\ Has(spriteQueue, "update") => Has(spriteQueue', "update")
  BY <1>1, <1>2, ReceiveHas DEF Message
<1>6. Sent(spriteQueue', spriteLocked')
  BY <1>2, <1>4, <1>5 DEF Sent
<1>7. Listed' = Listed
  BY <1>4 DEF Listed
<1>8. STypes'
  BY <1>1, <1>3, <1>4, <1>5 DEF SInv, STypes
<1>9. DirtyListed' /\ DisposedGone'
  BY <1>1, <1>4, <1>7 DEF SInv, DirtyListed, DisposedGone
<1>10. \A s \in spriteLocked.disposed : ~sprite[s].control
  BY DEF SInv, DisposedGone
<1>11. \A s \in Sprite : Recorded(s)' = sprite[s] /\ Recorded(s) = sprite[s]
  BY <1>1 DEF Recorded
<1>12. SurfacesRecorded'
  <2>1. ASSUME NEW s \in Sprite
        PROVE  IF Recorded(s)'.control
               THEN /\ screen'[s].size = Recorded(s)'.size
                    /\ screen'[s].visible = Recorded(s)'.shown
               ELSE screen'[s] = NoScreen \/ s \in spriteLocked'.disposed
    <3>1. CASE s \in spriteLocked.disposed
      BY <1>3, <1>10, <1>11, <3>1
    <3>2. CASE s \notin spriteLocked.disposed
      BY <1>3, <1>11, <3>2 DEF SInv, SurfacesRecorded
    <3> QED BY <3>1, <3>2
  <2> QED BY <2>1 DEF SurfacesRecorded
<1>13. ASSUME NEW s \in Sprite
       PROVE  ScreenOK(s)'
  <2>1. CASE s \in spriteLocked.disposed
    <3>1. ~InWork(s) /\ ~InWork(s)' /\ ~sprite[s].control /\ ~sprite[s].shown
      BY <1>1, <1>10, <2>1 DEF InWork, SInv, ScreenOK, SurfaceOK
    <3>2. s \notin unlucky => Follows(sprite[s], sprite[s].dirty, screen'[s])
      BY <3>1 DEF SInv, ScreenOK, Follows
    <3> QED BY <1>1, <3>1, <3>2, ScreenPrimes DEF SInv, ScreenOK
  <2>2. CASE s \notin spriteLocked.disposed
    BY <1>1, <1>3, <2>2, ScreenKept DEF SInv
  <2> QED BY <2>1, <2>2
<1> QED BY <1>6, <1>8, <1>9, <1>12, <1>13, Primes DEF SInv

-----------------------------------------------------------------------------
(* The looper *)

LEMMA CollectKeepsSInv ==
  ASSUME SInv, Collect
  PROVE  SInv'
<1> DEFINE Clean(st) == [st EXCEPT !.dirty = {}]
<1>1. /\ updatePhase = "idle" /\ spriteQueue # <<>> /\ Head(spriteQueue) = "update"
      /\ updates' = [s \in Listed |-> sprite[s]]
      /\ sprite' = [s \in Sprite |-> IF s \in Listed THEN Clean(sprite[s]) ELSE sprite[s]]
      /\ spriteLocked' = [spriteLocked EXCEPT !.invalidated = <<>>]
      /\ spriteQueue' = Tail(spriteQueue)
      /\ updatePhase' = "work"
      /\ UNCHANGED <<spriteRef, screen, unlucky>>
  BY DEF Collect, Listed
<1>2. /\ sprite \in [Sprite -> SpriteState] /\ screen \in [Sprite -> ScreenState]
      /\ spriteLocked \in Locked /\ spriteQueue \in Seq(Message)
      /\ Sent(spriteQueue, spriteLocked)
  BY DEF SInv, STypes
<1>3. ASSUME NEW s \in Sprite
      PROVE  /\ Clean(sprite[s]) \in SpriteState /\ Clean(sprite[s]).dirty = {}
             /\ SameSurface(Clean(sprite[s]), sprite[s])
             /\ Newer(Clean(sprite[s]), sprite[s])
  <2>1. sprite[s] \in SpriteState
    BY <1>2
  <2> QED BY <2>1 DEF SpriteState, SameSurface, Newer
<1> HIDE DEF Clean
<1>4. Listed \subseteq Sprite
  <2>1. spriteLocked.invalidated \in Seq(Sprite)
    BY <1>2 DEF Locked
  <2> QED BY <2>1, ListFacts DEF Listed
<1>5. /\ spriteLocked' \in Locked
      /\ spriteLocked'.nesting = spriteLocked.nesting
      /\ spriteLocked'.deferred = spriteLocked.deferred
      /\ spriteLocked'.invalidated = <<>>
      /\ spriteLocked'.disposed = spriteLocked.disposed
  BY <1>1, <1>2, EmptySeq DEF Locked
<1>6. Listed' = {}
  BY <1>5, NothingListed, Primes
<1>7. /\ spriteQueue' \in Seq(Message)
      /\ Has(spriteQueue, "dispose") => Has(spriteQueue', "dispose")
  BY <1>1, <1>2, ReceiveHas DEF Message
<1>8. Sent(spriteQueue', spriteLocked')
  BY <1>2, <1>5, <1>7 DEF Sent
<1>9. /\ sprite' \in [Sprite -> SpriteState]
      /\ \A s \in Listed : sprite'[s] = Clean(sprite[s])
      /\ \A s \in Sprite \ Listed : sprite'[s] = sprite[s]
      /\ DOMAIN updates' = Listed
      /\ \A s \in Listed : updates'[s] = sprite[s]
  BY <1>1, <1>2, <1>3, <1>4
<1>10. STypes'
  BY <1>1, <1>2, <1>4, <1>5, <1>7, <1>9 DEF SInv, STypes
<1>11. DirtyListed'
  BY <1>3, <1>9 DEF SInv, DirtyListed
<1>12. DOMAIN updates = {}
  BY <1>1 DEF SInv, STypes
<1>13. DisposedGone'
  <2>1. spriteLocked.disposed \subseteq Sprite
    BY <1>2 DEF Locked
  <2> QED BY <1>1, <1>5, <1>6, <1>9, <2>1 DEF SInv, DisposedGone
<1>14. SurfacesRecorded'
  <2>1. \A s \in Sprite : Recorded(s)' = sprite'[s] /\ Recorded(s) = sprite[s]
    BY <1>1 DEF Recorded
  <2>2. \A s \in Sprite : SameSurface(sprite'[s], sprite[s])
    BY <1>3, <1>9 DEF SameSurface
  <2> QED BY <1>1, <1>5, <2>1, <2>2 DEF SInv, SurfacesRecorded, SameSurface
<1>15. ASSUME NEW s \in Sprite
       PROVE  ScreenOK(s)'
  <2>1. /\ ~InWork(s) /\ (InWork(s)' <=> s \in Listed)
    BY <1>1, <1>9 DEF InWork
  <2>2. /\ SurfaceOK(sprite[s])
        /\ s \notin unlucky => Follows(sprite[s], sprite[s].dirty, screen[s])
    BY <2>1 DEF SInv, ScreenOK
  <2>3. CASE s \in Listed
    <3>1. SurfaceOK(sprite'[s])
      BY <1>3, <1>9, <2>2, <2>3 DEF SurfaceOK, SameSurface
    <3>2. Newer(sprite'[s], updates'[s]) /\ SameSurface(sprite'[s], updates'[s])
      BY <1>3, <1>9, <2>3
    <3> QED BY <1>1, <1>9, <2>1, <2>2, <2>3, <3>1, <3>2, ScreenPrimes
  <2>4. CASE s \notin Listed
    BY <1>1, <1>9, <2>1, <2>2, <2>4, ScreenPrimes
  <2> QED BY <2>3, <2>4
<1> QED BY <1>8, <1>10, <1>11, <1>13, <1>14, <1>15, Primes DEF SInv

LEMMA WriteBackKeepsSInv ==
  ASSUME SInv, WriteBack
  PROVE  SInv'
<1> DEFINE D == DOMAIN updates
           Written(s) == [sprite[s] EXCEPT !.control = updates[s].control,
                                           !.size = updates[s].size,
                                           !.drawn = updates[s].drawn,
                                           !.shown = updates[s].shown]
<1>1. /\ updatePhase = "write" /\ updatePhase' = "clear"
      /\ sprite' = [s \in Sprite |-> IF s \in D THEN Written(s) ELSE sprite[s]]
      /\ UNCHANGED <<spriteRef, spriteLocked, spriteQueue, updates, screen, unlucky>>
  BY DEF WriteBack
<1>2. /\ sprite \in [Sprite -> SpriteState] /\ screen \in [Sprite -> ScreenState]
      /\ D \subseteq Sprite /\ \A s \in D : updates[s] \in SpriteState
  BY DEF SInv, STypes
<1>3. ASSUME NEW s \in D
      PROVE  /\ Written(s) \in SpriteState /\ Written(s).dirty = sprite[s].dirty
             /\ SameSurface(Written(s), updates[s])
             /\ Newer(sprite[s], updates[s]) => Newer(Written(s), updates[s])
  <2>1. sprite[s] \in SpriteState /\ updates[s] \in SpriteState
    BY <1>2
  <2>2. /\ Written(s) \in SpriteState /\ SameSurface(Written(s), updates[s])
        /\ Written(s).dirty = sprite[s].dirty /\ Written(s).icon = sprite[s].icon
        /\ Written(s).visible = sprite[s].visible /\ Written(s).alpha = sprite[s].alpha
        /\ Written(s).attr = sprite[s].attr /\ Written(s).hotspot = sprite[s].hotspot
    BY <2>1 DEF SpriteState, SameSurface
  <2> QED BY <2>2 DEF Newer
<1> HIDE DEF Written
<1>4. /\ sprite' \in [Sprite -> SpriteState]
      /\ \A s \in D : sprite'[s] = Written(s)
      /\ \A s \in Sprite \ D : sprite'[s] = sprite[s]
  BY <1>1, <1>2, <1>3
<1>5. STypes'
  BY <1>1, <1>4 DEF SInv, STypes
<1>6. Sent(spriteQueue, spriteLocked)'
  BY <1>1, Primes DEF SInv
<1>7. Listed' = Listed
  BY <1>1 DEF Listed
<1>8. DirtyListed'
  BY <1>3, <1>4, <1>7 DEF SInv, DirtyListed
<1>9. DisposedGone'
  <2>1. spriteLocked.disposed \subseteq Sprite
    BY DEF SInv, STypes, Locked
  <2> QED BY <1>1, <1>4, <1>7, <2>1 DEF SInv, DisposedGone
<1>10. SurfacesRecorded'
  <2>1. ASSUME NEW s \in Sprite
        PROVE  Recorded(s)' = sprite'[s] /\ SameSurface(sprite'[s], Recorded(s))
    BY <1>1, <1>3, <1>4 DEF Recorded, SameSurface
  <2> QED BY <1>1, <2>1 DEF SInv, SurfacesRecorded, SameSurface
<1>11. ASSUME NEW s \in Sprite
       PROVE  ScreenOK(s)'
  <2>1. ~InWork(s)' /\ (InWork(s) <=> s \in D)
    BY <1>1 DEF InWork
  <2>2. CASE s \in D
    <3>1. SurfaceOK(updates[s]) /\ Newer(Written(s), updates[s])
      BY <1>3, <2>1, <2>2 DEF SInv, ScreenOK
    <3>2. SurfaceOK(Written(s))
      BY <1>3, <2>2, <3>1 DEF SurfaceOK, SameSurface
    <3>3. s \notin unlucky => Follows(updates[s], {}, screen[s])
      BY <1>1, <2>1, <2>2 DEF SInv, ScreenOK
    <3>4. s \notin unlucky => Follows(Written(s), Written(s).dirty, screen[s])
      <4>1. {} \in SUBSET Written(s).dirty
        OBVIOUS
      <4> QED BY <1>2, <1>3, <2>2, <3>1, <3>3, <4>1, NewerFollows
    <3> QED BY <1>1, <1>4, <2>1, <2>2, <3>2, <3>4, ScreenPrimes
  <2>3. CASE s \notin D
    BY <1>1, <1>4, <2>1, <2>3, ScreenPrimes DEF SInv, ScreenOK
  <2> QED BY <2>2, <2>3
<1> QED BY <1>5, <1>6, <1>8, <1>9, <1>10, <1>11 DEF SInv

-----------------------------------------------------------------------------
(* The work on one surface *)

\* What the passes leave alone.
SameState(v, u) ==
  /\ v.icon = u.icon /\ v.hotspot = u.hotspot /\ v.visible = u.visible
  /\ v.alpha = u.alpha /\ v.attr = u.attr /\ v.dirty = u.dirty

Sized(u, fail) == Resized(Created(u, fail), fail)
Drew(u, fail) == Redrawn(Undrawn(Sized(u, fail)), fail)
Done(u, fail) == Displayed(Drew(u, fail), fail)
NewSurface(u, fail, surf) == Surface(u, Sized(u, fail), Drew(u, fail), fail, surf)

LEMMA CreatedFacts ==
  ASSUME NEW u \in SpriteState, SurfaceOK(u), NEW fail
  PROVE  /\ Created(u, fail) \in SpriteState /\ SameState(Created(u, fail), u)
         /\ SurfaceOK(Created(u, fail))
         /\ u.control => Created(u, fail) = u
         /\ Created(u, fail).control /\ ~u.control =>
              ~Created(u, fail).drawn /\ ~Created(u, fail).shown
         /\ ~Created(u, fail).control => Created(u, fail) = u
         /\ fail = {} /\ wantSurfaceVisible(u) => Created(u, fail).control
<1> DEFINE new == [u EXCEPT !.control = TRUE, !.size = u.icon, !.drawn = FALSE,
                            !.shown = FALSE]
<1>1. CASE ~u.control /\ wantSurfaceVisible(u) /\ "create" \notin fail
  <2>1. Created(u, fail) = new
    BY <1>1 DEF Created
  <2>2. /\ new \in SpriteState /\ SameState(new, u)
        /\ new.control /\ new.size = u.icon /\ ~new.drawn /\ ~new.shown
    BY DEF SpriteState, SameState
  <2>3. u.icon # 0
    BY <1>1 DEF wantSurfaceVisible
  <2> HIDE DEF new
  <2> QED BY <1>1, <2>1, <2>2, <2>3 DEF SurfaceOK
<1>2. CASE ~(~u.control /\ wantSurfaceVisible(u) /\ "create" \notin fail)
  <2>1. Created(u, fail) = u
    BY <1>2 DEF Created
  <2> QED BY <1>2, <2>1 DEF SameState
<1> QED BY <1>1, <1>2

LEMMA ResizedFacts ==
  ASSUME NEW c \in SpriteState, SurfaceOK(c), NEW fail
  PROVE  /\ Resized(c, fail) \in SpriteState /\ SameState(Resized(c, fail), c)
         /\ SurfaceOK(Resized(c, fail))
         /\ Resized(c, fail).control = c.control
         /\ Resized(c, fail).drawn => Resized(c, fail) = c
         /\ Resized(c, fail).shown => c.shown
         /\ ~c.control => Resized(c, fail) = c
         /\ fail = {} /\ c.control /\ wantSurfaceVisible(c) =>
              Resized(c, fail).size >= c.icon
<1> DEFINE new == [c EXCEPT !.size = c.icon, !.drawn = FALSE,
                            !.shown = @ /\ "hide" \in fail]
<1>1. CASE NeedsResize(c) /\ "size" \notin fail
  <2>1. Resized(c, fail) = new
    BY <1>1 DEF Resized
  <2>2. (c.shown /\ "hide" \in fail) \in BOOLEAN
    OBVIOUS
  <2>3. /\ new \in SpriteState /\ SameState(new, c) /\ new.control = c.control
        /\ new.size = c.icon /\ ~new.drawn
    BY <2>2 DEF SpriteState, SameState
  <2>4. new.shown = (c.shown /\ "hide" \in fail)
    BY DEF SpriteState
  <2>5. c.icon \in Nat /\ c.icon # 0 /\ c.control
    BY <1>1 DEF NeedsResize, wantSurfaceVisible, SpriteState, Icon
  <2>6. new.shown => c.shown
    BY <2>4
  <2>7. new.control
    BY <2>3, <2>5
  <2>8. new.size >= c.icon /\ new.size # 0
    BY <2>3, <2>5
  <2> HIDE DEF new
  <2>9. SurfaceOK(new)
    BY <2>7, <2>8 DEF SurfaceOK
  <2> QED BY <2>1, <2>3, <2>5, <2>6, <2>8, <2>9
<1>2. CASE ~(NeedsResize(c) /\ "size" \notin fail)
  <2>1. Resized(c, fail) = c
    BY <1>2 DEF Resized
  <2>2. c.size \in Nat /\ c.icon \in Nat
    BY DEF SpriteState, Icon
  <2> QED BY <1>2, <2>1, <2>2 DEF SameState, NeedsResize
<1> QED BY <1>1, <1>2

LEMMA UndrawnFacts ==
  ASSUME NEW z \in SpriteState, SurfaceOK(z)
  PROVE  /\ Undrawn(z) \in SpriteState /\ SameState(Undrawn(z), z)
         /\ SurfaceOK(Undrawn(z))
         /\ Undrawn(z).control = z.control /\ Undrawn(z).size = z.size
         /\ Undrawn(z).shown = z.shown
         /\ Undrawn(z).drawn <=> z.drawn /\ "bitmap" \notin z.dirty
<1> DEFINE new == [z EXCEPT !.drawn = FALSE]
<1>1. CASE "bitmap" \in z.dirty
  <2>1. Undrawn(z) = new
    BY <1>1 DEF Undrawn
  <2>2. /\ new \in SpriteState /\ SameState(new, z) /\ new.control = z.control
        /\ new.size = z.size /\ new.shown = z.shown /\ ~new.drawn
    BY DEF SpriteState, SameState
  <2> HIDE DEF new
  <2> QED BY <1>1, <2>1, <2>2 DEF SurfaceOK
<1>2. CASE "bitmap" \notin z.dirty
  <2>1. Undrawn(z) = z
    BY <1>2 DEF Undrawn
  <2> QED BY <1>2, <2>1 DEF SameState
<1> QED BY <1>1, <1>2

LEMMA RedrawnFacts ==
  ASSUME NEW n \in SpriteState, SurfaceOK(n), NEW fail
  PROVE  /\ Redrawn(n, fail) \in SpriteState /\ SameState(Redrawn(n, fail), n)
         /\ SurfaceOK(Redrawn(n, fail))
         /\ Redrawn(n, fail).control = n.control /\ Redrawn(n, fail).size = n.size
         /\ Redrawn(n, fail).shown = n.shown
         /\ Redrawn(n, fail).drawn <=> n.drawn \/ (NeedsDraw(n) /\ "draw" \notin fail)
<1> DEFINE new == [n EXCEPT !.drawn = TRUE]
<1>1. CASE NeedsDraw(n) /\ "draw" \notin fail
  <2>1. Redrawn(n, fail) = new
    BY <1>1 DEF Redrawn
  <2>2. /\ new \in SpriteState /\ SameState(new, n) /\ new.control = n.control
        /\ new.size = n.size /\ new.shown = n.shown /\ new.drawn
    BY DEF SpriteState, SameState
  <2> HIDE DEF new
  <2> QED BY <1>1, <2>1, <2>2 DEF SurfaceOK
<1>2. CASE ~(NeedsDraw(n) /\ "draw" \notin fail)
  <2>1. Redrawn(n, fail) = n
    BY <1>2 DEF Redrawn
  <2> QED BY <1>2, <2>1 DEF SameState
<1> QED BY <1>1, <1>2

LEMMA DisplayedFacts ==
  ASSUME NEW d \in SpriteState, SurfaceOK(d), NEW fail
  PROVE  /\ Displayed(d, fail) \in SpriteState /\ SameState(Displayed(d, fail), d)
         /\ SurfaceOK(Displayed(d, fail))
         /\ Displayed(d, fail).control = d.control /\ Displayed(d, fail).size = d.size
         /\ Displayed(d, fail).drawn = d.drawn
         /\ fail = {} /\ d.control =>
              (Displayed(d, fail).shown <=> wantSurfaceVisible(d) /\ d.drawn)
<1> DEFINE shown == [d EXCEPT !.shown = TRUE]
           hidden == [d EXCEPT !.shown = FALSE]
           want == wantSurfaceVisible(d) /\ d.drawn
<1>1. /\ shown \in SpriteState /\ SameState(shown, d) /\ shown.control = d.control
      /\ shown.size = d.size /\ shown.drawn = d.drawn /\ shown.shown
  BY DEF SpriteState, SameState
<1>2. /\ hidden \in SpriteState /\ SameState(hidden, d) /\ hidden.control = d.control
      /\ hidden.size = d.size /\ hidden.drawn = d.drawn /\ ~hidden.shown
  BY DEF SpriteState, SameState
<1>3. SameState(d, d)
  BY DEF SameState
<1>4. \/ ~d.control /\ Displayed(d, fail) = d
      \/ d.control /\ want /\ ~d.shown /\ "show" \notin fail /\ Displayed(d, fail) = shown
      \/ d.control /\ ~want /\ d.shown /\ "hide" \notin fail /\ Displayed(d, fail) = hidden
      \/ d.control /\ Displayed(d, fail) = d /\ (fail = {} => (d.shown <=> want))
  BY DEF Displayed
<1> HIDE DEF shown, hidden
<1> QED BY <1>1, <1>2, <1>3, <1>4 DEF SurfaceOK

LEMMA WorkFacts ==
  \A u \in SpriteState : \A surf \in ScreenState : \A fail \in SUBSET Faults :
    SurfaceOK(u) /\ (u.control => surf.size = u.size /\ surf.visible = u.shown) =>
      /\ Done(u, fail) \in SpriteState /\ NewSurface(u, fail, surf) \in ScreenState
      /\ SurfaceOK(Done(u, fail)) /\ SameState(Done(u, fail), u)
      /\ Done(u, fail).control =>
           /\ NewSurface(u, fail, surf).size = Done(u, fail).size
           /\ NewSurface(u, fail, surf).visible = Done(u, fail).shown
      /\ ~Done(u, fail).control => ~u.control /\ NewSurface(u, fail, surf) = surf
      /\ fail = {} /\ Follows(u, u.dirty, surf) =>
           Follows(Done(u, fail), {}, NewSurface(u, fail, surf))
<1> SUFFICES ASSUME NEW u \in SpriteState, NEW surf \in ScreenState,
                    NEW fail \in SUBSET Faults, SurfaceOK(u),
                    u.control => surf.size = u.size /\ surf.visible = u.shown
             PROVE  /\ Done(u, fail) \in SpriteState
                    /\ NewSurface(u, fail, surf) \in ScreenState
                    /\ SurfaceOK(Done(u, fail)) /\ SameState(Done(u, fail), u)
                    /\ Done(u, fail).control =>
                         /\ NewSurface(u, fail, surf).size = Done(u, fail).size
                         /\ NewSurface(u, fail, surf).visible = Done(u, fail).shown
                    /\ ~Done(u, fail).control =>
                         ~u.control /\ NewSurface(u, fail, surf) = surf
                    /\ fail = {} /\ Follows(u, u.dirty, surf) =>
                         Follows(Done(u, fail), {}, NewSurface(u, fail, surf))
  OBVIOUS
<1> DEFINE c == Created(u, fail)
           z == Resized(c, fail)
           n == Undrawn(z)
           d == Redrawn(n, fail)
           w == Displayed(d, fail)
           new == Surface(u, z, d, fail, surf)
<1>1. /\ c \in SpriteState /\ SameState(c, u) /\ SurfaceOK(c)
      /\ u.control => c = u
      /\ c.control /\ ~u.control => ~c.drawn /\ ~c.shown
      /\ ~c.control => c = u
      /\ fail = {} /\ wantSurfaceVisible(u) => c.control
  BY CreatedFacts
<1> HIDE DEF c
<1>2. /\ z \in SpriteState /\ SameState(z, c) /\ SurfaceOK(z)
      /\ z.control = c.control
      /\ z.drawn => z = c
      /\ z.shown => c.shown
      /\ fail = {} /\ c.control /\ wantSurfaceVisible(c) => z.size >= c.icon
  BY <1>1, ResizedFacts
<1> HIDE DEF z
<1>3. /\ n \in SpriteState /\ SameState(n, z) /\ SurfaceOK(n)
      /\ n.control = z.control /\ n.size = z.size /\ n.shown = z.shown
      /\ n.drawn <=> z.drawn /\ "bitmap" \notin z.dirty
  BY <1>2, UndrawnFacts
<1>4. NeedsDraw(Undrawn(z)) = NeedsDraw(n)
  OBVIOUS
<1> HIDE DEF n
<1>5. /\ d \in SpriteState /\ SameState(d, n) /\ SurfaceOK(d)
      /\ d.control = n.control /\ d.size = n.size /\ d.shown = n.shown
      /\ d.drawn <=> n.drawn \/ (NeedsDraw(n) /\ "draw" \notin fail)
  BY <1>3, RedrawnFacts
<1> HIDE DEF d
<1>6. /\ w \in SpriteState /\ SameState(w, d) /\ SurfaceOK(w)
      /\ w.control = d.control /\ w.size = d.size /\ w.drawn = d.drawn
      /\ fail = {} /\ d.control => (w.shown <=> wantSurfaceVisible(d) /\ d.drawn)
  BY <1>5, DisplayedFacts
<1>7. Displayed(d, fail).shown = w.shown
  OBVIOUS
<1> HIDE DEF w
<1>8. /\ SameState(z, u) /\ SameState(n, u) /\ SameState(d, u) /\ SameState(w, u)
      /\ w.control = z.control /\ d.control = z.control /\ w.size = z.size
  BY <1>1, <1>2, <1>3, <1>5, <1>6 DEF SameState
<1>9. ~z.control => new = surf /\ ~u.control
  BY <1>1, <1>2 DEF Surface
<1>10. ASSUME z.control
       PROVE  /\ new \in ScreenState
              /\ new.size = z.size /\ new.visible = w.shown
              /\ new.content = IF NeedsDraw(n) /\ "draw" \notin fail THEN u.icon
                               ELSE IF z.size # u.size THEN 0 ELSE surf.content
              /\ new.alpha = IF Sends(d, "alpha") /\ "set" \notin fail
                             THEN u.alpha ELSE surf.alpha
              /\ \A a \in Attribute :
                   new.attr[a] = IF Sends(d, a) /\ "set" \notin fail
                                 THEN u.attr[a] ELSE surf.attr[a]
              /\ new.hotspot = IF Sends(d, "hotspot") /\ "set" \notin fail
                               THEN u.hotspot ELSE surf.hotspot
  <2> DEFINE content == IF NeedsDraw(n) /\ "draw" \notin fail THEN u.icon
                        ELSE IF z.size # u.size THEN 0 ELSE surf.content
             alpha == IF Sends(d, "alpha") /\ "set" \notin fail THEN u.alpha ELSE surf.alpha
             attr == [a \in Attribute |-> IF Sends(d, a) /\ "set" \notin fail
                                          THEN u.attr[a] ELSE surf.attr[a]]
             hotspot == IF Sends(d, "hotspot") /\ "set" \notin fail
                        THEN u.hotspot ELSE surf.hotspot
  <2>1. new = [size |-> z.size, content |-> content, visible |-> w.shown,
               alpha |-> alpha, attr |-> attr, hotspot |-> hotspot]
    BY <1>4, <1>7, <1>10 DEF Surface
  <2>2. z.size \in Icon /\ w.shown \in BOOLEAN
    BY <1>2, <1>6 DEF SpriteState
  <2>3. /\ u.icon \in Icon /\ surf.content \in Icon /\ 0 \in Icon
        /\ u.hotspot \in {0, 1} /\ surf.hotspot \in {0, 1}
        /\ u.alpha \in {0, 1} /\ surf.alpha \in {0, 1}
        /\ u.attr \in [Attribute -> {0, 1}] /\ surf.attr \in [Attribute -> {0, 1}]
    BY DEF SpriteState, ScreenState, Icon
  <2>4. content \in Icon /\ alpha \in {0, 1} /\ hotspot \in {0, 1}
    BY <2>3
  <2>5. attr \in [Attribute -> {0, 1}]
    BY <2>3
  <2>6. \A a \in Attribute : attr[a] = IF Sends(d, a) /\ "set" \notin fail
                                       THEN u.attr[a] ELSE surf.attr[a]
    OBVIOUS
  <2> HIDE DEF new, content, alpha, attr, hotspot
  <2>7. /\ new \in ScreenState /\ new.size = z.size /\ new.visible = w.shown
        /\ new.content = content /\ new.alpha = alpha /\ new.attr = attr
        /\ new.hotspot = hotspot
    BY <2>1, <2>2, <2>4, <2>5 DEF ScreenState
  <2> QED BY <2>6, <2>7 DEF content, alpha, hotspot
<1> HIDE DEF new
<1>11. ASSUME fail = {}, Follows(u, u.dirty, surf)
       PROVE  Follows(w, {}, new)
  <2>1. /\ wantSurfaceVisible(z) <=> wantSurfaceVisible(u)
        /\ wantSurfaceVisible(n) <=> wantSurfaceVisible(u)
        /\ wantSurfaceVisible(d) <=> wantSurfaceVisible(u)
        /\ wantSurfaceVisible(w) <=> wantSurfaceVisible(u)
        /\ wantSurfaceVisible(c) <=> wantSurfaceVisible(u)
    BY <1>1, <1>8 DEF SameState, wantSurfaceVisible
  <2>2. wantSurfaceVisible(u) => z.control /\ d.drawn
    <3>1. wantSurfaceVisible(u) => z.control
      BY <1>1, <1>2, <1>11
    <3>2. z.control /\ wantSurfaceVisible(u) => n.drawn \/ NeedsDraw(n)
      BY <1>3, <2>1 DEF NeedsDraw
    <3> QED BY <1>5, <1>11, <3>1, <3>2
  <2>3. w.shown <=> wantSurfaceVisible(w)
    <3>1. CASE z.control
      BY <1>6, <1>8, <1>11, <2>1, <2>2, <3>1
    <3>2. CASE ~z.control
      BY <1>6, <1>8, <2>1, <2>2, <3>2 DEF SurfaceOK
    <3> QED BY <3>1, <3>2
  <2>4. ASSUME w.shown
        PROVE  /\ new.alpha = w.alpha /\ new.hotspot = w.hotspot /\ w.drawn
               /\ \A a \in Attribute : new.attr[a] = w.attr[a]
    <3>1. z.control /\ wantSurfaceVisible(d) /\ d.drawn /\ w.drawn
      BY <1>6, <2>1, <2>2, <2>3, <2>4
    <3>2. d.shown => u.shown
      BY <1>1, <1>2, <1>3, <1>5 DEF SurfaceOK
    <3>3. \A bit : Sends(d, bit) <=> ~d.shown \/ bit \in u.dirty
      BY <1>8, <3>1 DEF Sends, SameState
    <3>4. "set" \notin fail
      BY <1>11
    <3>5. /\ u.shown /\ "alpha" \notin u.dirty => surf.alpha = u.alpha
          /\ u.shown => \A a \in Attribute : a \notin u.dirty => surf.attr[a] = u.attr[a]
          /\ u.shown /\ "hotspot" \notin u.dirty => surf.hotspot = u.hotspot
      BY <1>11 DEF Follows
    <3>6. new.alpha = u.alpha /\ new.hotspot = u.hotspot
      BY <1>10, <3>1, <3>2, <3>3, <3>4, <3>5
    <3>7. \A a \in Attribute : new.attr[a] = u.attr[a]
      BY <1>10, <3>1, <3>2, <3>3, <3>4, <3>5
    <3> QED BY <1>8, <3>1, <3>6, <3>7 DEF SameState
  <2>5. ASSUME w.control, w.drawn
        PROVE  new.content = w.icon /\ new.size >= w.icon
    <3>1. z.control
      BY <1>8, <2>5
    <3>2. CASE NeedsDraw(n)
      <4>1. wantSurfaceVisible(c) /\ c.control
        BY <1>2, <2>1, <3>1, <3>2 DEF NeedsDraw
      <4>2. z.size >= u.icon
        BY <1>1, <1>2, <1>11, <4>1 DEF SameState
      <4> QED BY <1>8, <1>10, <1>11, <3>1, <3>2, <4>2 DEF SameState
    <3>3. CASE ~NeedsDraw(n)
      <4>1. n.drawn /\ z.drawn /\ "bitmap" \notin u.dirty
        BY <1>3, <1>5, <1>6, <1>8, <2>5, <3>3 DEF SameState
      <4>2. z = u /\ u.control /\ u.drawn
        BY <1>1, <1>2, <3>1, <4>1
      <4>3. surf.content = u.icon /\ surf.size >= u.icon /\ surf.size = u.size
        BY <1>11, <4>1, <4>2 DEF Follows
      <4> QED BY <1>8, <1>10, <3>1, <3>3, <4>2, <4>3 DEF SameState
    <3> QED BY <3>2, <3>3
  <2> QED BY <2>3, <2>4, <2>5 DEF Follows
<1>12. Done(u, fail) = w /\ NewSurface(u, fail, surf) = new
  BY DEF Done, NewSurface, Drew, Sized, w, d, n, z, c, new
<1>13. new \in ScreenState /\ (~w.control => ~u.control /\ new = surf)
  BY <1>8, <1>9, <1>10
<1>14. w.control => new.size = w.size /\ new.visible = w.shown
  BY <1>8, <1>10
<1> QED BY <1>6, <1>8, <1>11, <1>12, <1>13, <1>14

LEMMA WorkIsDone ==
  ASSUME WorkOnSurfaces
  PROVE  \E bad \in Refused :
           LET D == DOMAIN updates
               fail == [s \in D |-> {f \in Faults : <<s, f>> \in bad}]
           IN /\ updates' = [s \in D |-> Done(updates[s], fail[s])]
              /\ screen' = [s \in Sprite |-> IF s \notin D THEN screen[s]
                   ELSE NewSurface(updates[s], fail[s], screen[s])]
              /\ unlucky' = unlucky \cup {s \in D : fail[s] # {}}
<1>1. PICK bad \in Refused :
        LET D == DOMAIN updates
            fail == [s \in D |-> {f \in Faults : <<s, f>> \in bad}]
        IN \E sized \in {[s \in D |-> Resized(Created(updates[s], fail[s]), fail[s])]} :
           \E drew \in {[s \in D |-> Redrawn(Undrawn(sized[s]), fail[s])]} :
             /\ updates' = [s \in D |-> Displayed(drew[s], fail[s])]
             /\ screen' = [s \in Sprite |-> IF s \notin D THEN screen[s]
                  ELSE Surface(updates[s], sized[s], drew[s], fail[s], screen[s])]
             /\ unlucky' = unlucky \cup {s \in D : fail[s] # {}}
             /\ spriteBudget' = [spriteBudget EXCEPT
                  !.faults = IF bad = {} THEN @ ELSE @ - 1]
  BY DEF WorkOnSurfaces
<1> DEFINE D == DOMAIN updates
           fail == [s \in D |-> {f \in Faults : <<s, f>> \in bad}]
           sized == [s \in D |-> Sized(updates[s], fail[s])]
           drew == [s \in D |-> Drew(updates[s], fail[s])]
<1>2. sized = [s \in D |-> Resized(Created(updates[s], fail[s]), fail[s])]
  BY DEF Sized
<1>3. \A s \in D : sized[s] = Sized(updates[s], fail[s])
  OBVIOUS
<1>4. drew = [s \in D |-> Redrawn(Undrawn(sized[s]), fail[s])]
  BY <1>3 DEF Drew
<1>5. \A s \in D : drew[s] = Drew(updates[s], fail[s])
  OBVIOUS
<1>6. PICK z \in {[s \in D |-> Resized(Created(updates[s], fail[s]), fail[s])]} :
        \E dr \in {[s \in D |-> Redrawn(Undrawn(z[s]), fail[s])]} :
          /\ updates' = [s \in D |-> Displayed(dr[s], fail[s])]
          /\ screen' = [s \in Sprite |-> IF s \notin D THEN screen[s]
               ELSE Surface(updates[s], z[s], dr[s], fail[s], screen[s])]
          /\ unlucky' = unlucky \cup {s \in D : fail[s] # {}}
  BY <1>1
<1> HIDE DEF sized, drew, fail, D
<1>7. z = sized
  BY <1>2, <1>6
<1>8. /\ updates' = [s \in D |-> Displayed(drew[s], fail[s])]
      /\ screen' = [s \in Sprite |-> IF s \notin D THEN screen[s]
           ELSE Surface(updates[s], sized[s], drew[s], fail[s], screen[s])]
      /\ unlucky' = unlucky \cup {s \in D : fail[s] # {}}
  BY <1>4, <1>6, <1>7
<1>9. updates' = [s \in D |-> Done(updates[s], fail[s])]
  BY <1>5, <1>8 DEF Done
<1>10. screen' = [s \in Sprite |-> IF s \notin D THEN screen[s]
           ELSE NewSurface(updates[s], fail[s], screen[s])]
  BY <1>3, <1>5, <1>8 DEF NewSurface
<1> QED BY <1>8, <1>9, <1>10 DEF D, fail

LEMMA WorkOnSurfacesKeepsSInv ==
  ASSUME SInv, WorkOnSurfaces
  PROVE  SInv'
<1> DEFINE D == DOMAIN updates
           Fail(bad) == [s \in D |-> {f \in Faults : <<s, f>> \in bad}]
<1>1. PICK bad \in Refused :
        /\ updates' = [s \in D |-> Done(updates[s], Fail(bad)[s])]
        /\ screen' = [s \in Sprite |-> IF s \notin D THEN screen[s]
             ELSE NewSurface(updates[s], Fail(bad)[s], screen[s])]
        /\ unlucky' = unlucky \cup {s \in D : Fail(bad)[s] # {}}
  BY WorkIsDone
<1> DEFINE fail == Fail(bad)
<1>2. /\ updatePhase = "work" /\ updatePhase' = "write"
      /\ UNCHANGED <<sprite, spriteRef, spriteLocked, spriteQueue>>
  BY DEF WorkOnSurfaces
<1>3. /\ sprite \in [Sprite -> SpriteState] /\ screen \in [Sprite -> ScreenState]
      /\ D \subseteq Sprite /\ \A s \in D : updates[s] \in SpriteState
  BY DEF SInv, STypes
<1>4. \A s \in D : fail[s] \in SUBSET Faults
  OBVIOUS
<1>5. /\ DOMAIN updates' = D
      /\ \A s \in D : updates'[s] = Done(updates[s], fail[s])
      /\ \A s \in D : screen'[s] = NewSurface(updates[s], fail[s], screen[s])
      /\ \A s \in Sprite \ D : screen'[s] = screen[s]
      /\ unlucky' = unlucky \cup {s \in D : fail[s] # {}}
  BY <1>1, <1>3
<1> HIDE DEF Fail, fail
<1>6. \A s \in D : InWork(s) /\ InWork(s)'
  BY <1>2, <1>5 DEF InWork
<1>7. ASSUME NEW s \in D
      PROVE  /\ SurfaceOK(updates[s]) /\ Newer(sprite[s], updates[s])
             /\ SameSurface(sprite[s], updates[s])
             /\ s \notin unlucky => Follows(updates[s], updates[s].dirty, screen[s])
             /\ updates[s].control =>
                  screen[s].size = updates[s].size /\ screen[s].visible = updates[s].shown
             /\ ~updates[s].control =>
                  screen[s] = NoScreen \/ s \in spriteLocked.disposed
  <2>1. /\ SurfaceOK(updates[s]) /\ Newer(sprite[s], updates[s])
        /\ SameSurface(sprite[s], updates[s])
        /\ s \notin unlucky => Follows(updates[s], updates[s].dirty, screen[s])
    BY <1>2, <1>3, <1>6 DEF SInv, ScreenOK
  <2>2. IF sprite[s].control
        THEN screen[s].size = sprite[s].size /\ screen[s].visible = sprite[s].shown
        ELSE screen[s] = NoScreen \/ s \in spriteLocked.disposed
    BY <1>2, <1>3 DEF SInv, SurfacesRecorded, Recorded
  <2> QED BY <2>1, <2>2 DEF SameSurface
<1>8. ASSUME NEW s \in D
      PROVE  /\ updates'[s] \in SpriteState /\ screen'[s] \in ScreenState
             /\ SurfaceOK(updates'[s]) /\ SameState(updates'[s], updates[s])
             /\ updates'[s].control => /\ screen'[s].size = updates'[s].size
                                       /\ screen'[s].visible = updates'[s].shown
             /\ ~updates'[s].control => ~updates[s].control /\ screen'[s] = screen[s]
             /\ fail[s] = {} /\ Follows(updates[s], updates[s].dirty, screen[s]) =>
                  Follows(updates'[s], {}, screen'[s])
  <2>1. screen[s] \in ScreenState /\ updates[s] \in SpriteState /\ fail[s] \in SUBSET Faults
    BY <1>3, <1>4
  <2> QED BY <1>5, <1>7, <2>1, WorkFacts
<1>9. STypes'
  <2>1. screen' \in [Sprite -> ScreenState]
    <3>1. \A s \in Sprite : screen'[s] \in ScreenState
      BY <1>3, <1>5, <1>8
    <3>2. screen' = [s \in Sprite |-> screen'[s]]
      BY <1>1
    <3> QED BY <3>1, <3>2
  <2> QED BY <1>2, <1>3, <1>5, <1>8, <2>1 DEF SInv, STypes
<1>10. Sent(spriteQueue, spriteLocked)'
  BY <1>2, Primes DEF SInv
<1>11. Listed' = Listed
  BY <1>2 DEF Listed
<1>12. DirtyListed'
  BY <1>2, <1>11 DEF SInv, DirtyListed
<1>13. DisposedGone'
  <2>1. spriteLocked.disposed \subseteq Sprite
    BY DEF SInv, STypes, Locked
  <2> QED BY <1>2, <1>5, <1>11, <2>1 DEF SInv, DisposedGone
<1>14. SurfacesRecorded'
  <2>1. ASSUME NEW s \in Sprite
        PROVE  IF Recorded(s)'.control
               THEN /\ screen'[s].size = Recorded(s)'.size
                    /\ screen'[s].visible = Recorded(s)'.shown
               ELSE screen'[s] = NoScreen \/ s \in spriteLocked'.disposed
    <3>1. CASE s \in D
      <4>1. Recorded(s)' = updates'[s]
        BY <1>2, <1>5, <3>1 DEF Recorded
      <4> QED BY <1>2, <1>7, <1>8, <3>1, <4>1
    <3>2. CASE s \notin D
      <4>1. Recorded(s)' = sprite[s] /\ Recorded(s) = sprite[s]
        BY <1>2, <1>5, <3>2 DEF Recorded
      <4> QED BY <1>2, <1>5, <3>2, <4>1 DEF SInv, SurfacesRecorded
    <3> QED BY <3>1, <3>2
  <2> QED BY <2>1 DEF SurfacesRecorded
<1>15. ASSUME NEW s \in Sprite
       PROVE  ScreenOK(s)'
  <2>1. CASE s \in D
    <3>1. Newer(sprite[s], updates'[s])
      BY <1>7, <1>8, <2>1 DEF Newer, SameState
    <3>2. s \notin unlucky' => s \notin unlucky /\ fail[s] = {}
      BY <1>5, <2>1
    <3>3. s \notin unlucky' => Follows(updates'[s], {}, screen'[s])
      BY <1>7, <1>8, <2>1, <3>2
    <3> QED BY <1>2, <1>6, <1>8, <2>1, <3>1, <3>3, ScreenPrimes DEF SInv, ScreenOK
  <2>2. CASE s \notin D
    <3>1. ~InWork(s) /\ ~InWork(s)'
      BY <1>5, <2>2 DEF InWork
    <3> QED BY <1>2, <1>5, <2>2, <3>1, ScreenPrimes DEF SInv, ScreenOK
  <2> QED BY <2>1, <2>2
<1> QED BY <1>9, <1>10, <1>12, <1>13, <1>14, <1>15 DEF SInv

-----------------------------------------------------------------------------
(* The invariant is inductive *)

LEMMA InitEstablishesSInv ==
  ASSUME SpriteInit
  PROVE  SInv
<1>1. /\ sprite = [s \in Sprite |-> Born] /\ spriteRef = {}
      /\ spriteLocked = [nesting |-> 0, deferred |-> FALSE,
                         invalidated |-> <<>>, disposed |-> {}]
      /\ spriteQueue = <<>> /\ updates = << >> /\ updatePhase = "idle"
      /\ screen = [s \in Sprite |-> NoScreen]
  BY DEF SpriteInit
<1>2. DOMAIN updates = {}
  BY <1>1
<1>3. STypes
  BY <1>1, <1>2, BornIsState, NoScreenIsScreen, EmptySeq DEF STypes, Locked
<1>4. Sent(spriteQueue, spriteLocked)
  BY <1>1 DEF Sent
<1>5. Born.dirty = {} /\ ~Born.control
  BY DEF Born
<1>6. DirtyListed /\ DisposedGone
  BY <1>1, <1>5 DEF DirtyListed, DisposedGone
<1>7. SurfacesRecorded
  BY <1>1, <1>5 DEF SurfacesRecorded, Recorded
<1>8. \A s \in Sprite : ScreenOK(s)
  <2> TAKE s \in Sprite
  <2>1. ~InWork(s) /\ sprite[s] = Born /\ screen[s] = NoScreen
    BY <1>1 DEF InWork
  <2>2. SurfaceOK(Born) /\ Follows(Born, {}, NoScreen)
    BY NoScreenIsScreen, BornFollows
  <2> QED BY <1>5, <2>1, <2>2 DEF ScreenOK
<1> QED BY <1>3, <1>4, <1>6, <1>7, <1>8 DEF SInv

LEMMA NextKeepsSInv ==
  ASSUME SInv, [SpriteNext]_spriteVars
  PROVE  SInv'
<1>1. CASE ClientChanges
  <2>1. CASE openTransaction
    BY <2>1, openTransactionKeepsSInv
  <2>2. ASSUME NEW s \in Sprite,
               \/ createSprite(s)
               \/ \E icon \in Icon : setIcon(s, icon)
               \/ setVisible(s)
               \/ setAlpha(s)
               \/ \E a \in Attribute : setAttribute(s, a)
               \/ ReleaseSprite(s)
        PROVE  SInv'
    <3>1. CASE createSprite(s)
      BY <3>1, createKeepsSInv
    <3>2. CASE \E icon \in Icon : setIcon(s, icon)
      BY <3>2, setIconKeepsSInv
    <3>3. CASE setVisible(s)
      BY <3>3, setVisibleKeepsSInv
    <3>4. CASE setAlpha(s)
      BY <3>4, setAlphaKeepsSInv
    <3>5. CASE \E a \in Attribute : setAttribute(s, a)
      BY <3>5, setAttributeKeepsSInv
    <3>6. CASE ReleaseSprite(s)
      BY <3>6, ReleaseSpriteKeepsSInv
    <3> QED BY <2>2, <3>1, <3>2, <3>3, <3>4, <3>5, <3>6
  <2> QED BY <1>1, <2>1, <2>2 DEF ClientChanges
<1>2. CASE closeTransaction
  BY <1>2, closeTransactionKeepsSInv
<1>3. CASE Collect
  BY <1>3, CollectKeepsSInv
<1>4. CASE WorkOnSurfaces
  BY <1>4, WorkOnSurfacesKeepsSInv
<1>5. CASE WriteBack
  BY <1>5, WriteBackKeepsSInv
<1>6. CASE ClearUpdates
  BY <1>6, ClearUpdatesKeepsSInv
<1>7. CASE doDisposeSurfaces
  BY <1>7, doDisposeSurfacesKeepsSInv
<1>8. CASE UNCHANGED spriteVars
  <2>1. UNCHANGED <<sprite, spriteRef, spriteLocked, spriteQueue, updates,
                    updatePhase, screen, unlucky>>
    BY <1>8 DEF spriteVars
  <2>2. STypes' /\ Sent(spriteQueue, spriteLocked)' /\ Listed' = Listed
    BY <2>1, Primes DEF SInv, STypes, Listed
  <2>3. DirtyListed' /\ DisposedGone' /\ SurfacesRecorded'
    BY <2>1, <2>2 DEF SInv, DirtyListed, DisposedGone, SurfacesRecorded, Recorded
  <2> QED BY <2>1, <2>2, <2>3, ScreenUnchanged DEF SInv
<1> QED BY <1>1, <1>2, <1>3, <1>4, <1>5, <1>6, <1>7, <1>8 DEF SpriteNext, SpriteLooper

-----------------------------------------------------------------------------
(* An icon has its own hot spot *)

HotIcon(st) == st.icon # 0 => st.hotspot = HotSpot(st.icon)
HotSpots == \A s \in Sprite : HotIcon(sprite[s])

\* A step that leaves the icons of the sprites and their hot spots alone.
LEMMA HotSpotsKept ==
  ASSUME HotSpots,
         \A s \in Sprite : \/ sprite'[s] = Born
                           \/ /\ sprite'[s].icon = sprite[s].icon
                              /\ sprite'[s].hotspot = sprite[s].hotspot
  PROVE  HotSpots'
BY DEF HotSpots, HotIcon, Born

\* A call that sets a new state of sprite s.
LEMMA SetKeepsHotSpots ==
  ASSUME SInv, HotSpots, NEW s \in Sprite, NEW new \in SpriteState, NEW dirty,
         HotIcon(new), Set(s, new, dirty)
  PROVE  HotSpots'
<1>1. sprite \in [Sprite -> SpriteState]
  BY DEF SInv, STypes
<1>2. sprite' = [sprite EXCEPT ![s] = [new EXCEPT !.dirty = @ \cup dirty]]
  BY DEF Set
<1>3. /\ \A t \in Sprite \ {s} : sprite'[t] = sprite[t]
      /\ sprite'[s].icon = new.icon /\ sprite'[s].hotspot = new.hotspot
  BY <1>1, <1>2 DEF SpriteState
<1> QED BY <1>3 DEF HotSpots, HotIcon

LEMMA ClientChangeKeepsHotSpots ==
  ASSUME SInv, HotSpots, NEW s \in Sprite,
         \/ \E icon \in Icon : setIcon(s, icon)
         \/ setVisible(s)
         \/ setAlpha(s)
         \/ \E a \in Attribute : setAttribute(s, a)
  PROVE  HotSpots'
<1> DEFINE st == sprite[s]
<1>1. st \in SpriteState /\ HotIcon(st)
  BY DEF SInv, STypes, HotSpots
<1>2. ASSUME NEW icon \in Icon, setIcon(s, icon) PROVE HotSpots'
  <2> DEFINE new == [st EXCEPT !.icon = icon, !.hotspot = HotSpot(icon)]
             none == [st EXCEPT !.icon = 0]
  <2>1. \/ \E dirty : Set(s, new, dirty)
        \/ \E dirty : Set(s, none, dirty)
    BY <1>2 DEF setIcon
  <2>2. new \in SpriteState /\ HotIcon(new)
    BY <1>1 DEF SpriteState, HotIcon, HotSpot
  <2>3. none \in SpriteState /\ HotIcon(none)
    BY <1>1 DEF SpriteState, HotIcon, Icon
  <2> HIDE DEF new, none
  <2> QED BY <2>1, <2>2, <2>3, SetKeepsHotSpots
<1>3. ASSUME setVisible(s) PROVE HotSpots'
  <2> DEFINE new == [st EXCEPT !.visible = ~@]
  <2>1. \E dirty : Set(s, new, dirty)
    BY <1>3 DEF setVisible
  <2>2. new \in SpriteState /\ HotIcon(new)
    BY <1>1 DEF SpriteState, HotIcon
  <2> HIDE DEF new
  <2> QED BY <2>1, <2>2, SetKeepsHotSpots
<1>4. ASSUME setAlpha(s) PROVE HotSpots'
  <2> DEFINE new == [st EXCEPT !.alpha = 1 - @]
  <2>1. \E dirty : Set(s, new, dirty)
    BY <1>4 DEF setAlpha
  <2>2. new \in SpriteState /\ HotIcon(new)
    BY <1>1 DEF SpriteState, HotIcon
  <2> HIDE DEF new
  <2> QED BY <2>1, <2>2, SetKeepsHotSpots
<1>5. ASSUME NEW a \in Attribute, setAttribute(s, a) PROVE HotSpots'
  <2> DEFINE new == [st EXCEPT !.attr[a] = 1 - @]
  <2>1. \E dirty : Set(s, new, dirty)
    BY <1>5 DEF setAttribute
  <2>2. new \in SpriteState /\ HotIcon(new)
    BY <1>1 DEF SpriteState, HotIcon
  <2> HIDE DEF new
  <2> QED BY <2>1, <2>2, SetKeepsHotSpots
<1> QED BY <1>2, <1>3, <1>4, <1>5

LEMMA NextKeepsHotSpots ==
  ASSUME SInv, HotSpots, [SpriteNext]_spriteVars
  PROVE  HotSpots'
<1> DEFINE Kept == \A s \in Sprite : \/ sprite'[s] = Born
                                     \/ /\ sprite'[s].icon = sprite[s].icon
                                        /\ sprite'[s].hotspot = sprite[s].hotspot
<1>1. /\ sprite \in [Sprite -> SpriteState]
      /\ \A s \in Sprite : sprite[s] \in SpriteState
  BY DEF SInv, STypes
<1>2. CASE ClientChanges
  <2>1. ASSUME NEW s \in Sprite, createSprite(s) PROVE Kept
    BY <1>1, <2>1 DEF createSprite
  <2>2. ASSUME NEW s \in Sprite, ReleaseSprite(s) PROVE Kept
    BY <2>2 DEF ReleaseSprite, disposeSurfaceLocked
  <2>3. openTransaction => Kept
    BY DEF openTransaction
  <2> HIDE DEF Kept
  <2>4. ASSUME Kept PROVE HotSpots'
    BY <2>4, HotSpotsKept DEF Kept
  <2> QED BY <1>2, <2>1, <2>2, <2>3, <2>4, ClientChangeKeepsHotSpots DEF ClientChanges
<1>3. CASE closeTransaction
  BY <1>3, HotSpotsKept DEF closeTransaction
<1>4. CASE Collect
  <2>1. Kept
    BY <1>1, <1>4 DEF Collect, SpriteState
  <2> QED BY <2>1, HotSpotsKept
<1>5. CASE WorkOnSurfaces
  BY <1>5, HotSpotsKept DEF WorkOnSurfaces
<1>6. CASE WriteBack
  <2>1. Kept
    BY <1>1, <1>6 DEF WriteBack, SpriteState
  <2> QED BY <2>1, HotSpotsKept
<1>7. CASE ClearUpdates
  <2>1. Kept
    BY <1>7 DEF ClearUpdates, disposeSurfaceLocked
  <2> QED BY <2>1, HotSpotsKept
<1>8. CASE doDisposeSurfaces
  BY <1>8, HotSpotsKept DEF doDisposeSurfaces
<1>9. CASE UNCHANGED spriteVars
  BY <1>9, HotSpotsKept DEF spriteVars
<1> QED BY <1>2, <1>3, <1>4, <1>5, <1>6, <1>7, <1>8, <1>9 DEF SpriteNext, SpriteLooper

-----------------------------------------------------------------------------
(* What the invariant says of the sprites *)

LEMMA SInvSendsUpdates ==
  ASSUME SInv
  PROVE  NoLostUpdate
<1>1. spriteQueue \in Seq(Message) /\ DOMAIN spriteQueue = 1 .. Len(spriteQueue)
  BY ListFacts DEF SInv, STypes
<1> QED BY <1>1 DEF SInv, DirtyListed, Listed, Sent, Has, NoLostUpdate

LEMMA SInvShowsClean ==
  ASSUME SInv, HotSpots
  PROVE  CleanIsShown
<1> SUFFICES ASSUME updatePhase = "idle", NEW s \in spriteRef \ unlucky,
                    sprite[s].dirty = {}
             PROVE  AsWanted(s)
  BY DEF CleanIsShown
<1>1. /\ s \in Sprite /\ sprite[s] \in SpriteState /\ screen[s] \in ScreenState
  BY DEF SInv, STypes
<1>2. Recorded(s) = sprite[s] /\ ~InWork(s)
  BY DEF Recorded, InWork
<1>3. SurfaceOK(sprite[s]) /\ Follows(sprite[s], {}, screen[s])
  BY <1>1, <1>2 DEF SInv, ScreenOK
<1>4. IF sprite[s].control THEN screen[s].visible = sprite[s].shown
      ELSE screen[s] = NoScreen \/ s \in spriteLocked.disposed
  BY <1>1, <1>2 DEF SInv, SurfacesRecorded
<1>5. s \notin spriteLocked.disposed
  BY DEF SInv, DisposedGone
<1>6. sprite[s].shown <=> wantSurfaceVisible(sprite[s])
  BY <1>3 DEF Follows
<1>7. CASE ~wantSurfaceVisible(sprite[s])
  <2>1. ~screen[s].visible
    BY <1>4, <1>5, <1>6, <1>7 DEF NoScreen
  <2> QED BY <1>7, <2>1 DEF AsWanted
<1>8. CASE wantSurfaceVisible(sprite[s])
  <2>1. sprite[s].shown /\ sprite[s].control /\ sprite[s].drawn
    BY <1>3, <1>6, <1>8 DEF SurfaceOK, Follows
  <2>2. /\ screen[s].visible /\ screen[s].alpha = sprite[s].alpha
        /\ screen[s].hotspot = sprite[s].hotspot
        /\ screen[s].content = sprite[s].icon /\ screen[s].size >= sprite[s].icon
    BY <1>3, <1>4, <2>1 DEF Follows
  <2>4. sprite[s].hotspot = HotSpot(sprite[s].icon)
    BY <1>1, <1>8 DEF HotSpots, HotIcon, wantSurfaceVisible
  <2>3. screen[s].attr = sprite[s].attr
    <3>1. \A a \in Attribute : screen[s].attr[a] = sprite[s].attr[a]
      BY <1>3, <2>1 DEF Follows
    <3>2. /\ screen[s].attr \in [Attribute -> {0, 1}]
          /\ sprite[s].attr \in [Attribute -> {0, 1}]
      BY <1>1 DEF SpriteState, ScreenState
    <3> QED BY <3>1, <3>2
  <2> QED BY <1>8, <2>2, <2>3, <2>4 DEF AsWanted
<1> QED BY <1>7, <1>8

\* The types, the lists and messages, and the surfaces are as SInv says in
\* every state of SpriteController.
THEOREM SpriteInvariance == SpriteSpec => []SInv
<1>1. SpriteInit => SInv
  BY InitEstablishesSInv
<1>2. SInv /\ [SpriteNext]_spriteVars => SInv'
  BY NextKeepsSInv
<1> QED BY <1>1, <1>2, PTL DEF SpriteSpec

\* A dirty sprite is in the list of the invalidated ones, and for a list that
\* is not empty a message is on its way or deferred by an open transaction
\* (invalidateSpriteLocked, closeTransaction, disposeSurfaceLocked).
THEOREM UpdatesAreSent == SpriteSpec => []NoLostUpdate
<1>1. SInv => NoLostUpdate
  BY SInvSendsUpdates
<1> QED BY <1>1, SpriteInvariance, PTL

\* Every surface that the composer has is on record with its size and its
\* visibility, whatever calls fail, or about to be released (doUpdateSprites,
\* setSurfaceLocked, the destructor of SpriteImpl).
THEOREM SurfacesAreOnRecord == SpriteSpec => []SurfacesRecorded
<1>1. SInv => SurfacesRecorded
  BY DEF SInv
<1> QED BY <1>1, SpriteInvariance, PTL

\* Between two updates a sprite that is not dirty, and for which the composer
\* has refused nothing, is on the screen with its last icon, place and alpha,
\* or hidden (the dirty bits and doUpdateSprites).
THEOREM CleanSpritesAreShown == SpriteSpec => []CleanIsShown
<1>1. SInv /\ HotSpots => CleanIsShown
  BY SInvShowsClean
<1>2. SpriteInit => HotSpots
  BY DEF SpriteInit, HotSpots, HotIcon, Born
<1>3. SInv /\ HotSpots /\ [SpriteNext]_spriteVars => HotSpots'
  BY NextKeepsHotSpots
<1> QED BY <1>1, <1>2, <1>3, SpriteInvariance, PTL DEF SpriteSpec

-----------------------------------------------------------------------------
(* PointerController.  The inductive invariant *)

Displays == [width: Int, height: Int, orientation: {0, 90, 180, 270}]

Pointers ==
  [x: Int, y: Int, alpha: 0 .. Opaque, direction: -1 .. 1,
   presentation: Presentation, presentationChanged: BOOLEAN,
   icon: 0 .. 1, hover: 0 .. 1, iconChanged: BOOLEAN]

\* A display without area, as before the first viewport, bounds nothing.
OnScreen(d, x, y) ==
  HasBounds(d) => x \in 0 .. MaxX(d) /\ y \in 0 .. MaxY(d)

\* What is pending in iconChanged or presentationChanged is never left for later.
Shown(shows, p) ==
  /\ shows.x = p.x /\ shows.y = p.y
  /\ shows.visible = (p.alpha > 0)
  /\ shows.icon = IconOf(p)

PInv ==
  /\ display \in Displays
  /\ pointer \in Pointers
  /\ OnScreen(display, pointer.x, pointer.y)
  /\ Shown(pointerSprite, pointer)

-----------------------------------------------------------------------------
(* updatePointerLocked *)

\* It tells the sprite everything about p.
LEMMA Updated ==
  ASSUME NEW p \in Pointers, updatePointerLocked(p),
         \/ p.iconChanged \/ p.presentationChanged
         \/ pointerSprite.icon = IconOf(p)
  PROVE  /\ pointer' \in Pointers
         /\ pointer'.x = p.x /\ pointer'.y = p.y
         /\ Shown(pointerSprite', pointer')
<1> DEFINE q == [p EXCEPT !.iconChanged = FALSE, !.presentationChanged = FALSE]
<1>1. pointer' = q
  BY DEF updatePointerLocked
<1>2. /\ q \in Pointers /\ q.x = p.x /\ q.y = p.y /\ q.alpha = p.alpha
      /\ q.presentation = p.presentation /\ q.icon = p.icon
      /\ q.hover = p.hover
  BY DEF Pointers
<1> HIDE DEF q
<1>3. IconOf(q) = IconOf(p)
  BY <1>2 DEF IconOf
<1>4. /\ pointerSprite'.x = p.x /\ pointerSprite'.y = p.y
      /\ pointerSprite'.visible = (p.alpha > 0)
  BY DEF updatePointerLocked
<1>5. pointerSprite'.icon = IconOf(p)
  BY DEF updatePointerLocked
<1> QED BY <1>1, <1>2, <1>3, <1>4, <1>5 DEF Shown

\* A change that leaves the icon alone.
LEMMA SameIcon ==
  ASSUME PInv, NEW p \in Pointers, p.presentation = pointer.presentation,
         p.icon = pointer.icon, p.hover = pointer.hover
  PROVE  pointerSprite.icon = IconOf(p)
BY DEF PInv, Shown, IconOf

-----------------------------------------------------------------------------
(* Places on the screen *)

\* A place brought back into the bounds is within them.
LEMMA ClampRange ==
  ASSUME NEW v \in Int, NEW max \in Nat
  PROVE  Clamp(v, max) \in 0 .. max
BY DEF Clamp

\* A display with an area has bounds, and its centre is within them.
LEMMA Bounds ==
  ASSUME NEW d \in Displays, HasBounds(d)
  PROVE  /\ MaxX(d) \in Nat /\ MaxY(d) \in Nat
         /\ MaxX(d) \div 2 \in 0 .. MaxX(d)
         /\ MaxY(d) \div 2 \in 0 .. MaxY(d)
<1>1. d.width \in Int /\ d.height \in Int /\ d.width > 0 /\ d.height > 0
  BY DEF Displays, HasBounds
<1> DEFINE a == IF Rotated(d.orientation) THEN d.height - 1 ELSE d.width - 1
           b == IF Rotated(d.orientation) THEN d.width - 1 ELSE d.height - 1
<1>2. a \in Nat /\ b \in Nat /\ MaxX(d) = 2 * a /\ MaxY(d) = 2 * b
  BY <1>1 DEF MaxX, MaxY
<1> HIDE DEF a, b
<1>3. \A n \in Nat : (2 * n) \div 2 \in 0 .. 2 * n /\ 2 * n \in Nat
  OBVIOUS
<1> QED BY <1>2, <1>3

\* What is on the display is on it after turning by way of the natural
\* orientation: the half pixel added before and taken off after is needed.
LEMMA TurnRange ==
  ASSUME NEW d \in Displays, NEW e \in Displays, HasBounds(d),
         e.width = d.width, e.height = d.height,
         NEW x \in Int, NEW y \in Int, OnScreen(d, x, y),
         NEW r, r = Turn(<<x + 1, y + 1>>, d, d.orientation, e.orientation)
  PROVE  /\ r[1] - 1 \in Int /\ r[2] - 1 \in Int
         /\ OnScreen(e, r[1] - 1, r[2] - 1)
<1> DEFINE W == 2 * d.width
           H == 2 * d.height
           from == d.orientation
           to == e.orientation
           \* what lies on a display of size W, H turned by o
           On(o, a, b) == /\ a \in 1 .. (IF Rotated(o) THEN H ELSE W) - 1
                          /\ b \in 1 .. (IF Rotated(o) THEN W ELSE H) - 1
<1>1. /\ d.width \in Int /\ d.height \in Int /\ d.width > 0 /\ d.height > 0
      /\ from \in {0, 90, 180, 270} /\ to \in {0, 90, 180, 270}
  BY DEF Displays, HasBounds
<1>2. ASSUME NEW f \in {d, e}, NEW a \in Int, NEW b \in Int
      PROVE  OnScreen(f, a, b) <=> On(f.orientation, a + 1, b + 1)
  <2>1. f.width = d.width /\ f.height = d.height
    OBVIOUS
  <2>2. HasBounds(f)
    BY <1>1, <2>1 DEF HasBounds
  <2>3. /\ MaxX(f) = (IF Rotated(f.orientation) THEN H ELSE W) - 2
        /\ MaxY(f) = (IF Rotated(f.orientation) THEN W ELSE H) - 2
    BY <1>1, <2>1 DEF MaxX, MaxY
  <2> QED BY <1>1, <2>2, <2>3 DEF OnScreen
<1>3. W \in Int /\ H \in Int
  BY <1>1
<1> DEFINE q == <<x + 1, y + 1>>
           n == CASE from = 90 -> <<W - q[2], q[1]>>
                  [] from = 180 -> <<W - q[1], H - q[2]>>
                  [] from = 270 -> <<q[2], H - q[1]>>
                  [] OTHER -> q
<1>4. On(from, q[1], q[2])
  BY <1>2
<1>5. r = CASE to = 90 -> <<n[2], W - n[1]>>
            [] to = 180 -> <<W - n[1], H - n[2]>>
            [] to = 270 -> <<H - n[2], n[1]>>
            [] OTHER -> n
  BY DEF Turn
<1> HIDE DEF W, H, from, to
<1>6. n[1] \in 1 .. W - 1 /\ n[2] \in 1 .. H - 1
  <2>1. q[1] \in Int /\ q[2] \in Int
    OBVIOUS
  <2> HIDE DEF q
  <2>2. CASE from = 0
    BY <1>3, <1>4, <2>1, <2>2 DEF Rotated
  <2>3. CASE from = 90
    BY <1>3, <1>4, <2>1, <2>3 DEF Rotated
  <2>4. CASE from = 180
    BY <1>3, <1>4, <2>1, <2>4 DEF Rotated
  <2>5. CASE from = 270
    BY <1>3, <1>4, <2>1, <2>5 DEF Rotated
  <2> QED BY <1>1, <2>2, <2>3, <2>4, <2>5
<1> HIDE DEF n
<1>7. On(to, r[1], r[2]) /\ r[1] \in Int /\ r[2] \in Int
  <2>1. CASE to = 0
    BY <1>3, <1>5, <1>6, <2>1 DEF Rotated
  <2>2. CASE to = 90
    BY <1>3, <1>5, <1>6, <2>2 DEF Rotated
  <2>3. CASE to = 180
    BY <1>3, <1>5, <1>6, <2>3 DEF Rotated
  <2>4. CASE to = 270
    BY <1>3, <1>5, <1>6, <2>4 DEF Rotated
  <2> QED BY <1>1, <2>1, <2>2, <2>3, <2>4
<1>8. r[1] - 1 \in Int /\ r[2] - 1 \in Int /\ On(to, (r[1] - 1) + 1, (r[2] - 1) + 1)
  BY <1>7
<1> HIDE DEF On
<1> QED BY <1>2, <1>8 DEF to

\* On a display without area a turn gives some place.
LEMMA TurnInt ==
  ASSUME NEW d \in Displays, NEW from \in {0, 90, 180, 270},
         NEW to \in {0, 90, 180, 270}, NEW x \in Int, NEW y \in Int
  PROVE  LET r == Turn(<<x + 1, y + 1>>, d, from, to)
         IN r[1] \in Int /\ r[2] \in Int
<1> DEFINE W == 2 * d.width
           H == 2 * d.height
           q == <<x + 1, y + 1>>
           n == CASE from = 90 -> <<W - q[2], q[1]>>
                  [] from = 180 -> <<W - q[1], H - q[2]>>
                  [] from = 270 -> <<q[2], H - q[1]>>
                  [] OTHER -> q
           r == Turn(q, d, from, to)
<1>1. W \in Int /\ H \in Int
  BY DEF Displays
<1>2. q[1] \in Int /\ q[2] \in Int
  OBVIOUS
<1>3. r = CASE to = 90 -> <<n[2], W - n[1]>>
            [] to = 180 -> <<W - n[1], H - n[2]>>
            [] to = 270 -> <<H - n[2], n[1]>>
            [] OTHER -> n
  BY DEF Turn
<1> HIDE DEF W, H, q, r
<1>4. n[1] \in Int /\ n[2] \in Int
  BY <1>1, <1>2
<1> HIDE DEF n
<1>5. r[1] \in Int /\ r[2] \in Int
  BY <1>1, <1>3, <1>4
<1> QED BY <1>5 DEF r, q

-----------------------------------------------------------------------------
(* The actions *)

\* The first state is good.
LEMMA PointerInitOK == PointerInit => PInv
<1> SUFFICES ASSUME PointerInit PROVE PInv
  OBVIOUS
<1>1. display \in Displays /\ ~HasBounds(display)
  BY DEF PointerInit, Displays, HasBounds
<1>2. pointer \in Pointers
  BY DEF PointerInit, Pointers, Opaque, Presentation
<1>3. /\ pointerSprite.x = pointer.x /\ pointerSprite.y = pointer.y
      /\ pointerSprite.icon = IconOf(pointer)
  BY DEF PointerInit, IconOf
<1>4. ~(pointer.alpha > 0) /\ pointerSprite.visible = FALSE
  BY DEF PointerInit
<1>5. pointerSprite.visible = (pointer.alpha > 0)
  <2> DEFINE shown == pointer.alpha > 0
  <2>1. shown = FALSE
    BY <1>4
  <2> HIDE DEF shown
  <2>2. pointerSprite.visible = shown
    BY <1>4, <2>1
  <2> QED BY <2>2 DEF shown
<1>6. OnScreen(display, pointer.x, pointer.y)
  BY <1>1 DEF OnScreen
<1>7. Shown(pointerSprite, pointer)
  BY <1>3, <1>5 DEF Shown
<1> QED BY <1>1, <1>2, <1>6, <1>7 DEF PInv

\* The greater and the smaller of two numbers.
LEMMA MinMax ==
  ASSUME NEW a \in Int, NEW b \in Int
  PROVE  Max({a, b}) \in {a, b} /\ Min({a, b}) \in {a, b}
         /\ Max({a, b}) >= a /\ Max({a, b}) >= b
         /\ Min({a, b}) <= a /\ Min({a, b}) <= b
<1>1. \E x \in {a, b} : \A y \in {a, b} : x >= y
  OBVIOUS
<1>2. \E x \in {a, b} : \A y \in {a, b} : x =< y
  OBVIOUS
<1> QED BY <1>1, <1>2 DEF Max, Min

\* The pointer moves and its sprite with it.
LEMMA SetPosition ==
  ASSUME PInv, NEW x \in Int, NEW y \in Int, setPositionLocked(x, y)
  PROVE  PInv'
<1> DEFINE a == Clamp(x, MaxX(display))
           b == Clamp(y, MaxY(display))
           p == [pointer EXCEPT !.x = a, !.y = b]
<1>1. /\ HasBounds(display) /\ display \in Displays /\ display' = display
      /\ pointer \in Pointers
  BY DEF setPositionLocked, PInv
<1>2. a \in 0 .. MaxX(display) /\ b \in 0 .. MaxY(display)
  BY <1>1, Bounds, ClampRange
<1>3. a \in Int /\ b \in Int
  BY <1>1, <1>2, Bounds
<1>4. updatePointerLocked(p)
  BY DEF setPositionLocked
<1> HIDE DEF a, b
<1>5. /\ p \in Pointers /\ p.x = a /\ p.y = b
      /\ p.presentation = pointer.presentation
      /\ p.icon = pointer.icon /\ p.hover = pointer.hover
  BY <1>1, <1>3 DEF Pointers
<1> HIDE DEF p
<1>6. /\ pointer' \in Pointers /\ pointer'.x = a /\ pointer'.y = b
      /\ Shown(pointerSprite', pointer')
  BY <1>4, <1>5, SameIcon, Updated
<1> QED BY <1>1, <1>2, <1>6 DEF PInv, OnScreen

\* The display changes: its size and orientation are those of v.
LEMMA SetDisplayViewport ==
  ASSUME PInv, NEW v \in Viewport, setDisplayViewport(v)
  PROVE  PInv'
<1> DEFINE o == v[3]
           d == [width |-> IF Rotated(o) THEN v[2] ELSE v[1],
                 height |-> IF Rotated(o) THEN v[1] ELSE v[2],
                 orientation |-> display.orientation]
           resized == d # display
           q == IF ~resized THEN <<pointer.x, pointer.y>>
                ELSE IF HasBounds(d) THEN <<MaxX(d) \div 2, MaxY(d) \div 2>>
                ELSE <<0, 0>>
           r == Turn(<<q[1] + 1, q[2] + 1>>, d, display.orientation, o)
           p == IF o = display.orientation THEN q ELSE <<r[1] - 1, r[2] - 1>>
           n == [pointer EXCEPT !.x = p[1], !.y = p[2]]
           e == [d EXCEPT !.orientation = o]
<1>1. display' = e /\ updatePointerLocked(n)
  BY DEF setDisplayViewport
<1>2. v[1] \in Int /\ v[2] \in Int /\ o \in {0, 90, 180, 270}
  BY PointerBounds
<1>3. /\ display \in Displays /\ pointer \in Pointers
      /\ OnScreen(display, pointer.x, pointer.y)
      /\ pointer.x \in Int /\ pointer.y \in Int
      /\ display.orientation \in {0, 90, 180, 270}
  BY DEF PInv, Displays, Pointers
<1>4. d \in Displays /\ d.orientation = display.orientation
  BY <1>2, <1>3 DEF Displays
<1> HIDE DEF d
<1>5. e \in Displays /\ (HasBounds(e) <=> HasBounds(d))
  BY <1>2, <1>4 DEF Displays, HasBounds
<1>6. /\ q[1] \in Int /\ q[2] \in Int /\ OnScreen(d, q[1], q[2])
      /\ q = <<q[1], q[2]>>
  <2>1. CASE ~resized
    BY <1>3, <2>1
  <2>2. CASE resized /\ HasBounds(d)
    <3>1. q = <<MaxX(d) \div 2, MaxY(d) \div 2>>
      BY <2>2
    <3> HIDE DEF q
    <3>2. q[1] \in 0 .. MaxX(d) /\ q[2] \in 0 .. MaxY(d)
      BY <1>4, <2>2, <3>1, Bounds
    <3>3. q[1] \in Int /\ q[2] \in Int
      BY <1>4, <2>2, <3>2, Bounds
    <3> QED BY <3>1, <3>2, <3>3 DEF OnScreen
  <2>3. CASE resized /\ ~HasBounds(d)
    <3>1. q = <<0, 0>>
      BY <2>3
    <3> HIDE DEF q
    <3> QED BY <2>3, <3>1 DEF OnScreen
  <2> QED BY <2>1, <2>2, <2>3
<1> HIDE DEF q, resized
<1>7. p[1] \in Int /\ p[2] \in Int /\ OnScreen(e, p[1], p[2])
  <2>1. CASE o = display.orientation
    <3>1. e = d
      BY <1>4, <2>1 DEF Displays
    <3> QED BY <1>6, <2>1, <3>1
  <2>2. CASE o # display.orientation
    <3>2. CASE HasBounds(d)
      <4> DEFINE x == q[1]
                 y == q[2]
      <4>1. x \in Int /\ y \in Int /\ OnScreen(d, x, y)
        BY <1>6
      <4>2. /\ e.width = d.width /\ e.height = d.height /\ e.orientation = o
        BY <1>4 DEF Displays
      <4>3. r = Turn(<<x + 1, y + 1>>, d, d.orientation, e.orientation)
        BY <1>4, <4>2
      <4> HIDE DEF e, r, x, y
      <4>4. /\ r[1] - 1 \in Int /\ r[2] - 1 \in Int
            /\ OnScreen(e, r[1] - 1, r[2] - 1)
        BY <1>4, <1>5, <3>2, <4>1, <4>2, <4>3, TurnRange
      <4> QED BY <2>2, <4>4
    <3>3. CASE ~HasBounds(d)
      <4>1. r[1] \in Int /\ r[2] \in Int
        BY <1>2, <1>3, <1>4, <1>6, TurnInt
      <4>2. p = <<r[1] - 1, r[2] - 1>>
        BY <2>2
      <4> HIDE DEF p, r
      <4> QED BY <1>5, <3>3, <4>1, <4>2 DEF OnScreen
    <3> QED BY <3>2, <3>3
  <2> QED BY <2>1, <2>2
<1> HIDE DEF p, e
<1>8. /\ n \in Pointers /\ n.x = p[1] /\ n.y = p[2]
      /\ n.presentation = pointer.presentation
      /\ n.icon = pointer.icon /\ n.hover = pointer.hover
  BY <1>3, <1>7 DEF Pointers
<1> HIDE DEF n
<1>9. /\ pointer' \in Pointers /\ pointer'.x = p[1] /\ pointer'.y = p[2]
      /\ Shown(pointerSprite', pointer')
  BY <1>1, <1>8, SameIcon, Updated
<1> QED BY <1>1, <1>5, <1>7, <1>9 DEF PInv

\* The pointer stays where it is; its sprite is told of everything else.
LEMMA StaysPut ==
  ASSUME PInv, NEW p \in Pointers, p.x = pointer.x, p.y = pointer.y,
         \/ p.iconChanged \/ p.presentationChanged
         \/ /\ p.presentation = pointer.presentation
            /\ p.icon = pointer.icon /\ p.hover = pointer.hover,
         updatePointerLocked(p), UNCHANGED display
  PROVE  PInv'
<1>1. /\ pointer' \in Pointers /\ pointer'.x = p.x /\ pointer'.y = p.y
      /\ Shown(pointerSprite', pointer')
  BY SameIcon, Updated
<1> QED BY <1>1 DEF PInv

\* Neither the display nor the sprite changes, nor anything that it shows.
LEMMA Unseen ==
  ASSUME PInv, NEW dir \in -1 .. 1,
         pointer' = [pointer EXCEPT !.direction = dir],
         UNCHANGED <<display, pointerSprite>>
  PROVE  PInv'
<1>1. /\ pointer' \in Pointers /\ pointer'.x = pointer.x /\ pointer'.y = pointer.y
      /\ pointer'.alpha = pointer.alpha
      /\ pointer'.presentation = pointer.presentation
      /\ pointer'.icon = pointer.icon /\ pointer'.hover = pointer.hover
  BY DEF PInv, Pointers
<1>2. IconOf(pointer') = IconOf(pointer)
  BY <1>1 DEF IconOf
<1>3. Shown(pointerSprite, pointer')
  BY <1>1, <1>2 DEF PInv, Shown
<1> QED BY <1>1, <1>3 DEF PInv

\* A frame changes alpha, within its range, and direction only.
LEMMA FadedOK ==
  ASSUME NEW p \in Pointers, NEW step \in 1 .. Opaque
  PROVE  LET f == Faded(p, step)
         IN /\ f \in Pointers /\ f.x = p.x /\ f.y = p.y
            /\ f.presentation = p.presentation
            /\ f.icon = p.icon /\ f.hover = p.hover
<1> DEFINE a == p.alpha + p.direction * step
           end == (p.direction < 0 /\ a <= 0) \/ (p.direction > 0 /\ a >= Opaque)
           alpha == Max({0, Min({a, Opaque})})
           dir == IF end THEN 0 ELSE p.direction
<1>1. p.alpha \in 0 .. Opaque /\ p.direction \in -1 .. 1
  BY DEF Pointers
<1>2. a \in Int /\ Opaque \in Int /\ Opaque > 0
  BY <1>1 DEF Opaque
<1>3. dir \in -1 .. 1
  BY <1>1
<1> HIDE DEF a, dir, end
<1> DEFINE m == Min({a, Opaque})
<1>4. m \in Int /\ m <= Opaque
  BY <1>2, MinMax
<1>5. alpha = Max({0, m})
  OBVIOUS
<1> HIDE DEF m, alpha
<1>6. alpha \in {0, m} /\ alpha >= 0
  <2>1. 0 \in Int
    OBVIOUS
  <2>2. Max({0, m}) \in {0, m} /\ Max({0, m}) >= 0
    BY <1>4, <2>1, MinMax
  <2> QED BY <1>5, <2>2
<1>7. alpha \in 0 .. Opaque
  BY <1>2, <1>4, <1>6
<1>8. Faded(p, step) = [p EXCEPT !.alpha = alpha, !.direction = dir]
  BY DEF Faded, alpha, m, dir, end, a
<1> QED BY <1>3, <1>7, <1>8 DEF Pointers

\* The two ends of a fade.
LEMMA Alphas == 0 \in 0 .. Opaque /\ Opaque \in 0 .. Opaque
BY DEF Opaque

\* fade and unfade at once: alpha changes and the direction ends.
LEMMA Dimmed ==
  ASSUME NEW p \in Pointers, NEW alpha \in 0 .. Opaque
  PROVE  LET q == [p EXCEPT !.direction = 0, !.alpha = alpha]
         IN /\ q \in Pointers /\ q.x = p.x /\ q.y = p.y
            /\ q.presentation = p.presentation
            /\ q.icon = p.icon /\ q.hover = p.hover
<1>1. 0 \in -1 .. 1
  OBVIOUS
<1> QED BY <1>1 DEF Pointers

\* setPointerIcon and its like: the pointer stays, its icon is to be told.
LEMMA NewIcon ==
  ASSUME NEW p \in Pointers, NEW i \in 0 .. 1
  PROVE  /\ LET q == [p EXCEPT !.icon = i, !.iconChanged = TRUE]
            IN q \in Pointers /\ q.x = p.x /\ q.y = p.y /\ q.iconChanged = TRUE
         /\ LET q == [p EXCEPT !.hover = i, !.iconChanged = TRUE]
            IN q \in Pointers /\ q.x = p.x /\ q.y = p.y /\ q.iconChanged = TRUE
BY DEF Pointers

\* Every call and every message of the looper.
LEMMA PointerStep == PInv /\ [PointerNext]_pointerVars => PInv'
<1> SUFFICES ASSUME PInv, [PointerNext]_pointerVars PROVE PInv'
  OBVIOUS
<1>1. display \in Displays /\ pointer \in Pointers
  BY DEF PInv
<1>2. ASSUME NEW x \in Place, NEW y \in Place, setPosition(x, y) \/ move(x, y)
      PROVE  PInv'
  <2>1. x \in Int /\ y \in Int /\ pointer.x + x \in Int /\ pointer.y + y \in Int
    BY <1>1, PointerBounds DEF Pointers
  <2> QED BY <1>2, <2>1, SetPosition DEF setPosition, move
<1>3. ASSUME NEW v \in Viewport, setDisplayViewport(v)
      PROVE  PInv'
  BY <1>3, SetDisplayViewport
<1>4. ASSUME fadeGradually
      PROVE  PInv'
  <2>1. -1 \in -1 .. 1
    OBVIOUS
  <2> QED BY <1>4, <2>1, Unseen DEF fadeGradually
<1>5. ASSUME NEW now \in BOOLEAN, fade(now)
      PROVE  PInv'
  <2> DEFINE p == [pointer EXCEPT !.direction = 0, !.alpha = 0]
  <2>1. CASE now
    <3>1. updatePointerLocked(p) /\ UNCHANGED display
      BY <1>5, <2>1 DEF fade
    <3>2. /\ p \in Pointers /\ p.x = pointer.x /\ p.y = pointer.y
          /\ p.presentation = pointer.presentation
          /\ p.icon = pointer.icon /\ p.hover = pointer.hover
      BY <1>1, Dimmed, Alphas
    <3> HIDE DEF p
    <3> QED BY <3>1, <3>2, StaysPut
  <2>2. CASE ~now
    BY <1>4, <1>5, <2>2 DEF fade
  <2> QED BY <2>1, <2>2
<1>6. ASSUME NEW now \in BOOLEAN, unfade(now)
      PROVE  PInv'
  <2> DEFINE p == [pointer EXCEPT !.direction = 0, !.alpha = Opaque]
  <2>1. CASE now
    <3>1. updatePointerLocked(p) /\ UNCHANGED display
      BY <1>6, <2>1 DEF unfade
    <3>2. /\ p \in Pointers /\ p.x = pointer.x /\ p.y = pointer.y
          /\ p.presentation = pointer.presentation
          /\ p.icon = pointer.icon /\ p.hover = pointer.hover
      BY <1>1, Dimmed, Alphas
    <3> HIDE DEF p
    <3> QED BY <3>1, <3>2, StaysPut
  <2>2. CASE ~now
    <3>1. 1 \in -1 .. 1
      OBVIOUS
    <3> QED BY <1>6, <2>2, <3>1, Unseen DEF unfade
  <2> QED BY <2>1, <2>2
<1>7. ASSUME setInactivityTimeout \/ clearSpots
      PROVE  PInv'
  BY <1>7 DEF setInactivityTimeout, clearSpots, PInv
<1>8. ASSUME setPointerIcon
      PROVE  PInv'
  <2> DEFINE p == [pointer EXCEPT !.icon = 1, !.iconChanged = TRUE]
  <2>0. 1 \in 0 .. 1
    OBVIOUS
  <2>1. updatePointerLocked(p) /\ UNCHANGED display
    BY <1>8 DEF setPointerIcon
  <2>2. /\ p \in Pointers /\ p.x = pointer.x /\ p.y = pointer.y
        /\ p.iconChanged = TRUE
    BY <1>1, <2>0, NewIcon
  <2> HIDE DEF p
  <2> QED BY <2>1, <2>2, StaysPut
<1>9. ASSUME setHoverIcon
      PROVE  PInv'
  <2> DEFINE p == [pointer EXCEPT !.hover = 1, !.iconChanged = TRUE]
  <2>0. 1 \in 0 .. 1
    OBVIOUS
  <2>1. updatePointerLocked(p) /\ UNCHANGED display
    BY <1>9 DEF setHoverIcon
  <2>2. /\ p \in Pointers /\ p.x = pointer.x /\ p.y = pointer.y
        /\ p.iconChanged = TRUE
    BY <1>1, <2>0, NewIcon
  <2> HIDE DEF p
  <2> QED BY <2>1, <2>2, StaysPut
<1>10. ASSUME NEW how \in Presentation, setPresentation(how)
       PROVE  PInv'
  <2> DEFINE p == [pointer EXCEPT !.presentation = how,
                                  !.presentationChanged = TRUE]
  <2>1. updatePointerLocked(p) /\ UNCHANGED display
    BY <1>10 DEF setPresentation
  <2>2. /\ p \in Pointers /\ p.x = pointer.x /\ p.y = pointer.y
        /\ p.presentationChanged
    BY <1>1 DEF Pointers
  <2> HIDE DEF p
  <2> QED BY <2>1, <2>2, StaysPut
<1>11. ASSUME NEW ids, NEW icon, setSpots(ids, icon)
       PROVE  PInv'
  <2>1. UNCHANGED <<display, pointer, pointerSprite>>
    BY <1>11, Zenon DEF setSpots
  <2> QED BY <2>1 DEF PInv
<1>12. ASSUME doAnimate
       PROVE  PInv'
  <2> PICK step \in 1 .. Opaque :
        IF pointer.direction # 0 THEN updatePointerLocked(Faded(pointer, step))
        ELSE UNCHANGED <<pointer, pointerSprite>>
    BY <1>12, Zenon DEF doAnimate
  <2>1. UNCHANGED display
    BY <1>12, Zenon DEF doAnimate
  <2>2. CASE pointer.direction # 0
    BY <1>1, <2>1, <2>2, FadedOK, StaysPut
  <2>3. CASE pointer.direction = 0
    BY <2>1, <2>3 DEF PInv
  <2> QED BY <2>2, <2>3
<1>13. ASSUME doInactivityTimeout
       PROVE  PInv'
  BY <1>4, <1>13 DEF doInactivityTimeout
<1>14. CASE UNCHANGED pointerVars
  BY <1>14 DEF pointerVars, PInv
<1> QED BY <1>2, <1>3, <1>5, <1>6, <1>7, <1>8, <1>9, <1>10, <1>11, <1>12,
           <1>13, <1>14 DEF PointerNext, PointerCalls

-----------------------------------------------------------------------------
(* The theorem *)

(* Whatever calls are made and however the display is resized and turned,   *)
(* the pointer is on the display (setPositionLocked, setDisplayViewport),   *)
(* and the sprite has been told its place, its visibility and its icon      *)
(* (updatePointerLocked) by the end of every call and message.              *)
THEOREM PointerStays == PointerSpec => []PointerOnScreen
<1>1. PInv => PointerOnScreen
  BY DEF PInv, OnScreen, Shown, PointerOnScreen
<1> QED BY <1>1, PointerInitOK, PointerStep, PTL DEF PointerSpec

-----------------------------------------------------------------------------
(* Lists and numbers *)

\* Induction, for a set instead of a predicate.
LEMMA AllNaturals ==
  ASSUME NEW S \in SUBSET Nat, 0 \in S, \A n \in S : n + 1 \in S
  PROVE  S = Nat
<1> DEFINE T == Nat \ S
<1> SUFFICES ASSUME T # {} PROVE FALSE
  OBVIOUS
<1>1. PICK x \in T : \A y \in T : ~ (<<y, x>> \in OpToRel(<, Nat))
  <2>1. T \subseteq Nat
    OBVIOUS
  <2> HIDE DEF T
  <2> QED BY <2>1, NatLessThanWellFounded, WFMin, Zenon
<1>2. \A y \in T : ~(y < x)
  BY <1>1 DEF OpToRel
<1>3. x # 0 /\ x - 1 \in Nat /\ x - 1 < x
  OBVIOUS
<1>4. x - 1 \in S
  BY <1>2, <1>3
<1>5. (x - 1) + 1 \in S
  BY <1>4
<1> QED BY <1>5, <1>3

\* A set of numbers has a least one.
LEMMA Least ==
  ASSUME NEW T \in SUBSET Nat, T # {}
  PROVE  \E x \in T : \A y \in T : x <= y
<1>1. PICK x \in T : \A y \in T : ~ (<<y, x>> \in OpToRel(<, Nat))
  BY NatLessThanWellFounded, WFMin, Zenon
<1>2. \A y \in T : ~(y < x)
  BY <1>1 DEF OpToRel
<1> QED BY <1>2

\* What taking an element out of a list leaves.
LEMMA Removed ==
  ASSUME NEW S, NEW q \in Seq(S), NEW i \in 1 .. Len(q)
  PROVE  /\ RemoveAt(q, i) \in Seq(S)
         /\ Len(RemoveAt(q, i)) = Len(q) - 1
         /\ \A j \in 1 .. Len(q) - 1 :
              RemoveAt(q, i)[j] = q[IF j < i THEN j ELSE j + 1]
<1> DEFINE a == SubSeq(q, 1, i - 1)
           b == SubSeq(q, i + 1, Len(q))
<1>1. Len(q) \in Nat /\ \A j \in 1 .. Len(q) : q[j] \in S
  BY LenProperties, ElementOfSeq
<1>2. /\ a \in Seq(S) /\ Len(a) = i - 1
      /\ \A j \in 1 .. i - 1 : a[j] = q[j]
  <2>1. \A j \in 1 .. i - 1 : q[j] \in S
    BY <1>1
  <2>2. 1 \in Int /\ i - 1 \in Int
    BY <1>1
  <2>3. /\ a \in Seq(S) /\ Len(a) = IF 1 <= i - 1 THEN (i - 1) - 1 + 1 ELSE 0
        /\ \A j \in 1 .. (i - 1) - 1 + 1 : a[j] = q[1 + j - 1]
    BY <2>1, <2>2, SubSeqProperties
  <2> HIDE DEF a
  <2> QED BY <1>1, <2>3
<1>3. /\ b \in Seq(S) /\ Len(b) = Len(q) - i
      /\ \A j \in 1 .. Len(q) - i : b[j] = q[i + j]
  <2>1. \A j \in i + 1 .. Len(q) : q[j] \in S
    BY <1>1
  <2>2. i + 1 \in Int /\ Len(q) \in Int
    BY <1>1
  <2>3. /\ b \in Seq(S)
        /\ Len(b) = IF i + 1 <= Len(q) THEN Len(q) - (i + 1) + 1 ELSE 0
        /\ \A j \in 1 .. Len(q) - (i + 1) + 1 : b[j] = q[(i + 1) + j - 1]
    BY <2>1, <2>2, SubSeqProperties
  <2> HIDE DEF b
  <2> QED BY <1>1, <2>3
<1> HIDE DEF a, b
<1>4. /\ a \o b \in Seq(S) /\ Len(a \o b) = Len(a) + Len(b)
      /\ \A j \in 1 .. Len(a) + Len(b) :
           (a \o b)[j] = IF j <= Len(a) THEN a[j] ELSE b[j - Len(a)]
  BY <1>2, <1>3, ConcatProperties
<1> DEFINE r == a \o b
<1>5. RemoveAt(q, i) = r
  BY DEF RemoveAt, a, b
<1> HIDE DEF r
<1>6. /\ r \in Seq(S) /\ Len(r) = Len(q) - 1
      /\ \A j \in 1 .. Len(q) - 1 : r[j] = q[IF j < i THEN j ELSE j + 1]
  <2>1. r \in Seq(S) /\ Len(r) = Len(q) - 1
    BY <1>1, <1>2, <1>3, <1>4 DEF r
  <2>2. ASSUME NEW j \in 1 .. Len(q) - 1
        PROVE  r[j] = q[IF j < i THEN j ELSE j + 1]
    <3>1. r[j] = IF j <= i - 1 THEN a[j] ELSE b[j - (i - 1)]
      BY <1>1, <1>2, <1>3, <1>4 DEF r
    <3>2. CASE j < i
      BY <1>1, <1>2, <3>1, <3>2
    <3>3. CASE ~(j < i)
      <4>1. j - (i - 1) \in 1 .. Len(q) - i /\ i + (j - (i - 1)) = j + 1
        BY <1>1, <3>3
      <4>2. r[j] = b[j - (i - 1)]
        BY <1>1, <3>1, <3>3
      <4> QED BY <1>3, <3>3, <4>1, <4>2
    <3> QED BY <3>2, <3>3
  <2> QED BY <2>1, <2>2
<1> QED BY <1>5, <1>6

\* Taking the last element out.
LEMMA Fronted ==
  ASSUME NEW S, NEW q \in Seq(S), q # <<>>
  PROVE  /\ Len(q) \in Nat \ {0}
         /\ Last(q) = q[Len(q)] /\ Last(q) \in S
         /\ Front(q) \in Seq(S) /\ Len(Front(q)) = Len(q) - 1
         /\ \A j \in 1 .. Len(q) - 1 : Front(q)[j] = q[j]
<1>1. Len(q) \in Nat \ {0}
  BY EmptySeq
<1>2. \A j \in 1 .. Len(q) - 1 : q[j] \in S
  BY <1>1, ElementOfSeq
<1>3. q[Len(q)] \in S
  BY <1>1, ElementOfSeq
<1>4. 1 \in Int /\ Len(q) - 1 \in Int
  BY <1>1
<1> DEFINE f == SubSeq(q, 1, Len(q) - 1)
<1>5. /\ f \in Seq(S) /\ Len(f) = IF 1 <= Len(q) - 1 THEN (Len(q) - 1) - 1 + 1 ELSE 0
      /\ \A j \in 1 .. (Len(q) - 1) - 1 + 1 : f[j] = q[1 + j - 1]
  BY <1>2, <1>4, SubSeqProperties
<1>6. Front(q) = f
  BY DEF Front
<1> HIDE DEF f
<1>7. Len(f) = Len(q) - 1
  <2>1. Len(f) = IF 1 <= Len(q) - 1 THEN (Len(q) - 1) - 1 + 1 ELSE 0
    BY <1>5
  <2> DEFINE n == Len(q)
  <2>2. n \in Nat \ {0} /\ Len(f) = IF 1 <= n - 1 THEN (n - 1) - 1 + 1 ELSE 0
    BY <1>1, <2>1
  <2> HIDE DEF n
  <2>3. Len(f) = n - 1
    BY <2>2
  <2> QED BY <2>3 DEF n
<1>8. ASSUME NEW j \in 1 .. Len(q) - 1 PROVE f[j] = q[j]
  <2>1. j \in 1 .. (Len(q) - 1) - 1 + 1 /\ 1 + j - 1 = j
    BY <1>1
  <2>2. f[j] = q[1 + j - 1]
    BY <1>5, <2>1
  <2> QED BY <2>1, <2>2
<1> QED BY <1>1, <1>3, <1>5, <1>6, <1>7, <1>8 DEF Last

\* Adding an element to a list.
LEMMA Appended ==
  ASSUME NEW S, NEW q \in Seq(S), NEW e \in S
  PROVE  /\ Len(q) \in Nat
         /\ Append(q, e) \in Seq(S) /\ Len(Append(q, e)) = Len(q) + 1
         /\ Append(q, e)[Len(q) + 1] = e
         /\ \A j \in 1 .. Len(q) : Append(q, e)[j] = q[j]
<1>1. Len(q) \in Nat
  BY LenProperties
<1> QED BY <1>1, AppendProperties

-----------------------------------------------------------------------------
(* Spots and pools of sprites *)

IconName == {"none", "touch", "hover"}
Spot == [id : 0 .. MAX_POINTER_ID, sprite : SpotSprite, alpha : Int,
         lastIcon : IconName]
Show == [icon : IconName, alpha : Int]
Pools == [spots : Seq(Spot), recycled : Seq(SpotSprite), shows : [SpotSprite -> Show]]

\* The sprites of the spots of q and of the pool r, the ids of the spots.
Owned(q) == {q[i].sprite : i \in 1 .. Len(q)}
Pooled(r) == {r[i] : i \in 1 .. Len(r)}
Ids(q) == {q[i].id : i \in 1 .. Len(q)}
Live(q) == Ids(q) \ {INVALID_ID}

\* No two spots have the same sprite, or the same finger.
Single(q) ==
  \A i, j \in 1 .. Len(q) :
    /\ q[i].sprite = q[j].sprite => i = j
    /\ q[i].id = q[j].id => i = j \/ Fading(q[i])
PooledOnce(r) == \A i, j \in 1 .. Len(r) : r[i] = r[j] => i = j

\* t without what is shown; R are the sprites of spots that a loop has yet to
\* see or has taken out of the list.
Apart(t, R) ==
  /\ t \in Pools
  /\ Single(t.spots) /\ PooledOnce(t.recycled)
  /\ Owned(t.spots) \cap R = {}
  /\ (Owned(t.spots) \cup R) \cap Pooled(t.recycled) = {}

\* The sprites of S show something, and no others.
Showing(t, S) == \A s \in SpotSprite : t.shows[s].icon # "none" <=> s \in S

\* What a spot of a list is made of.
LEMMA SpotTypes ==
  ASSUME NEW q \in Seq(Spot)
  PROVE  /\ Len(q) \in Nat
         /\ \A i \in 1 .. Len(q) :
              /\ q[i] \in Spot /\ q[i].sprite \in SpotSprite /\ q[i].alpha \in Int
              /\ q[i].id \in 0 .. MAX_POINTER_ID /\ q[i].lastIcon \in IconName
         /\ Owned(q) \subseteq SpotSprite
<1>1. Len(q) \in Nat /\ \A i \in 1 .. Len(q) : q[i] \in Spot
  BY LenProperties, ElementOfSeq
<1>2. \A i \in 1 .. Len(q) :
        /\ q[i].sprite \in SpotSprite /\ q[i].alpha \in Int
        /\ q[i].id \in 0 .. MAX_POINTER_ID /\ q[i].lastIcon \in IconName
  BY <1>1 DEF Spot
<1> QED BY <1>1, <1>2 DEF Owned

\* A list without a spot is without its sprite, and keeps the others.
LEMMA RemovedSpot ==
  ASSUME NEW q \in Seq(Spot), Single(q), NEW i \in 1 .. Len(q)
  PROVE  LET r == RemoveAt(q, i)
         IN /\ r \in Seq(Spot) /\ Len(r) = Len(q) - 1 /\ Single(r)
            /\ Owned(r) = Owned(q) \ {q[i].sprite}
            /\ Ids(r) \subseteq Ids(q) /\ Ids(q) \subseteq Ids(r) \cup {q[i].id}
<1> DEFINE r == RemoveAt(q, i)
           at(j) == IF j < i THEN j ELSE j + 1
<1>1. /\ r \in Seq(Spot) /\ Len(r) = Len(q) - 1
      /\ \A j \in 1 .. Len(q) - 1 : r[j] = q[at(j)]
  BY Removed
<1>2. Len(q) \in Nat
  BY SpotTypes
<1>3. \A j \in 1 .. Len(q) - 1 : at(j) \in (1 .. Len(q)) \ {i}
  BY <1>2
<1>4. \A j, k \in 1 .. Len(q) - 1 : at(j) = at(k) => j = k
  BY <1>2
<1>5. \A k \in (1 .. Len(q)) \ {i} : \E j \in 1 .. Len(q) - 1 : at(j) = k
  <2> TAKE k \in (1 .. Len(q)) \ {i}
  <2>1. CASE k < i
    BY <1>2, <2>1
  <2>2. CASE k > i
    <3>1. k - 1 \in 1 .. Len(q) - 1 /\ at(k - 1) = k
      BY <1>2, <2>2
    <3> HIDE DEF at
    <3> QED BY <3>1
  <2> QED BY <1>2, <2>1, <2>2
<1> HIDE DEF r, at
<1>6. Single(r)
  BY <1>1, <1>3, <1>4 DEF Single, Fading
<1>7. Owned(r) \subseteq Owned(q) \ {q[i].sprite}
  BY <1>1, <1>3 DEF Owned, Single
<1>8. Owned(q) \ {q[i].sprite} \subseteq Owned(r)
  <2> SUFFICES ASSUME NEW s \in Owned(q), s # q[i].sprite PROVE s \in Owned(r)
    OBVIOUS
  <2>1. PICK k \in 1 .. Len(q) : q[k].sprite = s
    BY DEF Owned
  <2>2. PICK j \in 1 .. Len(q) - 1 : at(j) = k
    BY <1>5, <2>1
  <2>3. j \in 1 .. Len(r) /\ r[j].sprite = s
    BY <1>1, <2>1, <2>2
  <2> QED BY <2>3 DEF Owned
<1>9. Ids(r) \subseteq Ids(q)
  BY <1>1, <1>3 DEF Ids
<1>10. Ids(q) \subseteq Ids(r) \cup {q[i].id}
  <2> SUFFICES ASSUME NEW d \in Ids(q), d # q[i].id PROVE d \in Ids(r)
    OBVIOUS
  <2>1. PICK k \in 1 .. Len(q) : q[k].id = d
    BY DEF Ids
  <2>2. PICK j \in 1 .. Len(q) - 1 : at(j) = k
    BY <1>5, <2>1
  <2>3. j \in 1 .. Len(r) /\ r[j].id = d
    BY <1>1, <2>1, <2>2
  <2> QED BY <2>3 DEF Ids
<1> QED BY <1>1, <1>6, <1>7, <1>8, <1>9, <1>10 DEF r

\* A spot of a new sprite and a new finger may join the list.
LEMMA AppendedSpot ==
  ASSUME NEW q \in Seq(Spot), Single(q), NEW e \in Spot, e.sprite \notin Owned(q),
         \A i \in 1 .. Len(q) : q[i].id = e.id => Fading(e)
  PROVE  LET r == Append(q, e)
         IN /\ r \in Seq(Spot) /\ Len(r) = Len(q) + 1 /\ Single(r)
            /\ r[Len(r)] = e
            /\ Owned(r) = Owned(q) \cup {e.sprite} /\ Ids(r) = Ids(q) \cup {e.id}
<1> DEFINE r == Append(q, e)
<1>1. /\ Len(q) \in Nat /\ r \in Seq(Spot) /\ Len(r) = Len(q) + 1
      /\ r[Len(q) + 1] = e /\ \A j \in 1 .. Len(q) : r[j] = q[j]
  BY Appended
<1> HIDE DEF r
<1>2. Single(r)
  BY <1>1 DEF Single, Owned, Fading
<1>3. Owned(r) = Owned(q) \cup {e.sprite}
  BY <1>1 DEF Owned
<1>4. Ids(r) = Ids(q) \cup {e.id}
  BY <1>1 DEF Ids
<1> QED BY <1>1, <1>2, <1>3, <1>4 DEF r

\* A sprite may join a pool that does not have it.
LEMMA AppendedSprite ==
  ASSUME NEW q \in Seq(SpotSprite), PooledOnce(q), NEW s \in SpotSprite,
         s \notin Pooled(q)
  PROVE  LET r == Append(q, s)
         IN /\ r \in Seq(SpotSprite) /\ PooledOnce(r)
            /\ Pooled(r) = Pooled(q) \cup {s}
<1> DEFINE r == Append(q, s)
<1>1. /\ Len(q) \in Nat /\ r \in Seq(SpotSprite) /\ Len(r) = Len(q) + 1
      /\ r[Len(q) + 1] = s /\ \A j \in 1 .. Len(q) : r[j] = q[j]
  BY Appended
<1> HIDE DEF r
<1>2. PooledOnce(r)
  BY <1>1 DEF PooledOnce, Pooled
<1>3. Pooled(r) = Pooled(q) \cup {s}
  BY <1>1 DEF Pooled
<1> QED BY <1>1, <1>2, <1>3 DEF r

\* The sprite taken from the pool is no longer in it.
LEMMA PoppedSprite ==
  ASSUME NEW q \in Seq(SpotSprite), PooledOnce(q), q # <<>>
  PROVE  /\ Last(q) \in Pooled(q) /\ Last(q) \in SpotSprite
         /\ Front(q) \in Seq(SpotSprite) /\ PooledOnce(Front(q))
         /\ Pooled(Front(q)) = Pooled(q) \ {Last(q)}
<1> DEFINE f == Front(q)
           l == Last(q)
<1>1. /\ Len(q) \in Nat \ {0} /\ l = q[Len(q)] /\ l \in SpotSprite
      /\ f \in Seq(SpotSprite) /\ Len(f) = Len(q) - 1
      /\ \A j \in 1 .. Len(q) - 1 : f[j] = q[j]
  BY Fronted
<1> HIDE DEF f, l
<1>2. PooledOnce(f)
  BY <1>1 DEF PooledOnce
<1>3. l \in Pooled(q) /\ Pooled(f) = Pooled(q) \ {l}
  BY <1>1 DEF PooledOnce, Pooled
<1> QED BY <1>1, <1>2, <1>3 DEF f, l

\* What a list of spots is to the rest does not depend on alphas and icons,
\* and a spot may lose its finger.
LEMMA SameSpots ==
  ASSUME NEW q \in Seq(Spot), NEW r \in Seq(Spot), Len(r) = Len(q),
         \A i \in 1 .. Len(q) :
           r[i].sprite = q[i].sprite /\ r[i].id \in {q[i].id, INVALID_ID}
  PROVE  Owned(r) = Owned(q) /\ (Single(q) => Single(r))
<1>1. Owned(r) = Owned(q)
  BY DEF Owned
<1>2. Single(q) => Single(r)
  BY DEF Single, Fading
<1> QED BY <1>1, <1>2

-----------------------------------------------------------------------------
(* What setSpots does *)

\* The state between two calls: no sprite is shared, exactly the sprites of
\* the spots show something, and there is room for every spot.
Good(t) ==
  /\ Apart(t, {}) /\ Showing(t, Owned(t.spots))
  /\ Len(t.spots) <= MAX_SPOTS

\* A spot that is out of the list is released: its sprite, one of R, shows
\* nothing any more and goes into the pool if there is room.
LEMMA Released ==
  ASSUME NEW t, NEW R \in SUBSET SpotSprite, Apart(t, R),
         Showing(t, Owned(t.spots) \cup R),
         NEW spot \in Spot, spot.sprite \in R,
         NEW u, u = releaseSpotLocked(t, spot),
         NEW Q, Q = R \ {spot.sprite}
  PROVE  /\ u.spots = t.spots /\ Apart(u, Q)
         /\ Showing(u, Owned(t.spots) \cup Q)
<1> DEFINE s == spot.sprite
           r == IF Len(t.recycled) < MAX_RECYCLED_SPRITES
                THEN Append(t.recycled, s) ELSE t.recycled
           h == [t.shows EXCEPT ![s].icon = "none"]
<1>1. /\ t \in Pools /\ t.spots \in Seq(Spot) /\ t.recycled \in Seq(SpotSprite)
      /\ t.shows \in [SpotSprite -> Show]
  BY DEF Apart, Pools
<1>2. u = [spots |-> t.spots, recycled |-> r, shows |-> h]
  <2>1. u = [t EXCEPT !.shows = h, !.recycled = r]
    BY Zenon DEF releaseSpotLocked
  <2> HIDE DEF h, r
  <2> QED BY <1>1, <2>1 DEF Pools
<1>3. /\ s \in SpotSprite /\ s \notin Pooled(t.recycled) /\ s \notin Owned(t.spots)
      /\ s \in R /\ Q = R \ {s}
  BY DEF Apart
<1>4. /\ h \in [SpotSprite -> Show] /\ h[s].icon = "none"
      /\ \A x \in SpotSprite \ {s} : h[x] = t.shows[x]
  BY <1>1, <1>3 DEF Show, IconName
<1>5. PooledOnce(t.recycled)
  BY DEF Apart
<1>6. /\ r \in Seq(SpotSprite) /\ PooledOnce(r)
      /\ Pooled(r) \subseteq Pooled(t.recycled) \cup {s}
  BY <1>1, <1>3, <1>5, AppendedSprite
<1> HIDE DEF r, h, s
<1>7. /\ u \in Pools /\ u.spots = t.spots /\ u.recycled = r /\ u.shows = h
  BY <1>1, <1>2, <1>4, <1>6 DEF Pools
<1>8. Apart(u, Q)
  <2>1. (Owned(t.spots) \cup Q) \cap Pooled(r) = {}
    BY <1>3, <1>6 DEF Apart
  <2>2. Single(t.spots) /\ Owned(t.spots) \cap Q = {}
    BY DEF Apart
  <2> QED BY <1>6, <1>7, <2>1, <2>2 DEF Apart
<1>9. Showing(u, Owned(t.spots) \cup Q)
  BY <1>3, <1>4, <1>7 DEF Showing, s
<1> QED BY <1>7, <1>8, <1>9

\* A new spot fits without the eviction of a finger.
HasRoom(t) == Len(t.spots) < MAX_SPOTS \/ INVALID_ID \in Ids(t.spots)

\* A full list loses a spot, so that a new one fits, if possible a fading one.
LEMMA RoomMade ==
  ASSUME NEW t, Good(t)
  PROVE  LET m == MakeRoom(t)
         IN /\ Good(m) /\ Len(m.spots) < MAX_SPOTS /\ Ids(m.spots) \subseteq Ids(t.spots)
            /\ HasRoom(t) => Live(m.spots) = Live(t.spots)
<1>1. /\ t \in Pools /\ t.spots \in Seq(Spot) /\ t.recycled \in Seq(SpotSprite)
      /\ t.shows \in [SpotSprite -> Show]
  BY DEF Good, Apart, Pools
<1>2. Len(t.spots) \in Nat /\ MAX_SPOTS \in Nat \ {0} /\ Len(t.spots) <= MAX_SPOTS
  BY <1>1, SpotTypes, PointerBounds DEF Good
<1>3. CASE Len(t.spots) < MAX_SPOTS
  BY <1>3 DEF MakeRoom
<1>4. CASE ~(Len(t.spots) < MAX_SPOTS)
  <2> DEFINE fading == {i \in DOMAIN t.spots : Fading(t.spots[i])}
             i == IF fading = {} THEN 1 ELSE Min(fading)
             t1 == [t EXCEPT !.spots = RemoveAt(@, i)]
             m == releaseSpotLocked(t1, t.spots[i])
             R == {t.spots[i].sprite}
  <2>1. MakeRoom(t) = m
    BY <1>4 DEF MakeRoom
  <2>2. Len(t.spots) = MAX_SPOTS
    BY <1>2, <1>4
  <2>3. DOMAIN t.spots = 1 .. Len(t.spots)
    BY <1>1, LenProperties
  <2>4. i \in 1 .. Len(t.spots) /\ (fading # {} => i \in fading)
    <3>1. CASE fading = {}
      BY <1>2, <2>2, <3>1
    <3>2. CASE fading # {}
      <4>1. fading \in SUBSET Nat /\ fading \subseteq 1 .. Len(t.spots)
        BY <1>2, <2>3
      <4> HIDE DEF fading
      <4>2. \E x \in fading : \A y \in fading : x <= y
        BY <3>2, <4>1, Least
      <4>3. Min(fading) \in fading
        BY <4>2 DEF Min
      <4> QED BY <3>2, <4>1, <4>3
    <3> QED BY <3>1, <3>2
  <2>4a. INVALID_ID \in Ids(t.spots) => t.spots[i].id = INVALID_ID
    BY <2>3, <2>4 DEF Ids, Fading
  <2> HIDE DEF i, fading
  <2> DEFINE q == RemoveAt(t.spots, i)
  <2>5. Single(t.spots)
    BY DEF Good, Apart
  <2>6. /\ q \in Seq(Spot) /\ Len(q) = Len(t.spots) - 1 /\ Single(q)
        /\ Owned(q) = Owned(t.spots) \ R /\ Ids(q) \subseteq Ids(t.spots)
        /\ Ids(t.spots) \subseteq Ids(q) \cup {t.spots[i].id}
    BY <1>1, <2>4, <2>5, RemovedSpot
  <2>7. t1 = [spots |-> q, recycled |-> t.recycled, shows |-> t.shows]
    BY <1>1 DEF Pools
  <2> HIDE DEF q, t1
  <2>8. /\ t1 \in Pools /\ t1.spots = q /\ t1.recycled = t.recycled
        /\ t1.shows = t.shows
    BY <1>1, <2>6, <2>7 DEF Pools
  <2>9. t.spots[i] \in Spot /\ R \subseteq SpotSprite /\ R \subseteq Owned(t.spots)
    BY <1>1, <2>4, SpotTypes DEF Owned
  <2>10. Apart(t1, R)
    <3>1. (Owned(q) \cup R) \cap Pooled(t.recycled) = {} /\ Owned(q) \cap R = {}
      BY <2>6, <2>9 DEF Good, Apart
    <3>2. PooledOnce(t.recycled)
      BY DEF Good, Apart
    <3> HIDE DEF R
    <3> QED BY <2>6, <2>8, <3>1, <3>2 DEF Apart
  <2>11. Showing(t1, Owned(t1.spots) \cup R)
    <3>1. Owned(t1.spots) \cup R = Owned(t.spots)
      BY <2>6, <2>8, <2>9
    <3> QED BY <2>8, <3>1 DEF Good, Showing
  <2>12. R \ {t.spots[i].sprite} = {} /\ t.spots[i].sprite \in R
    OBVIOUS
  <2> HIDE DEF R, m
  <2>13. m.spots = q /\ Apart(m, {}) /\ Showing(m, Owned(q) \cup {})
    <3>1. m = releaseSpotLocked(t1, t.spots[i])
      BY DEF m
    <3>2. {} = R \ {t.spots[i].sprite}
      BY <2>12
    <3> QED BY <2>8, <2>9, <2>10, <2>11, <2>12, <3>1, <3>2, Released
  <2>14. Good(m)
    <3>1. Owned(q) \cup {} = Owned(q) /\ Len(q) <= MAX_SPOTS
      BY <1>2, <2>6
    <3> QED BY <2>13, <3>1 DEF Good
  <2>15. HasRoom(t) => Live(m.spots) = Live(t.spots)
    BY <1>4, <2>6, <2>13, <2>4a DEF HasRoom, Live
  <2> QED BY <1>2, <2>1, <2>2, <2>6, <2>13, <2>14, <2>15
<1> QED BY <1>3, <1>4

\* createSprite finds a sprite that no spot has.
LEMMA Unowned ==
  ASSUME NEW q \in Seq(Spot), Len(q) < MAX_SPOTS
  PROVE  \E s \in SpotSprite : s \notin Owned(q)
<1>1. Len(q) \in Nat /\ Owned(q) \subseteq SpotSprite
  BY SpotTypes
<1> DEFINE f == [i \in 1 .. Len(q) |-> q[i].sprite]
<1>2. f \in Surjection(1 .. Len(q), Owned(q))
  BY DEF Surjection, Owned
<1> HIDE DEF f
<1>3. IsFiniteSet(1 .. Len(q)) /\ Cardinality(1 .. Len(q)) = Len(q)
  <2>1. 1 \in Int /\ Len(q) \in Int
    BY <1>1
  <2>2. /\ IsFiniteSet(1 .. Len(q))
        /\ Cardinality(1 .. Len(q)) = IF 1 > Len(q) THEN 0 ELSE Len(q) - 1 + 1
    BY <2>1, FS_Interval
  <2> QED BY <1>1, <2>2
<1>4. Cardinality(Owned(q)) <= Len(q)
  BY <1>2, <1>3, FS_Surjection
<1>5. Owned(q) # SpotSprite
  <2>1. Cardinality(SpotSprite) \in Nat /\ Cardinality(SpotSprite) >= MAX_SPOTS
    BY PointerBounds, FS_CardinalityType
  <2> QED BY <1>1, <1>4, <2>1, PointerBounds
<1> QED BY <1>1, <1>5

\* Until updateSprite a new spot has a sprite without icon.
Iconless(n, id) ==
  \E k \in 1 .. Len(n.spots) :
    /\ n.spots[k].id = id /\ n.spots[k].lastIcon = "none"
    /\ Showing(n, Owned(n.spots) \ {n.spots[k].sprite})

\* A spot gets a sprite that nobody else has, from the pool or a new one; all
\* is well but for its icon.
LEMMA SpotCreated ==
  ASSUME NEW t0, Good(t0), NEW id \in Finger, id \notin Ids(t0.spots),
         NEW n, n = createAndAddSpotLocked(t0, id)
  PROVE  /\ Apart(n, {}) /\ Len(n.spots) <= MAX_SPOTS /\ Iconless(n, id)
         /\ HasRoom(t0) => Live(n.spots) = Live(t0.spots) \cup {id}
<1> DEFINE t == MakeRoom(t0)
           used == {t.spots[i].sprite : i \in DOMAIN t.spots}
           s == IF t.recycled # <<>> THEN Last(t.recycled)
                ELSE CHOOSE free \in SpotSprite : free \notin used
           e == [id |-> id, sprite |-> s, alpha |-> Opaque, lastIcon |-> "none"]
           q == Append(t.spots, e)
           r == IF t.recycled # <<>> THEN Front(t.recycled) ELSE <<>>
           h == IF t.recycled # <<>> THEN t.shows
                ELSE [t.shows EXCEPT ![s] = [icon |-> "none", alpha |-> Opaque]]
<1>1. n = [spots |-> q, recycled |-> r, shows |-> h]
  BY Zenon DEF createAndAddSpotLocked
<1>2. /\ Good(t) /\ Len(t.spots) < MAX_SPOTS /\ id \notin Ids(t.spots)
      /\ HasRoom(t0) => Live(t.spots) = Live(t0.spots)
  BY RoomMade
<1> HIDE DEF t
<1>3. /\ t.spots \in Seq(Spot) /\ t.recycled \in Seq(SpotSprite)
      /\ t.shows \in [SpotSprite -> Show] /\ Len(t.spots) \in Nat
      /\ Single(t.spots) /\ PooledOnce(t.recycled)
      /\ Owned(t.spots) \cap Pooled(t.recycled) = {}
      /\ Showing(t, Owned(t.spots))
  BY <1>2, SpotTypes DEF Good, Apart, Pools
<1>4. used = Owned(t.spots)
  BY <1>3, LenProperties DEF Owned
<1>5. /\ s \in SpotSprite /\ s \notin Owned(t.spots)
      /\ r \in Seq(SpotSprite) /\ PooledOnce(r)
      /\ Pooled(r) \subseteq Pooled(t.recycled) \ {s}
  <2>1. CASE t.recycled # <<>>
    <3>1. s = Last(t.recycled) /\ r = Front(t.recycled)
      BY <2>1
    <3> HIDE DEF s, r
    <3> QED BY <1>3, <2>1, <3>1, PoppedSprite
  <2>2. CASE t.recycled = <<>>
    <3>1. s \in SpotSprite /\ s \notin used
      <4>1. s = CHOOSE free \in SpotSprite : free \notin used
        BY <2>2
      <4>2. \E free \in SpotSprite : free \notin used
        BY <1>2, <1>3, <1>4, Unowned
      <4> HIDE DEF s, used
      <4> QED BY <4>1, <4>2
    <3>2. r = <<>>
      BY <2>2
    <3> HIDE DEF s, r, used
    <3>3. r \in Seq(SpotSprite) /\ Len(r) = 0
      BY <3>2, EmptySeq
    <3>4. PooledOnce(r) /\ Pooled(r) = {}
      BY <3>3 DEF PooledOnce, Pooled
    <3> QED BY <1>4, <3>1, <3>3, <3>4
  <2> QED BY <2>1, <2>2
<1>6. h \in [SpotSprite -> Show] /\ h[s].icon = "none"
      /\ \A x \in SpotSprite \ {s} : h[x] = t.shows[x]
  <2>1. CASE t.recycled # <<>>
    <3>1. h = t.shows
      BY <2>1
    <3> HIDE DEF s, h
    <3> QED BY <1>3, <1>5, <3>1 DEF Showing
  <2>2. CASE t.recycled = <<>>
    <3>1. h = [t.shows EXCEPT ![s] = [icon |-> "none", alpha |-> Opaque]]
      BY <2>2
    <3> HIDE DEF s, h
    <3> QED BY <1>3, <1>5, <3>1 DEF Show, IconName, Opaque
  <2> QED BY <2>1, <2>2
<1> HIDE DEF s, r, h, used
<1>7. /\ e \in Spot /\ e.sprite = s /\ e.id = id /\ e.lastIcon = "none"
  BY <1>5, PointerBounds DEF Spot, IconName, Opaque, Finger
<1> HIDE DEF e
<1>8. /\ q \in Seq(Spot) /\ Len(q) = Len(t.spots) + 1 /\ Single(q)
      /\ q[Len(q)] = e /\ Owned(q) = Owned(t.spots) \cup {s}
      /\ Ids(q) = Ids(t.spots) \cup {id}
  <2>1. e.sprite \notin Owned(t.spots)
    BY <1>5, <1>7
  <2>2. \A i \in 1 .. Len(t.spots) : t.spots[i].id = e.id => Fading(e)
    BY <1>2, <1>7 DEF Ids
  <2> QED BY <1>3, <1>7, <2>1, <2>2, AppendedSpot
<1> HIDE DEF q
<1>9. /\ n \in Pools /\ n.spots = q /\ n.recycled = r /\ n.shows = h
  BY <1>1, <1>5, <1>6, <1>8 DEF Pools
<1>10. Apart(n, {})
  <2>1. (Owned(q) \cup {}) \cap Pooled(r) = {} /\ Owned(q) \cap {} = {}
    BY <1>3, <1>5, <1>8
  <2> QED BY <1>5, <1>8, <1>9, <2>1 DEF Apart
<1>11. Showing(n, Owned(n.spots) \ {s})
  BY <1>3, <1>5, <1>6, <1>8, <1>9 DEF Showing
<1>12. Len(q) \in 1 .. Len(q) /\ Len(q) <= MAX_SPOTS
  BY <1>2, <1>3, <1>8, PointerBounds
<1>13. HasRoom(t0) => Live(n.spots) = Live(t0.spots) \cup {id}
  <2>1. id # INVALID_ID
    BY PointerBounds DEF Finger, INVALID_ID
  <2> QED BY <1>2, <1>8, <1>9, <2>1 DEF Live
<1> QED BY <1>7, <1>8, <1>9, <1>10, <1>11, <1>12, <1>13 DEF Iconless

\* A finger of a call has a spot that shows something: the icon that
\* updateSprite does not set again is still shown.  The others keep theirs
\* if there is room.
LEMMA AddedOrMoved ==
  ASSUME NEW t0, Good(t0), NEW id \in Finger, NEW icon \in {"touch", "hover"},
         NEW u, u = AddOrMove(t0, id, icon)
  PROVE  /\ Good(u)
         /\ id \in Ids(t0.spots) \/ HasRoom(t0) =>
              Live(u.spots) = Live(t0.spots) \cup {id}
<1> DEFINE known == \E j \in DOMAIN t0.spots : t0.spots[j].id = id
           t == IF known THEN t0 ELSE createAndAddSpotLocked(t0, id)
           i == CHOOSE j \in DOMAIN t.spots : t.spots[j].id = id
           spot == t.spots[i]
           s == spot.sprite
           q == [t.spots EXCEPT ![i].lastIcon = icon]
           a == IF icon # spot.lastIcon THEN icon ELSE t.shows[s].icon
           h == [t.shows EXCEPT ![s] = [icon |-> a, alpha |-> spot.alpha]]
<1>1. u = [t EXCEPT !.spots = q, !.shows = h]
  BY Zenon DEF AddOrMove
<1>2. /\ Apart(t, {}) /\ Len(t.spots) <= MAX_SPOTS
      /\ \E k \in 1 .. Len(t.spots) :
           /\ t.spots[k].id = id
           /\ \/ Showing(t, Owned(t.spots))
              \/ /\ t.spots[k].lastIcon = "none"
                 /\ Showing(t, Owned(t.spots) \ {t.spots[k].sprite})
      /\ id \in Ids(t0.spots) \/ HasRoom(t0) =>
           Live(t.spots) = Live(t0.spots) \cup {id}
  <2>1. DOMAIN t0.spots = 1 .. Len(t0.spots)
    <3>1. t0.spots \in Seq(Spot)
      BY DEF Good, Apart, Pools
    <3> QED BY <3>1, LenProperties
  <2>2. CASE known
    <3>1. t = t0
      BY <2>2
    <3>2. id \in Live(t0.spots)
      BY <2>1, <2>2, PointerBounds DEF Live, Ids, Finger, INVALID_ID
    <3> HIDE DEF t
    <3> QED BY <2>1, <2>2, <3>1, <3>2 DEF Good
  <2>3. CASE ~known
    <3>1. t = createAndAddSpotLocked(t0, id)
      BY <2>3
    <3>2. id \notin Ids(t0.spots)
      BY <2>1, <2>3 DEF Ids
    <3> HIDE DEF t
    <3>3. /\ Apart(t, {}) /\ Len(t.spots) <= MAX_SPOTS /\ Iconless(t, id)
          /\ HasRoom(t0) => Live(t.spots) = Live(t0.spots) \cup {id}
      BY <3>1, <3>2, SpotCreated
    <3> QED BY <3>2, <3>3 DEF Iconless
  <2> QED BY <2>2, <2>3
<1> HIDE DEF t
<1>3. /\ t \in Pools /\ t.spots \in Seq(Spot) /\ t.recycled \in Seq(SpotSprite)
      /\ t.shows \in [SpotSprite -> Show] /\ Len(t.spots) \in Nat
      /\ DOMAIN t.spots = 1 .. Len(t.spots)
      /\ Single(t.spots)
  BY <1>2, LenProperties DEF Apart, Pools
<1>4. /\ i \in 1 .. Len(t.spots) /\ spot.id = id
      /\ \/ Showing(t, Owned(t.spots))
         \/ spot.lastIcon = "none" /\ Showing(t, Owned(t.spots) \ {s})
  <2>1. PICK k \in 1 .. Len(t.spots) :
           /\ t.spots[k].id = id
           /\ \/ Showing(t, Owned(t.spots))
              \/ /\ t.spots[k].lastIcon = "none"
                 /\ Showing(t, Owned(t.spots) \ {t.spots[k].sprite})
    BY <1>2
  <2>2. i \in 1 .. Len(t.spots) /\ t.spots[i].id = id
    BY <1>3, <2>1
  <2> HIDE DEF i
  <2>3. i = k
    BY <1>3, <2>1, <2>2, PointerBounds DEF Single, Fading, Finger, INVALID_ID
  <2> QED BY <2>1, <2>2, <2>3
<1> HIDE DEF i
<1>5. spot \in Spot /\ s \in SpotSprite /\ spot.alpha \in Int /\ s \in Owned(t.spots)
  BY <1>3, <1>4, SpotTypes DEF Owned
<1>6. /\ q \in Seq(Spot) /\ Len(q) = Len(t.spots)
      /\ \A j \in 1 .. Len(q) :
           q[j].sprite = t.spots[j].sprite /\ q[j].id = t.spots[j].id
  <2> DEFINE x == [spot EXCEPT !.lastIcon = icon]
  <2>1. x \in Spot /\ x.sprite = spot.sprite /\ x.id = spot.id
    BY <1>5 DEF Spot, IconName
  <2>2. q = [t.spots EXCEPT ![i] = x]
    OBVIOUS
  <2> HIDE DEF x, q
  <2>3. /\ q \in Seq(Spot) /\ Len(q) = Len(t.spots)
        /\ \A j \in 1 .. Len(t.spots) : q[j] = IF j = i THEN x ELSE t.spots[j]
    BY <1>3, <1>4, <2>1, <2>2, ExceptSeq
  <2> QED BY <2>1, <2>3
<1>7. /\ h \in [SpotSprite -> Show] /\ h[s].icon # "none"
      /\ \A x \in SpotSprite \ {s} : h[x] = t.shows[x]
  <2>1. a \in IconName /\ a # "none"
    <3>1. CASE icon # spot.lastIcon
      BY <3>1 DEF IconName
    <3>2. CASE icon = spot.lastIcon
      <4>1. Showing(t, Owned(t.spots))
        BY <1>4, <3>2
      <4>2. t.shows[s].icon # "none"
        BY <1>5, <4>1 DEF Showing
      <4> QED BY <1>3, <1>5, <3>2, <4>2 DEF Show
    <3> QED BY <3>1, <3>2
  <2>2. h = [t.shows EXCEPT ![s] = [icon |-> a, alpha |-> spot.alpha]]
    OBVIOUS
  <2> HIDE DEF a, h, s
  <2> QED BY <1>3, <1>5, <2>1, <2>2 DEF Show
<1> HIDE DEF q, h
<1>8. /\ u \in Pools /\ u.spots = q /\ u.recycled = t.recycled /\ u.shows = h
  BY <1>1, <1>3, <1>6, <1>7 DEF Pools
<1>9. Owned(q) = Owned(t.spots) /\ Single(q)
  BY <1>3, <1>6, SameSpots
<1>10. Apart(u, {})
  BY <1>2, <1>8, <1>9 DEF Apart
<1> HIDE DEF s
<1>11. Showing(u, Owned(q))
  BY <1>4, <1>5, <1>7, <1>8, <1>9 DEF Showing
<1>12. Live(u.spots) = Live(t.spots)
  BY <1>6, <1>8 DEF Live, Ids
<1> QED BY <1>2, <1>6, <1>8, <1>10, <1>11, <1>12 DEF Good

\* Spots that lose their finger keep their sprite.
LEMMA FadedOut ==
  ASSUME NEW q \in Seq(Spot), NEW keep
  PROVE  /\ FadeOut(q, keep) \in Seq(Spot) /\ Len(FadeOut(q, keep)) = Len(q)
         /\ Owned(FadeOut(q, keep)) = Owned(q)
         /\ Single(q) => Single(FadeOut(q, keep))
<1> DEFINE r == FadeOut(q, keep)
           n == Len(q)
<1>1. /\ n \in Nat /\ DOMAIN q = 1 .. n
      /\ \A i \in 1 .. n : q[i] \in Spot
  BY LenProperties, ElementOfSeq
<1>2. r = [i \in 1 .. n |-> IF q[i].id \in keep THEN q[i]
                            ELSE [q[i] EXCEPT !.id = INVALID_ID]]
  BY <1>1 DEF FadeOut
<1>3. \A i \in 1 .. n :
        /\ r[i] \in Spot /\ r[i].sprite = q[i].sprite
        /\ r[i].id \in {q[i].id, INVALID_ID}
  <2> TAKE i \in 1 .. n
  <2>1. INVALID_ID \in 0 .. MAX_POINTER_ID
    BY PointerBounds DEF INVALID_ID
  <2> DEFINE x == [q[i] EXCEPT !.id = INVALID_ID]
  <2>2. x \in Spot /\ x.sprite = q[i].sprite /\ x.id = INVALID_ID
    BY <1>1, <2>1 DEF Spot
  <2>3. r[i] = IF q[i].id \in keep THEN q[i] ELSE x
    BY <1>2
  <2> HIDE DEF x, r
  <2> QED BY <1>1, <2>2, <2>3
<1>4. r \in [1 .. n -> Spot]
  <2>1. DOMAIN r = 1 .. n /\ r = [i \in 1 .. n |-> r[i]]
    BY <1>2
  <2> HIDE DEF r
  <2> QED BY <1>3, <2>1
<1> HIDE DEF r
<1>5. r \in Seq(Spot)
  BY <1>1, <1>4, SeqDef
<1>6. Len(r) = n
  <2>1. Len(r) \in Nat /\ 1 .. Len(r) = 1 .. n
    BY <1>4, <1>5, LenProperties
  <2> HIDE DEF n
  <2> QED BY <1>1, <2>1
<1>7. Owned(r) = Owned(q) /\ (Single(q) => Single(r))
  BY <1>3, <1>5, <1>6, SameSpots
<1> QED BY <1>5, <1>6, <1>7 DEF r

\* Where a finger has no spot yet, there is room for one, unless it and those
\* that have one are too many: a list that is full of other fingers has
\* MAX_SPOTS of them.
LEMMA RoomLeft ==
  ASSUME NEW t, Good(t), NEW B, IsFiniteSet(B), Cardinality(B) <= MAX_SPOTS,
         Live(t.spots) \subseteq B, NEW id \in B, id \notin Ids(t.spots)
  PROVE  HasRoom(t)
<1> SUFFICES ASSUME Len(t.spots) >= MAX_SPOTS, INVALID_ID \notin Ids(t.spots)
             PROVE  FALSE
  <2>1. Len(t.spots) \in Nat /\ MAX_SPOTS \in Nat
    BY SpotTypes, PointerBounds DEF Good, Apart, Pools
  <2> QED BY <2>1 DEF HasRoom
<1>1. t.spots \in Seq(Spot) /\ Len(t.spots) \in Nat /\ Single(t.spots) /\ MAX_SPOTS \in Nat
  BY SpotTypes, PointerBounds DEF Good, Apart, Pools
<1> DEFINE n == Len(t.spots)
           f == [i \in 1 .. n |-> t.spots[i].id]
<1>2. \A i \in 1 .. n : t.spots[i].id \in B \ {id}
  BY DEF Live, Ids
<1>3. \A i, j \in 1 .. n : t.spots[i].id = t.spots[j].id => i = j
  BY <1>1 DEF Single, Fading, Ids
<1>4. f \in Injection(1 .. n, B \ {id})
  BY <1>2, <1>3 DEF Injection, IsInjective
<1>5. IsFiniteSet(B \ {id}) /\ Cardinality(B \ {id}) = Cardinality(B) - 1
  BY FS_RemoveElement
<1>6. Cardinality(1 .. n) = n
  <2>1. 1 \in Int /\ n \in Int
    BY <1>1
  <2>2. Cardinality(1 .. n) = IF 1 > n THEN 0 ELSE n - 1 + 1
    BY <2>1, FS_Interval
  <2> QED BY <1>1, <2>2
<1> HIDE DEF f
<1>7. Cardinality(1 .. n) <= Cardinality(B \ {id})
  BY <1>4, <1>5, FS_Injection
<1>8. Cardinality(B) \in Nat
  BY FS_CardinalityType
<1> QED BY <1>1, <1>5, <1>6, <1>7, <1>8

\* The fingers of a call, and those that have spots, fit in the list.
Fit(t, ids) == Cardinality(ids \cup Live(t.spots)) <= MAX_SPOTS

\* One round of the loop leaves nobody without spot.
LEMMA AnotherFinger ==
  ASSUME NEW t, Good(t), NEW t0, Good(t0), NEW ids \in SUBSET Finger, Fit(t0, ids),
         NEW id \in ids, NEW icon \in {"touch", "hover"},
         NEW seen \in SUBSET ids, Live(t.spots) = Live(t0.spots) \cup seen
  PROVE  Live(AddOrMove(t, id, icon).spots) = Live(t0.spots) \cup (seen \cup {id})
<1> DEFINE B == ids \cup Live(t0.spots)
<1>1. IsFiniteSet(B)
  <2>1. t0.spots \in Seq(Spot)
    BY DEF Good, Apart, Pools
  <2>2. B \in SUBSET (0 .. MAX_POINTER_ID)
    <3>1. \A i \in 1 .. Len(t0.spots) : t0.spots[i].id \in 0 .. MAX_POINTER_ID
      BY <2>1, SpotTypes
    <3>2. Live(t0.spots) \subseteq 0 .. MAX_POINTER_ID
      BY <3>1 DEF Live, Ids
    <3>3. Finger \subseteq 0 .. MAX_POINTER_ID
      BY PointerBounds DEF Finger
    <3> QED BY <3>2, <3>3
  <2>3. IsFiniteSet(0 .. MAX_POINTER_ID)
    BY FS_Interval, PointerBounds
  <2> QED BY <2>2, <2>3, FS_Subset
<1>2. Cardinality(B) <= MAX_SPOTS /\ Live(t.spots) \subseteq B /\ id \in B
  BY DEF Fit
<1> HIDE DEF B
<1>3. id \in Ids(t.spots) \/ HasRoom(t)
  BY <1>1, <1>2, RoomLeft
<1>4. id \in Finger
  OBVIOUS
<1>5. Live(AddOrMove(t, id, icon).spots) = Live(t.spots) \cup {id}
  BY <1>3, <1>4, AddedOrMoved
<1> QED BY <1>5

\* The loop over the fingers: it is defined, every round keeps the state good,
\* and in the end every finger of the call has a spot, if they fit.
LEMMA AllAddedOrMoved ==
  ASSUME NEW t, Good(t), NEW ids \in SUBSET Finger,
         NEW icon \in [ids -> {"touch", "hover"}],
         NEW u, u = AddOrMoveAll(t, ids, icon)
  PROVE  Good(u) /\ (Fit(t, ids) => ids \subseteq Live(u.spots))
<1> DEFINE N == MAX_POINTER_ID
           Loop(f, k) == [id \in 0 .. k |->
                            IF id = 0 THEN t
                            ELSE IF id \in ids THEN AddOrMove(f[id - 1], id, icon[id])
                            ELSE f[id - 1]]
           added == CHOOSE f : f = Loop(f, N)
           S == {k \in Nat : \E f : f = Loop(f, k)}
           Upto(k) == {id \in ids : id <= k}
           OK(k) == /\ Good(added[k])
                    /\ Fit(t, ids) => Live(added[k].spots) = Live(t.spots) \cup Upto(k)
           G == {k \in Nat : k <= N => OK(k)}
<1>1. u = added[N]
  BY Zenon DEF AddOrMoveAll
<1>2. N \in Nat /\ \A id \in ids : id \in Nat /\ id >= 1 /\ id <= N
  BY PointerBounds DEF Finger
<1>3. 0 \in S
  <2>1. [id \in 0 .. 0 |-> t] = Loop([id \in 0 .. 0 |-> t], 0)
    OBVIOUS
  <2> QED BY <2>1
<1>4. ASSUME NEW k \in S PROVE k + 1 \in S
  <2>1. PICK f : f = Loop(f, k)
    OBVIOUS
  <2> DEFINE g == Loop(f, k + 1)
  <2>2. ASSUME NEW id \in 0 .. k PROVE g[id] = f[id]
    <3>1. id \in 0 .. k + 1
      OBVIOUS
    <3>2. f[id] = Loop(f, k)[id]
      BY <2>1
    <3> QED BY <3>1, <3>2
  <2>3. g = Loop(g, k + 1)
    <3>1. \A id \in 0 .. k + 1 : id = 0 \/ id - 1 \in 0 .. k
      OBVIOUS
    <3>2. \A id \in 0 .. k + 1 : id = 0 \/ g[id - 1] = f[id - 1]
      BY <2>2, <3>1
    <3> QED BY <3>2
  <2> HIDE DEF g
  <2>4. \E x : x = Loop(x, k + 1)
    BY <2>3
  <2> QED BY <2>4
<1>5. \E f : f = Loop(f, N)
  <2>1. S = Nat
    <3> HIDE DEF S
    <3>1. S \in SUBSET Nat
      BY DEF S
    <3> QED BY <1>3, <1>4, <3>1, AllNaturals
  <2> QED BY <1>2, <2>1
<1>6. added = Loop(added, N)
  <2> HIDE DEF Loop
  <2> QED BY <1>5
<1> HIDE DEF added
<1>7. 0 \in G
  <2>1. added[0] = t
    BY <1>2, <1>6
  <2>2. Upto(0) = {}
    BY <1>2
  <2> HIDE DEF Upto
  <2> QED BY <2>1, <2>2
<1>8. ASSUME NEW k \in G PROVE k + 1 \in G
  <2> SUFFICES ASSUME k + 1 <= N PROVE OK(k + 1)
    OBVIOUS
  <2>1. k \in Nat /\ OK(k)
    BY <1>2
  <2>2. added[k + 1] = IF k + 1 \in ids THEN AddOrMove(added[k], k + 1, icon[k + 1])
                       ELSE added[k]
    BY <1>2, <1>6, <2>1
  <2>3. k + 1 \in Finger
    BY <1>2, <2>1 DEF Finger
  <2>4. Upto(k + 1) = IF k + 1 \in ids THEN Upto(k) \cup {k + 1} ELSE Upto(k)
    <3>1. \A id \in ids : id <= k + 1 <=> id <= k \/ id = k + 1
      BY <1>2, <2>1
    <3>2. k + 1 <= k + 1
      BY <2>1
    <3> QED BY <3>1, <3>2
  <2>5. Upto(k) \in SUBSET ids
    OBVIOUS
  <2> HIDE DEF Upto
  <2>6. CASE k + 1 \in ids
    <3>1. Good(added[k]) /\ icon[k + 1] \in {"touch", "hover"}
      BY <2>1, <2>6
    <3>2. Good(added[k + 1])
      BY <2>2, <2>3, <2>6, <3>1, AddedOrMoved
    <3>3. ASSUME Fit(t, ids)
          PROVE  Live(added[k + 1].spots) = Live(t.spots) \cup Upto(k + 1)
      <4>1. Live(added[k].spots) = Live(t.spots) \cup Upto(k)
        BY <2>1, <3>3
      <4>2. Live(AddOrMove(added[k], k + 1, icon[k + 1]).spots)
              = Live(t.spots) \cup (Upto(k) \cup {k + 1})
        <5> DEFINE w == added[k]
                   c == icon[k + 1]
                   d == k + 1
                   seen == Upto(k)
        <5>1. Good(w) /\ c \in {"touch", "hover"} /\ d \in ids /\ seen \in SUBSET ids
          BY <2>5, <2>6, <3>1
        <5>2. Live(w.spots) = Live(t.spots) \cup seen
          BY <4>1
        <5> HIDE DEF w, c, d, seen
        <5>3. Live(AddOrMove(w, d, c).spots) = Live(t.spots) \cup (seen \cup {d})
          BY <3>3, <5>1, <5>2, AnotherFinger
        <5> QED BY <5>3 DEF w, c, d, seen
      <4> QED BY <2>2, <2>4, <2>6, <4>2
    <3> QED BY <3>2, <3>3
  <2>7. CASE k + 1 \notin ids
    BY <2>1, <2>2, <2>4, <2>7
  <2> QED BY <2>6, <2>7
<1>9. G = Nat
  <2> HIDE DEF G
  <2>1. G \in SUBSET Nat
    BY DEF G
  <2> QED BY <1>7, <1>8, <2>1, AllNaturals
<1>10. OK(N)
  BY <1>2, <1>9
<1>11. Upto(N) = ids
  BY <1>2
<1> QED BY <1>1, <1>10, <1>11

-----------------------------------------------------------------------------
(* What doAnimate does *)

\* The sprites of the spots after the first n, and the ids of the first n.
Ahead(q, n) == {q[j].sprite : j \in n + 1 .. Len(q)}
Behind(q, n) == {q[j].id : j \in 1 .. n}

\* w is what the loop of doAnimate has made of the first n spots of q.
Fade(w, q, n) ==
  /\ Apart(w, Ahead(q, n)) /\ Showing(w, Owned(w.spots) \cup Ahead(q, n))
  /\ Len(w.spots) <= n
  /\ Ids(w.spots) \subseteq Behind(q, n)

\* A round: the spot stays, or is a step fainter, or is released.
LEMMA OneFaded ==
  ASSUME NEW q \in Seq(Spot), Single(q), NEW n \in Nat, n < Len(q),
         NEW w, Fade(w, q, n), NEW step \in 1 .. Opaque,
         NEW u, u = FadeSpot(w, q[n + 1], step)
  PROVE  Fade(u, q, n + 1)
<1> DEFINE spot == q[n + 1]
           s == spot.sprite
           R == Ahead(q, n)
           Q == Ahead(q, n + 1)
           a == spot.alpha - step
<1>1. /\ Len(q) \in Nat /\ n + 1 \in 1 .. Len(q)
      /\ spot \in Spot /\ s \in SpotSprite /\ spot.alpha \in Int
      /\ \A i \in 1 .. Len(q) : q[i].sprite \in SpotSprite
  BY SpotTypes
<1>2. R \subseteq SpotSprite /\ s \in R /\ Q = R \ {s}
  BY <1>1 DEF Ahead, Single
<1>3. Behind(q, n + 1) = Behind(q, n) \cup {spot.id}
  BY <1>1 DEF Behind
<1>4. \A i \in 1 .. Len(w.spots) : w.spots[i].id = spot.id => Fading(spot)
  <2>1. \A k \in 1 .. n : q[k].id = spot.id => Fading(spot)
    BY <1>1 DEF Single, Fading
  <2> HIDE DEF spot
  <2> QED BY <2>1 DEF Fade, Ids, Behind
<1>5. /\ w \in Pools /\ w.spots \in Seq(Spot) /\ w.recycled \in Seq(SpotSprite)
      /\ w.shows \in [SpotSprite -> Show]
      /\ Single(w.spots) /\ s \notin Owned(w.spots)
      /\ Len(w.spots) \in Nat
  BY <1>2, SpotTypes DEF Fade, Apart, Pools
\* A spot that stays, with what is shown of it.
<1>6. ASSUME NEW e \in Spot, e.sprite = s, e.id = spot.id,
             NEW h \in [SpotSprite -> Show],
             \A x \in SpotSprite : h[x].icon = w.shows[x].icon,
             u = [spots |-> Append(w.spots, e), recycled |-> w.recycled, shows |-> h]
      PROVE  Fade(u, q, n + 1)
  <2> DEFINE r == Append(w.spots, e)
  <2>1. /\ r \in Seq(Spot) /\ Len(r) = Len(w.spots) + 1 /\ Single(r)
        /\ Owned(r) = Owned(w.spots) \cup {s}
    <3>1. \A i \in 1 .. Len(w.spots) : w.spots[i].id = e.id => Fading(e)
      BY <1>4, <1>6 DEF Fading
    <3>2. e.sprite \notin Owned(w.spots)
      BY <1>5, <1>6
    <3> HIDE DEF s, spot
    <3> QED BY <1>5, <1>6, <3>1, <3>2, AppendedSpot
  <2>2. Ids(r) \subseteq Ids(w.spots) \cup {spot.id}
    <3>1. /\ r[Len(w.spots) + 1] = e
          /\ \A j \in 1 .. Len(w.spots) : r[j] = w.spots[j]
      BY <1>5, Appended
    <3> HIDE DEF r, spot
    <3> SUFFICES ASSUME NEW j \in 1 .. Len(r)
                 PROVE  r[j].id \in Ids(w.spots) \cup {spot.id}
      BY DEF Ids
    <3>2. CASE j = Len(w.spots) + 1
      BY <1>6, <3>1, <3>2
    <3>3. CASE j # Len(w.spots) + 1
      <4>1. j \in 1 .. Len(w.spots) /\ r[j] = w.spots[j]
        BY <1>5, <2>1, <3>1, <3>3
      <4> QED BY <4>1 DEF Ids
    <3> QED BY <3>2, <3>3
  <2> HIDE DEF r
  <2>3. u \in Pools /\ u.spots = r /\ u.recycled = w.recycled /\ u.shows = h
    BY <1>5, <1>6, <2>1 DEF Pools, r
  <2> HIDE DEF R, Q, s
  <2>4. Owned(r) \cup Q = Owned(w.spots) \cup R /\ Owned(r) \cap Q = {}
    BY <1>2, <2>1 DEF Fade, Apart, R
  <2>5. Apart(u, Q)
    BY <2>1, <2>3, <2>4 DEF Fade, Apart, R
  <2>6. Showing(u, Owned(r) \cup Q)
    BY <1>6, <2>3, <2>4 DEF Fade, Showing, R
  <2>7. Len(r) <= n + 1
    BY <1>5, <2>1 DEF Fade
  <2>8. Ids(r) \subseteq Behind(q, n + 1)
    BY <1>3, <2>2 DEF Fade
  <2> QED BY <2>3, <2>5, <2>6, <2>7, <2>8 DEF Fade, Q
<1>7. CASE ~Fading(spot)
  <2>1. u = [w EXCEPT !.spots = Append(w.spots, spot)]
    BY <1>7 DEF FadeSpot
  <2> HIDE DEF spot
  <2>2. u = [spots |-> Append(w.spots, spot), recycled |-> w.recycled,
             shows |-> w.shows]
    BY <1>5, <2>1 DEF Pools
  <2> QED BY <1>1, <1>5, <1>6, <2>2
<1>8. CASE Fading(spot) /\ a <= 0
  <2>1. u = releaseSpotLocked(w, spot)
    BY <1>8 DEF FadeSpot
  <2>2. Apart(w, R) /\ Showing(w, Owned(w.spots) \cup R)
    BY DEF Fade
  <2> HIDE DEF R, Q, spot
  <2>3. u.spots = w.spots /\ Apart(u, Q) /\ Showing(u, Owned(w.spots) \cup Q)
    BY <1>1, <1>2, <2>1, <2>2, Released
  <2>4. Len(w.spots) <= n + 1 /\ Ids(w.spots) \subseteq Behind(q, n + 1)
    BY <1>3, <1>5 DEF Fade
  <2> QED BY <2>3, <2>4 DEF Fade, Q
<1>9. CASE Fading(spot) /\ ~(a <= 0)
  <2> DEFINE e == [spot EXCEPT !.alpha = a]
             h == [w.shows EXCEPT ![s].alpha = a]
  <2>1. u = [w EXCEPT !.spots = Append(w.spots, e), !.shows = h]
    BY <1>9, Zenon DEF FadeSpot
  <2>2. a \in Int
    BY <1>1
  <2> HIDE DEF a
  <2>3. e \in Spot /\ e.sprite = s /\ e.id = spot.id
    BY <1>1, <2>2 DEF Spot
  <2>4. /\ h \in [SpotSprite -> Show]
        /\ \A x \in SpotSprite : h[x].icon = w.shows[x].icon
    BY <1>1, <1>5, <2>2 DEF Show
  <2> HIDE DEF e, h
  <2>5. u = [spots |-> Append(w.spots, e), recycled |-> w.recycled, shows |-> h]
    BY <1>5, <2>1 DEF Pools
  <2> HIDE DEF s, spot
  <2> QED BY <1>6, <2>3, <2>4, <2>5
<1> QED BY <1>7, <1>8, <1>9

\* The loop over the spots: it is defined, and ends in a good state.
LEMMA AllFaded ==
  ASSUME NEW t, Good(t), NEW step \in 1 .. Opaque,
         NEW u, u = FadeSpots([spots |-> <<>>, recycled |-> t.recycled,
                               shows |-> t.shows], t.spots, step)
  PROVE  Good(u)
<1> DEFINE q == t.spots
           N == Len(q)
           v == [spots |-> <<>>, recycled |-> t.recycled, shows |-> t.shows]
           Loop(f, k) == [n \in 0 .. k |->
                            IF n = 0 THEN v ELSE FadeSpot(f[n - 1], q[n], step)]
           faded == CHOOSE f : f = Loop(f, N)
           S == {k \in Nat : \E f : f = Loop(f, k)}
           G == {k \in Nat : k <= N => Fade(faded[k], q, k)}
<1>1. u = faded[N]
  BY Zenon DEF FadeSpots
<1>2. /\ t \in Pools /\ q \in Seq(Spot) /\ N \in Nat /\ Single(q)
      /\ t.recycled \in Seq(SpotSprite) /\ t.shows \in [SpotSprite -> Show]
  BY SpotTypes DEF Good, Apart, Pools
<1>3. Fade(v, q, 0)
  <2>1. /\ v \in Pools /\ v.spots = <<>> /\ v.recycled = t.recycled
        /\ v.shows = t.shows
    BY <1>2 DEF Pools
  <2> HIDE DEF v
  <2>2. Len(v.spots) = 0 /\ Owned(v.spots) = {} /\ Ids(v.spots) = {}
    BY <2>1 DEF Owned, Ids
  <2>3. Single(v.spots)
    BY <2>2 DEF Single
  <2>4. Ahead(q, 0) = Owned(q)
    BY <1>2 DEF Ahead, Owned
  <2>5. Apart(v, Ahead(q, 0))
    BY <2>1, <2>2, <2>3, <2>4 DEF Good, Apart
  <2>6. Showing(v, Owned(v.spots) \cup Ahead(q, 0))
    BY <2>1, <2>2, <2>4 DEF Good, Showing
  <2> QED BY <2>2, <2>5, <2>6 DEF Fade
<1> HIDE DEF v
<1>4. 0 \in S
  <2>1. [n \in 0 .. 0 |-> v] = Loop([n \in 0 .. 0 |-> v], 0)
    OBVIOUS
  <2> QED BY <2>1
<1>5. ASSUME NEW k \in S PROVE k + 1 \in S
  <2>1. PICK f : f = Loop(f, k)
    OBVIOUS
  <2> DEFINE g == Loop(f, k + 1)
  <2>2. ASSUME NEW n \in 0 .. k PROVE g[n] = f[n]
    <3>1. n \in 0 .. k + 1
      OBVIOUS
    <3>2. f[n] = Loop(f, k)[n]
      BY <2>1
    <3> QED BY <3>1, <3>2
  <2>3. g = Loop(g, k + 1)
    <3>1. \A n \in 0 .. k + 1 : n = 0 \/ n - 1 \in 0 .. k
      OBVIOUS
    <3>2. \A n \in 0 .. k + 1 : n = 0 \/ g[n - 1] = f[n - 1]
      BY <2>2, <3>1
    <3> QED BY <3>2
  <2> HIDE DEF g
  <2>4. \E x : x = Loop(x, k + 1)
    BY <2>3
  <2>5. k + 1 \in Nat
    OBVIOUS
  <2> HIDE DEF Loop
  <2> QED BY <2>4, <2>5
<1>6. \E f : f = Loop(f, N)
  <2>1. S = Nat
    <3> HIDE DEF S
    <3>1. S \in SUBSET Nat
      BY DEF S
    <3> QED BY <1>4, <1>5, <3>1, AllNaturals
  <2>2. N \in S
    <3> HIDE DEF S, N
    <3> QED BY <1>2, <2>1
  <2> HIDE DEF N
  <2> QED BY <2>2
<1>7. faded = Loop(faded, N)
  <2> HIDE DEF Loop
  <2> QED BY <1>6
<1> HIDE DEF faded
<1>8. 0 \in G
  BY <1>2, <1>3, <1>7
<1>9. ASSUME NEW k \in G PROVE k + 1 \in G
  <2> SUFFICES ASSUME k + 1 <= N PROVE Fade(faded[k + 1], q, k + 1)
    OBVIOUS
  <2>1. k \in Nat /\ Fade(faded[k], q, k) /\ k < Len(q)
    BY <1>2
  <2>2. faded[k + 1] = FadeSpot(faded[k], q[k + 1], step)
    BY <1>2, <1>7, <2>1
  <2> HIDE DEF q, N
  <2> QED BY <1>2, <2>1, <2>2, OneFaded
<1>10. G = Nat
  <2> HIDE DEF G
  <2>1. G \in SUBSET Nat
    BY DEF G
  <2> QED BY <1>8, <1>9, <2>1, AllNaturals
<1>11. Fade(u, q, N)
  BY <1>1, <1>2, <1>10
<1> HIDE DEF q
<1>12. Ahead(q, N) = {} /\ Len(q) <= MAX_SPOTS
  BY <1>2 DEF Ahead, Good, q
<1>13. Len(u.spots) <= MAX_SPOTS
  <2>1. Len(u.spots) \in Nat
    BY <1>11, SpotTypes DEF Fade, Apart, Pools
  <2> QED BY <1>2, <1>11, <1>12, <2>1, PointerBounds DEF Fade
<1>14. Owned(u.spots) \cup {} = Owned(u.spots)
  OBVIOUS
<1> QED BY <1>11, <1>12, <1>13, <1>14 DEF Fade, Good

-----------------------------------------------------------------------------
(* The actions *)

SpotPools == [spots |-> spots, recycled |-> recycledSprites, shows |-> spotShows]
GInv == Good(SpotPools)

\* The invariant, in terms of the variables.
LEMMA GInvParts ==
  GInv <=> /\ spots \in Seq(Spot) /\ recycledSprites \in Seq(SpotSprite)
           /\ spotShows \in [SpotSprite -> Show]
           /\ Single(spots) /\ PooledOnce(recycledSprites)
           /\ Owned(spots) \cap Pooled(recycledSprites) = {}
           /\ \A s \in SpotSprite : spotShows[s].icon # "none" <=> s \in Owned(spots)
           /\ Len(spots) <= MAX_SPOTS
BY DEF GInv, SpotPools, Good, Apart, Showing, Pools

\* At first there are no spots, and no sprites.
LEMMA GInit == PointerInit => GInv
<1> SUFFICES ASSUME PointerInit PROVE GInv
  OBVIOUS
<1>1. /\ spots = <<>> /\ recycledSprites = <<>>
      /\ spotShows = [s \in SpotSprite |-> [icon |-> "none", alpha |-> Opaque]]
  BY DEF PointerInit
<1>2. spots \in Seq(Spot) /\ recycledSprites \in Seq(SpotSprite)
      /\ Len(spots) = 0 /\ Len(recycledSprites) = 0
  BY <1>1
<1>3. Owned(spots) = {} /\ Pooled(recycledSprites) = {}
  BY <1>2 DEF Owned, Pooled
<1>4. Single(spots) /\ PooledOnce(recycledSprites)
  BY <1>2 DEF Single, PooledOnce
<1>5. spotShows \in [SpotSprite -> Show] /\ \A s \in SpotSprite : spotShows[s].icon = "none"
  BY <1>1 DEF Show, IconName, Opaque
<1> QED BY <1>2, <1>3, <1>4, <1>5, GInvParts, PointerBounds

\* Spots only lose their fingers.
LEMMA GFade ==
  ASSUME GInv, NEW keep, spots' = FadeOut(spots, keep),
         UNCHANGED <<recycledSprites, spotShows>>
  PROVE  GInv'
<1>1. spots \in Seq(Spot) /\ Single(spots)
  BY GInvParts
<1>2. /\ spots' \in Seq(Spot) /\ Len(spots') = Len(spots)
      /\ Owned(spots') = Owned(spots) /\ Single(spots')
  BY <1>1, FadedOut
<1> QED BY <1>2 DEF GInv, SpotPools, Good, Apart, Showing, Pools

\* Every call and every message keeps the invariant.
LEMMA GNext ==
  ASSUME GInv, [PointerNext]_pointerVars
  PROVE  GInv'
<1>1. ASSUME UNCHANGED <<spots, recycledSprites, spotShows>> PROVE GInv'
  BY <1>1 DEF GInv, SpotPools
<1>2. CASE UNCHANGED pointerVars
  BY <1>1, <1>2 DEF pointerVars
<1>3. CASE \E x, y \in Place : setPosition(x, y) \/ move(x, y)
  BY <1>1, <1>3 DEF setPosition, move, setPositionLocked, unchangedSpots
<1>4. CASE \E v \in Viewport : setDisplayViewport(v)
  BY <1>4, GFade DEF setDisplayViewport
<1>5. CASE \E now \in BOOLEAN : fade(now) \/ unfade(now)
  BY <1>1, <1>5 DEF fade, unfade, fadeGradually, unchangedSpots
<1>6. CASE setInactivityTimeout \/ setPointerIcon \/ setHoverIcon
  BY <1>1, <1>6 DEF setInactivityTimeout, setPointerIcon, setHoverIcon, unchangedSpots
<1>7. CASE \E p \in Presentation : setPresentation(p)
  BY <1>7, GFade DEF setPresentation
<1>8. CASE clearSpots
  BY <1>8, GFade DEF clearSpots
<1>9. ASSUME NEW ids \in SUBSET Finger, NEW icon \in [ids -> {"touch", "hover"}],
             setSpots(ids, icon)
      PROVE  GInv'
  <2> DEFINE t == AddOrMoveAll(SpotPools, ids, icon)
  <2>1. /\ spots' = FadeOut(t.spots, ids)
        /\ recycledSprites' = t.recycled /\ spotShows' = t.shows
    BY <1>9 DEF setSpots, SpotPools
  <2>2. Good(t)
    BY AllAddedOrMoved DEF GInv
  <2> HIDE DEF t
  <2>3. t.spots \in Seq(Spot) /\ Single(t.spots)
    BY <2>2 DEF Good, Apart, Pools
  <2>4. /\ spots' \in Seq(Spot) /\ Len(spots') = Len(t.spots)
        /\ Owned(spots') = Owned(t.spots) /\ Single(spots')
    BY <2>1, <2>3, FadedOut
  <2> QED BY <2>1, <2>2, <2>4 DEF GInv, SpotPools, Good, Apart, Showing, Pools
<1>10. CASE doAnimate
  <2>1. PICK step \in 1 .. Opaque :
          LET t == FadeSpots([spots |-> <<>>, recycled |-> recycledSprites,
                              shows |-> spotShows], spots, step)
          IN spots' = t.spots /\ recycledSprites' = t.recycled /\ spotShows' = t.shows
    BY <1>10, Zenon DEF doAnimate
  <2> DEFINE t == FadeSpots([spots |-> <<>>, recycled |-> SpotPools.recycled,
                             shows |-> SpotPools.shows], SpotPools.spots, step)
  <2>2. /\ SpotPools.spots = spots /\ SpotPools.recycled = recycledSprites
        /\ SpotPools.shows = spotShows
    BY DEF SpotPools
  <2>3. spots' = t.spots /\ recycledSprites' = t.recycled /\ spotShows' = t.shows
    BY <2>1, <2>2
  <2>4. Good(t)
    BY AllFaded DEF GInv
  <2> HIDE DEF t
  <2> QED BY <2>3, <2>4 DEF GInv, SpotPools, Good, Apart, Showing, Pools
<1>11. CASE doInactivityTimeout
  BY <1>1, <1>11 DEF doInactivityTimeout, fadeGradually, unchangedSpots
<1> QED BY <1>2, <1>3, <1>4, <1>5, <1>6, <1>7, <1>8, <1>9, <1>10, <1>11
        DEF PointerNext, PointerCalls

\* The invariant says what NoGhostSpots says.
LEMMA GInvImplies == GInv => NoGhostSpots
<1> SUFFICES ASSUME GInv PROVE NoGhostSpots
  OBVIOUS
<1> DEFINE owned == [i \in DOMAIN spots |-> spots[i].sprite]
           all == owned \o recycledSprites
           n == Len(spots)
           m == Len(recycledSprites)
<1>1. /\ spots \in Seq(Spot) /\ recycledSprites \in Seq(SpotSprite)
      /\ n \in Nat /\ m \in Nat /\ DOMAIN spots = 1 .. n
      /\ \A i \in 1 .. n : spots[i].sprite \in SpotSprite
  BY GInvParts, SpotTypes, LenProperties
<1>2. /\ owned \in Seq(SpotSprite) /\ Len(owned) = n /\ DOMAIN owned = 1 .. n
      /\ \A i \in 1 .. n : owned[i] = spots[i].sprite
  <2>1. owned \in [1 .. n -> SpotSprite]
    BY <1>1
  <2>2. owned \in Seq(SpotSprite)
    BY <1>1, <2>1, SeqDef
  <2>3. Len(owned) \in Nat /\ 1 .. Len(owned) = 1 .. n
    <3> HIDE DEF owned
    <3> QED BY <2>1, <2>2, LenProperties
  <2> QED BY <1>1, <2>2, <2>3
<1> HIDE DEF owned
<1>3. /\ all \in Seq(SpotSprite) /\ DOMAIN all = 1 .. n + m
      /\ \A i \in 1 .. n + m :
           all[i] = IF i <= n THEN spots[i].sprite ELSE recycledSprites[i - n]
  <2>1. /\ all \in Seq(SpotSprite) /\ Len(all) = n + m
        /\ \A i \in 1 .. n + m :
             all[i] = IF i <= n THEN owned[i] ELSE recycledSprites[i - n]
    <3>1. owned \in Seq(SpotSprite) /\ recycledSprites \in Seq(SpotSprite)
      BY <1>1, <1>2
    <3>2. /\ owned \o recycledSprites \in Seq(SpotSprite)
          /\ Len(owned \o recycledSprites) = Len(owned) + Len(recycledSprites)
          /\ \A i \in 1 .. Len(owned) + Len(recycledSprites) :
               (owned \o recycledSprites)[i] =
                 IF i <= Len(owned) THEN owned[i] ELSE recycledSprites[i - Len(owned)]
      BY ONLY <3>1, ConcatProperties
    <3>3. Len(owned) = n /\ Len(recycledSprites) = m
      BY <1>2
    <3> HIDE DEF n, m, all
    <3> QED BY <3>2, <3>3 DEF all
  <2> HIDE DEF all
  <2>2. DOMAIN all = 1 .. n + m
    BY <2>1, LenProperties
  <2> HIDE DEF n, m
  <2> QED BY <1>1, <1>2, <2>1, <2>2
<1> HIDE DEF all
<1>4. \A i, j \in 1 .. n + m : all[i] = all[j] => i = j
  <2> SUFFICES ASSUME NEW i \in 1 .. n + m, NEW j \in 1 .. n + m,
                      i <= j, all[i] = all[j]
               PROVE  i = j
    BY <1>1
  <2> HIDE DEF n, m
  <2>1. CASE j <= n
    <3>1. i \in 1 .. Len(spots) /\ j \in 1 .. Len(spots)
          /\ spots[i].sprite = spots[j].sprite
      BY <1>1, <1>3, <2>1 DEF n
    <3> QED BY <3>1, GInvParts DEF Single
  <2>2. CASE i > n
    <3>1. /\ i - n \in 1 .. Len(recycledSprites) /\ j - n \in 1 .. Len(recycledSprites)
          /\ recycledSprites[i - n] = recycledSprites[j - n]
      BY <1>1, <1>3, <2>2 DEF m
    <3>2. i - n = j - n
      BY <3>1, GInvParts DEF PooledOnce
    <3> QED BY <1>1, <3>2
  <2>3. CASE i <= n /\ j > n
    <3>1. /\ i \in 1 .. Len(spots) /\ j - n \in 1 .. Len(recycledSprites)
          /\ spots[i].sprite = recycledSprites[j - n]
      BY <1>1, <1>3, <2>3 DEF n, m
    <3>2. spots[i].sprite \in Owned(spots) \cap Pooled(recycledSprites)
      BY <3>1 DEF Owned, Pooled
    <3> QED BY <3>2, GInvParts
  <2> QED BY <1>1, <2>1, <2>2, <2>3
<1>5. IsInjective(all)
  BY <1>3, <1>4 DEF IsInjective
<1>6. ToSet(owned) = Owned(spots)
  BY <1>2 DEF ToSet, Owned
<1>7. \A s \in SpotSprite : (spotShows[s].icon # "none") = (s \in ToSet(owned))
  <2> SUFFICES ASSUME NEW s \in SpotSprite
               PROVE  (spotShows[s].icon # "none") = (s \in ToSet(owned))
    OBVIOUS
  <2> DEFINE a == spotShows[s].icon # "none"
             b == s \in ToSet(owned)
  <2>1. a \in BOOLEAN /\ b \in BOOLEAN /\ (a <=> b)
    BY <1>6, GInvParts
  <2> HIDE DEF a, b
  <2>2. a = b
    BY <2>1
  <2> QED BY <2>2 DEF a, b
<1>8. \A i, j \in DOMAIN spots : spots[i].id = spots[j].id => i = j \/ Fading(spots[i])
  BY <1>1, GInvParts DEF Single
<1>9. Len(spots) <= MAX_SPOTS
  BY GInvParts
<1>10. FingersGetSpots
  <2> SUFFICES ASSUME NEW ids \in SUBSET Finger,
                      Cardinality(ids \cup FingersOf(spots)) <= MAX_SPOTS
               PROVE  ids \subseteq FingersOf(AddOrMoveAll(SpotPools, ids,
                                                [id \in ids |-> "touch"]).spots)
    BY DEF FingersGetSpots, SpotPools
  <2> DEFINE icon == [id \in ids |-> "touch"]
             after == AddOrMoveAll(SpotPools, ids, icon)
  <2>1. icon \in [ids -> {"touch", "hover"}]
    OBVIOUS
  <2> HIDE DEF icon
  <2>2. Good(SpotPools) /\ SpotPools.spots = spots
    BY DEF GInv, SpotPools
  <2>3. \A q \in Seq(Spot) : FingersOf(q) = Live(q)
    BY LenProperties DEF FingersOf, Live, Ids
  <2>4. Fit(SpotPools, ids)
    BY <1>1, <2>2, <2>3 DEF Fit
  <2>5. Good(after) /\ ids \subseteq Live(after.spots)
    BY <2>1, <2>2, <2>4, AllAddedOrMoved
  <2> HIDE DEF after
  <2>6. after.spots \in Seq(Spot)
    BY <2>5 DEF Good, Apart, Pools
  <2>7. ids \subseteq FingersOf(after.spots)
    BY <2>3, <2>5, <2>6
  <2> QED BY <2>7 DEF after, icon
<1> QED BY <1>5, <1>7, <1>8, <1>9, <1>10 DEF NoGhostSpots, owned, all

(* Whatever fingers go down and up, however many there are and however late  *)
(* a frame comes: no sprite is that of two spots, or of a spot and of the    *)
(* pool (createAndAddSpotLocked, releaseSpotLocked), a sprite shows an icon  *)
(* exactly while a spot has it (Spot::updateSprite, clearIcon), no finger    *)
(* has two spots, there are never more than MAX_SPOTS, and setSpots leaves   *)
(* no finger without one unless its fingers and the others that have spots   *)
(* are more than MAX_SPOTS.                                                  *)
THEOREM NoGhosts == PointerSpec => []NoGhostSpots
<1>1. PointerInit => GInv
  BY GInit
<1>2. GInv /\ [PointerNext]_pointerVars => GInv'
  BY GNext
<1>3. GInv => NoGhostSpots
  BY GInvImplies
<1> QED BY <1>1, <1>2, <1>3, PTL DEF PointerSpec
=============================================================================
