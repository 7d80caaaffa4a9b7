------------------------ MODULE DeferredDisplayList ------------------------
(***************************************************************************)
(* DeferredDisplayList: the operations of a frame are not drawn one by one *)
(* but collected in batches of similar ones, which are drawn when the frame *)
(* is flushed.  A draw may move over others to join its batch, and what an *)
(* opaque draw covers is left out.                                         *)
(*                                                                         *)
(* The frame is a row of pixels, and a pixel remembers what was painted on *)
(* it, in order, since something opaque was.  A rectangle is an interval,  *)
(* after the matrix.  A clip that is no interval is complex, as is that of *)
(* a rectangle the matrix turns: it is clipped to as a path.               *)
(***************************************************************************)
EXTENDS Integers, Sequences, SequencesExt, FiniteSetsExt

CONSTANTS
  Width,   \* of the frame, in pixels
  Frames   \* what an instance draws: sets of operations, how many of them

Pixel == 0..(Width - 1)
Blank == [p \in Pixel |-> <<>>]
Interval(S) == IF S = {} THEN {} ELSE Min(S)..Max(S)

(***************************************************************************)
(* The operations, and what they are drawn with.  Bitmaps, patches and text *)
(* of the same paint may merge.  The text with a shadow is a DrawTextOp,   *)
(* the other one that has a shadow a DrawPosTextOp.                        *)
(***************************************************************************)
SaveOp(own) == [op |-> "save", own |-> own]
SaveLayerOp(area) == [op |-> "saveLayer", area |-> area]
RestoreToCountOp(levels) == [op |-> "restore", levels |-> levels]
ClipRectOp(area, how) == [op |-> "clipRect", area |-> area, how |-> how]
ClipPathOp(area) == [op |-> "clipPath", area |-> area]
DrawOp(kind, area) == [op |-> "draw", kind |-> kind, area |-> area]

batchId(kind) ==
  CASE kind \in {"rect", "opaqueRect"} -> "Vertices"
    [] kind = "bitmap" -> "Bitmap"
    [] kind = "patch" -> "Patch"
    [] kind \in {"text", "shadowedText", "shadowedPosText"} -> "Text"
    [] kind = "functor" -> "None"
mergeable(kind, sides) ==
  kind \in {"patch", "text", "shadowedText"} \/ (kind = "bitmap" /\ sides = {})
opaqueOverBounds(kind) == kind \in {"opaqueRect", "patch"}
HasBounds(kind) == kind \notin {"functor", "shadowedPosText"}
HasShadow(kind) == kind \in {"shadowedText", "shadowedPosText"}

\* Overridden by DrawSomeTextOp, from which DrawTextOp is not derived.
hasTextShadow(kind) == kind = "shadowedPosText"

VARIABLES
  renderer,  \* the OpenGLRenderer, if it drew every operation at once
  list,      \* the DeferredDisplayList
  issued,    \* the number of operations of this frame
  frame      \* what may be drawn in this behaviour

displayVars == <<renderer, list, issued, frame>>

-----------------------------------------------------------------------------
(***************************************************************************)
(* The renderer: its stack of snapshots, and what is painted on the frame   *)
(* and on each open layer.  own: has the snapshot a clip of its own, or    *)
(* that of the one below?                                                  *)
(***************************************************************************)
Snapshot(clip, own, isLayer) == [clip |-> clip, own |-> own, isLayer |-> isLayer]
FreshRenderer ==
  [snapshots |-> <<Snapshot(Pixel, TRUE, FALSE), Snapshot(Pixel, TRUE, FALSE)>>,
   canvases |-> <<Blank>>]

SaveCount(r) == Len(r.snapshots)
Clip(r) == Last(r.snapshots).clip
ClipBounds(r) == Interval(Clip(r))

saveSnapshot(r, own) ==
  [r EXCEPT !.snapshots = Append(@, Snapshot(Clip(r), own, FALSE))]

createLayer(r, area) ==
  [snapshots |-> Append(r.snapshots,
                        Snapshot(area \cap ClipBounds(r), TRUE, TRUE)),
   canvases |-> Append(r.canvases, Blank)]

PaintOn(r, pixels, what, opaque) ==
  [r EXCEPT !.canvases[Len(r.canvases)] =
     [p \in Pixel |-> IF p \notin pixels \cap Clip(r) THEN @[p]
                      ELSE IF opaque THEN what[p] ELSE @[p] \o what[p]]]

\* A layer that is composed is one thing painted, with what is on it.
composeLayer(r) ==
  LET content == Last(r.canvases)
      marked == [p \in Pixel |-> IF content[p] = <<>> THEN <<>>
                                 ELSE <<-1>> \o content[p] \o <<-2>>]
      below == [snapshots |-> Front(r.snapshots), canvases |-> Front(r.canvases)]
  IN PaintOn(below, Pixel, marked, FALSE)

restoreToCount(r, count) ==
  LET pop(s, i) == IF Last(s.snapshots).isLayer THEN composeLayer(s)
                   ELSE [s EXCEPT !.snapshots = Front(@)]
  IN FoldLeft(pop, r, [i \in 1..(SaveCount(r) - count) |-> i])

\* The clip is that of every snapshot down to the one that owns it.
setClip(r, clip) ==
  LET shared == {i \in DOMAIN r.snapshots :
                   \A j \in (i + 1)..SaveCount(r) : ~r.snapshots[j].own}
  IN [r EXCEPT !.snapshots = [i \in DOMAIN @ |->
        IF i \in shared THEN [@[i] EXCEPT !.clip = clip] ELSE @[i]]]

clipRect(r, area, how) ==
  setClip(r, CASE how = "intersect" -> Clip(r) \cap area
               [] how = "replace" -> area
               [] how = "difference" -> Clip(r) \ area)

\* The path is masked by the clip of the snapshot below.
clipPath(r, area) ==
  setClip(r, Clip(r) \cap area \cap r.snapshots[SaveCount(r) - 1].clip)

\* What applyState does for the operations other than restore.
applyState(r, o) ==
  CASE o.op = "save" -> saveSnapshot(r, o.own)
    [] o.op = "saveLayer" -> createLayer(r, o.area)
    [] o.op = "clipRect" -> clipRect(r, o.area, o.how)
    [] o.op = "clipPath" -> clipPath(r, o.area)

\* A draw is known by its number; its shadow, painted first, by the negative.
PaintShadow(r, d) ==
  IF HasShadow(d.kind)
  THEN PaintOn(r, d.area, [p \in Pixel |-> <<-10 - d.number>>], FALSE) ELSE r
PaintSelf(r, d) ==
  PaintOn(r, d.area, [p \in Pixel |-> <<d.number>>], opaqueOverBounds(d.kind))
applyDraw(r, d) == PaintSelf(PaintShadow(r, d), d)

\* The shadows of several texts are painted at once, their glyphs at the end.
multiDraw(r, ops) == FoldLeft(PaintSelf, FoldLeft(PaintShadow, r, ops), ops)

-----------------------------------------------------------------------------
(* Batches *)

\* A draw that has been discarded, as a batch.
Cleared == [type |-> "cleared"]
Draws(b) == b.type \in {"draw", "merging"}

intersects(b, bounds) ==
  \E i \in DOMAIN b.ops : b.ops[i].bounds \cap bounds # {}
BoundsOf(b) == UNION {b.ops[i].bounds : i \in DOMAIN b.ops}
SidesOf(b) == UNION {b.ops[i].sides : i \in DOMAIN b.ops}

coversBounds(b) ==
  /\ Draws(b) /\ Len(b.ops) > 1
  /\ \A i \in DOMAIN b.ops : b.ops[i].opaque
  /\ BoundsOf(b) = Pixel

\* Neither of them may be cut by a clip of the other.
canMergeWith(b, d) ==
  LET lower == Min(BoundsOf(b)) - Min(d.bounds)
      upper == Max(d.bounds) - Max(BoundsOf(b))
  IN /\ (batchId(d.kind) # "Text" \/ hasTextShadow(d.kind))
          => ~intersects(b, d.bounds)
     /\ lower > 0 => "left" \notin SidesOf(b)
     /\ upper > 0 => "right" \notin SidesOf(b)
     /\ lower < 0 => "left" \notin d.sides
     /\ upper < 0 => "right" \notin d.sides

\* mClipRect, if a side is clipped.
MergedClip(b) ==
  LET last(side) == b.ops[Max({i \in DOMAIN b.ops : side \in b.ops[i].sides})]
  IN {p \in Pixel :
        /\ "left" \in SidesOf(b) => p >= Min(last("left").clip)
        /\ "right" \in SidesOf(b) => p <= Max(last("right").clip)}

restoreDisplayState(r, state) ==
  IF state.clipValid THEN setClip(r, state.clip) ELSE r

replay(r, b) ==
  LET drawOne(s, d) == applyDraw(restoreDisplayState(s, d), d)
  IN CASE b.type = "cleared" -> r
       [] b.type = "state" -> applyState(restoreDisplayState(r, b.state), b.op)
       [] b.type = "restore" ->
            restoreToCount(restoreDisplayState(r, b.state), b.count)
       [] b.type = "merging" /\ Len(b.ops) > 1 ->
            multiDraw(setClip(r, MergedClip(b)), b.ops)
       [] OTHER -> FoldLeft(drawOne, r, b.ops)

-----------------------------------------------------------------------------
(* The list *)

FreshList == [mBatches |-> <<>>, mEarliestBatchIndex |-> 0,
              mComplexClipStackStart |-> -1, mSaveStack |-> <<>>]

recordingComplexClip(l) == l.mComplexClipStackStart >= 0

\* mBatchLookup and mMergingBatches hold what is behind mEarliestBatchIndex.
resetBatchingState(l) ==
  [l EXCEPT !.mEarliestBatchIndex = Len(l.mBatches)]

storeDisplayState(l, r) ==
  [clipValid |-> ~recordingComplexClip(l), clip |-> ClipBounds(r)]

Barrier(l, b) == resetBatchingState([l EXCEPT !.mBatches = Append(@, b)])

storeStateOpBarrier(l, r, o) ==
  Barrier(l, [type |-> "state", op |-> o, state |-> storeDisplayState(l, r)])

canCauseComplexClip(o) ==
  o.op = "clipPath" \/ o.how \notin {"intersect", "replace"}

addClip(l, r, o) ==
  IF ~recordingComplexClip(l) /\ ~canCauseComplexClip(o) THEN l
  ELSE [storeStateOpBarrier(l, r, o) EXCEPT
          !.mComplexClipStackStart = IF @ >= 0 THEN @ ELSE SaveCount(r) - 1]

addSaveLayer(l, r, o) ==
  [storeStateOpBarrier(l, r, o) EXCEPT
     !.mSaveStack = Append(@, SaveCount(r))]

addSave(l, r, o, newSaveCount) ==
  IF recordingComplexClip(l) /\ o.own
  THEN [storeStateOpBarrier(l, r, o) EXCEPT
          !.mSaveStack = Append(@, newSaveCount)]
  ELSE l

kFlushSaveStackDepth == 2

addRestoreToCount(l, r, count) ==
  LET ended == IF recordingComplexClip(l) /\ count <= l.mComplexClipStackStart
               THEN resetBatchingState([l EXCEPT !.mComplexClipStackStart = -1])
               ELSE l
      kept == SelectSeq(l.mSaveStack, LAMBDA c : c < count)
  IN IF kept = l.mSaveStack THEN ended
     ELSE Barrier([ended EXCEPT !.mSaveStack = kept],
                  [type |-> "restore",
                   count |-> Len(kept) + kFlushSaveStackDepth,
                   state |-> storeDisplayState(ended, r)])

discardDrawingBatches(batches, maxIndex) ==
  [i \in DOMAIN batches |->
     IF i <= maxIndex /\ Draws(batches[i]) THEN Cleared ELSE batches[i]]

-----------------------------------------------------------------------------
(* addDrawOp *)

\* What the list keeps of draw o, whose number is n.
Deferred(l, r, o, n) ==
  LET clip == ClipBounds(r)
      bounds == IF HasBounds(o.kind) THEN o.area \cap clip ELSE clip
      sides == IF ~HasBounds(o.kind) THEN {"all"}
               ELSE {s \in {"left", "right"} :
                       /\ bounds # {}
                       /\ IF s = "left" THEN Min(o.area) < Min(clip)
                          ELSE Max(o.area) > Max(clip)}
  IN storeDisplayState(l, r) @@
     [number |-> n, kind |-> o.kind,
      area |-> IF HasBounds(o.kind) THEN o.area ELSE Pixel,
      bounds |-> bounds, sides |-> sides,
      merges |-> mergeable(o.kind, sides) /\ ~recordingComplexClip(l),
      opaque |-> /\ opaqueOverBounds(o.kind) /\ ~recordingComplexClip(l)
                 /\ l.mSaveStack = <<>>]

NewBatch(d) ==
  [type |-> IF d.merges THEN "merging" ELSE "draw",
   batchId |-> batchId(d.kind), ops |-> <<d>>]

\* The batches a draw may move over, or into.
Open(l) == (l.mEarliestBatchIndex + 1)..Len(l.mBatches)

\* The youngest batch of d's type, if d may join it: every batch has been
\* created for its first draw.
TargetBatch(l, d) ==
  LET b == l.mBatches
      same == {i \in Open(l) : /\ b[i].type = NewBatch(d).type
                               /\ b[i].batchId = batchId(d.kind)}
      youngest == {i \in same : \A j \in same :
                                  b[j].ops[1].number <= b[i].ops[1].number}
  IN {i \in youngest : d.merges => canMergeWith(b[i], d)}

Over(l, d) == {i \in Open(l) : intersects(l.mBatches[i], d.bounds)}
Similar(l, d) == {i \in Open(l) : l.mBatches[i].batchId = batchId(d.kind)}

\* Mutant: it looks at the batch only, not at what has been drawn since.
Bug_JoinBelow(l, d) == TargetBatch(l, d)

\* d joins its batch unless something drawn since is below d.
Joins(l, d) ==
  {t \in TargetBatch(l, d) : \A i \in Over(l, d) : i <= t}

\* Where a new batch for d goes: after a similar one that d may be drawn next
\* to, or to the end.
insertBatchIndex(l, d) ==
  LET stop == IF TargetBatch(l, d) # {} THEN Over(l, d)
              ELSE IF d.merges THEN Over(l, d) \cup Similar(l, d) ELSE {}
      next == {i \in Similar(l, d) : \A j \in stop : i >= j}
  IN IF stop = {} \/ next = {} THEN Len(l.mBatches) + 1 ELSE Min(next) + 1

Place(l, d) ==
  IF l.mBatches # <<>> /\ d.bounds = {}
  THEN resetBatchingState([l EXCEPT !.mBatches = Append(@, NewBatch(d))])
  ELSE IF Joins(l, d) # {}
  THEN [l EXCEPT !.mBatches[Max(Joins(l, d))].ops = Append(@, d)]
  ELSE [l EXCEPT !.mBatches = InsertAt(@, insertBatchIndex(l, d), NewBatch(d))]

CoversFrame(l, d) == d.opaque /\ d.bounds = Pixel

addDrawOp(l, r, o, n) ==
  LET d == Deferred(l, r, o, n)
      rejected == HasBounds(o.kind) /\ d.bounds = {}
      bare == [l EXCEPT
                 !.mBatches = discardDrawingBatches(@, Len(l.mBatches))]
  IN IF rejected THEN l
     ELSE IF CoversFrame(l, d) THEN Place(resetBatchingState(bare), d)
     ELSE Place(l, d)

-----------------------------------------------------------------------------
(* What the flush of a list paints *)

Overdrawn(batches) ==
  LET covers == {i \in DOMAIN batches : coversBounds(batches[i])}
  IN IF covers = {} THEN batches
     ELSE discardDrawingBatches(batches, Max(covers) - 1)

Flushed(l) ==
  restoreToCount(FoldLeft(replay, FreshRenderer, Overdrawn(l.mBatches)), 1)

-----------------------------------------------------------------------------
(* The frame *)

DisplayInit ==
  /\ renderer = FreshRenderer /\ list = FreshList /\ issued = 0
  /\ frame \in Frames

Issue(o) == o \in frame.ops /\ issued < frame.max /\ issued' = issued + 1
            /\ UNCHANGED frame

DeferSave(o) ==
  /\ o.op = "save" /\ Issue(o)
  /\ renderer' = applyState(renderer, o)
  /\ list' = addSave(list, renderer', o, SaveCount(renderer))

\* A layer of nothing is ignored, and so is what is drawn in it.
DeferSaveLayer(o) ==
  /\ o.op = "saveLayer" /\ Issue(o)
  /\ o.area \cap ClipBounds(renderer) # {}
  /\ list' = addSaveLayer(list, renderer, o)
  /\ renderer' = applyState(renderer, o)

DeferRestore(o) ==
  /\ o.op = "restore" /\ Issue(o)
  /\ SaveCount(renderer) - o.levels >= 2
  /\ LET count == SaveCount(renderer) - o.levels
     IN /\ list' = addRestoreToCount(list, renderer, count)
        /\ renderer' = restoreToCount(renderer, count)

DeferClip(o) ==
  /\ o.op \in {"clipRect", "clipPath"} /\ Issue(o)
  /\ list' = addClip(list, renderer, o)
  /\ renderer' = applyState(renderer, o)

DeferDraw(o) ==
  /\ o.op = "draw" /\ Issue(o)
  /\ list' = addDrawOp(list, renderer, o, issued')
  /\ renderer' = applyDraw(renderer, Deferred(list, renderer, o, issued'))

\* The node restores what it has saved, and the list is flushed and cleared.
FlushFrame ==
  /\ issued > 0 /\ issued' = 0
  /\ renderer' = FreshRenderer /\ list' = FreshList
  /\ UNCHANGED frame

DisplayNext ==
  \/ \E o \in frame.ops : \/ DeferSave(o) \/ DeferSaveLayer(o) \/ DeferRestore(o)
                          \/ DeferClip(o) \/ DeferDraw(o)
  \/ FlushFrame

DisplaySpec == DisplayInit /\ [][DisplayNext]_displayVars

-----------------------------------------------------------------------------
(* Properties *)

\* Drawing in batches cannot be told from drawing at once: whenever the frame
\* ends, the flush paints on every pixel what the operations in their order
\* would have left there (DeferredDisplayList, against replay with
\* drawDeferDisabled).
PaintsInOrder ==
  Flushed(addRestoreToCount(list, renderer, 1)).canvases[1]
    = restoreToCount(renderer, 1).canvases[1]
=============================================================================
