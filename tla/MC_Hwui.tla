------------------------------ MODULE MC_Hwui ------------------------------
(***************************************************************************)
(* Small instances of the parts of hwui for TLC.  They do not interact, and  *)
(* one run checks them all: the variable part says which of them moves in a  *)
(* behaviour, and the others stay as they are in the beginning.              *)
(***************************************************************************)
EXTENDS RenderThread, PathCache, DeferredDisplayList, TLC

VARIABLE part

hwuiVars == <<part, vars, pathVars, displayVars>>

(* Three paths: two fit into the cache, one of them at a time, and one is    *)
(* too large for OpenGL.                                                     *)
CONSTANTS short, long, huge
SizeOfPath == [p \in Path |-> IF p = huge THEN 5 ELSE 2]

(* A path that is larger than the cache, but not than OpenGL allows.         *)
SizeBeyondCache == [p \in Path |-> 4]

NoCalls == {}
MixedCalls == {NoCalls, {"precache", "get", "finish", "modify", "clearGarbage"},
               {"get", "finish", "flush"}}
GetAfterPrecache == {NoCalls, {"precache", "get"}}
FlushAfterPrecache == {NoCalls, {"precache", "flush"}}

(* What a frame draws on its three pixels: draws of every kind that may be    *)
(* reordered; rectangular clips, which cut draws that merge; complex clips;   *)
(* layers.  Shadowed text that may merge is in none of them (see the README). *)
Frame(ops, max) == [ops |-> ops, max |-> max]
DrawsOnly == {DrawOp("bitmap", {0}), DrawOp("bitmap", {1}),
              DrawOp("text", {0, 1}), DrawOp("text", {1, 2}),
              DrawOp("patch", {0}), DrawOp("patch", {1}),
              DrawOp("rect", {0}), DrawOp("opaqueRect", {1, 2}),
              DrawOp("opaqueRect", {0, 1, 2}), DrawOp("functor", {}),
              DrawOp("shadowedPosText", {0, 1})}
RectClips == {SaveOp(TRUE), SaveOp(FALSE), RestoreToCountOp(1),
              ClipRectOp({0, 1}, "intersect"), ClipRectOp({1, 2}, "replace"),
              DrawOp("text", {0, 1, 2}), DrawOp("text", {1}),
              DrawOp("patch", {0, 1}), DrawOp("bitmap", {2})}
ComplexClips == {SaveOp(TRUE), RestoreToCountOp(1), RestoreToCountOp(2),
                 ClipPathOp({0, 2}), ClipRectOp({1}, "difference"),
                 ClipRectOp({0, 1}, "intersect"), DrawOp("rect", {0}),
                 DrawOp("text", {0, 1, 2}), DrawOp("opaqueRect", {0, 1, 2})}
Layers == {SaveOp(TRUE), RestoreToCountOp(1), SaveLayerOp({0, 1}),
           ClipPathOp({0, 2}), ClipRectOp({0, 1}, "intersect"),
           DrawOp("bitmap", {1}), DrawOp("text", {0, 1, 2}),
           DrawOp("opaqueRect", {0, 1, 2})}
NoFrame == Frame({}, 0)
FramesDrawn == {NoFrame, Frame(DrawsOnly, 5), Frame(RectClips, 5),
                Frame(ComplexClips, 5), Frame(Layers, 5)}
NothingDrawn == {NoFrame}

HwuiInit ==
  /\ Init /\ PathInit /\ DisplayInit
  /\ part \in {"thread", "paths", "display"}
  /\ (part = "paths") = (pathCalls.mix # NoCalls)
  /\ (part = "display") = (frame # NoFrame)

Thread(A) ==
  part = "thread" /\ A /\ UNCHANGED <<part, pathVars, displayVars>>
Paths(A) == part = "paths" /\ A /\ UNCHANGED <<part, vars, displayVars>>
Display(A) == part = "display" /\ A /\ UNCHANGED <<part, vars, pathVars>>

HwuiNext == Thread(Next) \/ Paths(PathNext) \/ Display(DisplayNext)
HwuiFairness ==
  /\ WF_hwuiVars(Thread(RenderLoop)) /\ WF_hwuiVars(Thread(Vsync))
  /\ WF_hwuiVars(Thread(Tick))
  /\ WF_hwuiVars(Paths(RenderStep))
  /\ \A w \in Worker : WF_hwuiVars(Paths(WorkerStep(w)))
HwuiSpec == HwuiInit /\ [][HwuiNext]_hwuiVars /\ HwuiFairness
=============================================================================
