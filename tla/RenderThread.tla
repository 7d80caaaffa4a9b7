---------------------------- MODULE RenderThread ----------------------------
(***************************************************************************)
(* The render thread of libs/hwui/renderthread: its task queue and sleep,  *)
(* the frame callbacks it runs on vsync, and the calls the UI threads make *)
(* to it through one RenderProxy per CanvasContext.  A task runs on the    *)
(* render thread; a synchronous call blocks its UI thread on a condition   *)
(* until the task signals it, which for a frame may be before it is drawn. *)
(***************************************************************************)
EXTENDS Integers, Sequences, FiniteSets

CONSTANTS
  Context,     \* a CanvasContext, its RenderProxy and the UI thread that owns it
  MaxCalls     \* bound: calls of the UI threads, besides those in Setup

ASSUME MaxCallsAssumption == MaxCalls \in Nat

\* Times a task can be due at: at once, at the end of the frame delay, never.
Now == 0
Delayed == 1
LLONG_MAX == 2

\* The calls of RenderProxy.  loseSurface is updateSurface without a window;
\* stopDrawing stands for pauseSurface and buildLayer too, which do the same to
\* the state modelled here.
Blocking == {"createContext", "initialize", "updateSurface", "loseSurface",
             "stopDrawing", "destroy", "drawFrame", "destroyContext"}
Async == {"destroyHardwareResources", "notifyFramePending"}

\* The calls that need no bound: each is possible once, or again after destroy.
Setup == {"createContext", "initialize", "destroyContext"}

\* The one task of the render thread itself, and the only one that is delayed.
mFrameCallbackTask == [op |-> "dispatchFrameCallbacks"]
Task == [op : Blocking \cup Async, c : Context] \cup {mFrameCallbackTask}
mRunAt(t) == IF t = mFrameCallbackTask THEN Delayed ELSE Now

VARIABLES
  sched,   \* the queue and mNextWakeup, under mLock; is the looper woken, and
           \* has the time of the delayed task come?
  rt,      \* the render thread's own state, its frame callbacks and its vsync
  cxt,     \* cxt[c]: the CanvasContext
  ui,      \* ui[c]: the UI thread: has it a RenderProxy, does it wait for one
  calls    \* calls made so far

vars == <<sched, rt, cxt, ui, calls>>

NoContext == [alive |-> FALSE, mNativeWindow |-> FALSE, mEglSurface |-> FALSE,
              mCanvas |-> FALSE]

Init ==
  /\ sched = [queue |-> <<>>, mNextWakeup |-> LLONG_MAX, wake |-> FALSE, due |-> FALSE]
  /\ rt = [pc |-> "poll", task |-> mFrameCallbackTask, todo |-> <<>>,
           canDrawThisFrame |-> FALSE, redraw |-> FALSE,
           nextWakeup |-> LLONG_MAX, callbacks |-> {},
           mFrameCallbacks |-> {}, mPendingRegistrationFrameCallbacks |-> {},
           mFrameCallbackTaskPending |-> FALSE, mVsyncRequested |-> FALSE,
           vsync |-> "none"]
  /\ cxt = [c \in Context |-> NoContext]
  /\ ui = [c \in Context |-> "none"]
  /\ calls = 0
-----------------------------------------------------------------------------
(* The task queue *)

\* Mutant: the last task posted goes first.
Bug_Lifo(q, t) == <<t>> \o q

\* Behind the tasks that are not due later than t.
InsertTask(q, t) ==
  LET later == {i \in DOMAIN q : mRunAt(q[i]) > mRunAt(t)}
      i == IF later = {} \/ mRunAt(q[Len(q)]) <= mRunAt(t) THEN Len(q) + 1
           ELSE CHOOSE j \in later : \A k \in later : j <= k
  IN SubSeq(q, 1, i - 1) \o <<t>> \o SubSeq(q, i, Len(q))

\* Mutant: only the first task of an empty queue wakes the looper.
Bug_WakeIfEmpty(s, t) ==
  [s EXCEPT !.queue = InsertTask(@, t), !.wake = @ \/ s.queue = <<>>]

\* The looper is woken unless the render thread is awake anyway.
queue(s, t) ==
  LET wakes == s.mNextWakeup # Now /\ mRunAt(t) < s.mNextWakeup
  IN [s EXCEPT !.queue = InsertTask(@, t),
               !.mNextWakeup = IF wakes THEN Now ELSE @,
               !.wake = @ \/ wakes]

queueAtFront(s, t) == [s EXCEPT !.queue = <<t>> \o @, !.wake = TRUE]

\* Is the first task of the queue to run now?
Ready(s) == s.queue # <<>> /\ (mRunAt(Head(s.queue)) = Now \/ s.due)

\* mNextWakeup as nextTask leaves it.
NextWakeup(s) == IF s.queue = <<>> THEN LLONG_MAX ELSE mRunAt(Head(s.queue))

-----------------------------------------------------------------------------
(* Vsync and frame callbacks *)

requestVsync(r) ==
  IF r.mVsyncRequested THEN r ELSE [r EXCEPT !.mVsyncRequested = TRUE, !.vsync = "asked"]

\* Mutant: a stale vsync is dropped before it ends the request.
Bug_DropStale(r) ==
  IF r.vsync = "fresh"
  THEN [r EXCEPT !.mVsyncRequested = FALSE, !.vsync = "none",
                 !.mFrameCallbackTaskPending = TRUE]
  ELSE [r EXCEPT !.vsync = IF @ = "stale" THEN "none" ELSE @]

\* A vsync that is not later than the last frame (TimeLord) only ends the
\* request.
Drained(r) ==
  IF r.vsync \in {"fresh", "stale"}
  THEN [r EXCEPT !.mVsyncRequested = FALSE, !.vsync = "none",
                 !.mFrameCallbackTaskPending = @ \/ r.vsync = "fresh"]
  ELSE r

\* Mutant: every vsync queues the dispatch.
Bug_DispatchAgain(r) == r.vsync = "fresh"

\* Does draining the display events queue the dispatch?
DispatchesNext(r) == r.vsync = "fresh" /\ ~r.mFrameCallbackTaskPending

drainDisplayEventQueue(s, r) ==
  IF DispatchesNext(r) THEN queue(s, mFrameCallbackTask) ELSE s

\* TimeLord moves on to the frame the UI thread draws, or to the present: a
\* vsync that has arrived meanwhile may no longer be news.
Advance(r) == {r} \cup IF r.vsync = "fresh" THEN {[r EXCEPT !.vsync = "stale"]} ELSE {}

postFrameCallback(r, c) ==
  [r EXCEPT !.mPendingRegistrationFrameCallbacks = @ \cup {c}]

removeFrameCallback(r, c) ==
  [r EXCEPT !.mFrameCallbacks = @ \ {c},
            !.mPendingRegistrationFrameCallbacks = @ \ {c}]

pushBackFrameCallback(r, c) ==
  IF c \in r.mFrameCallbacks THEN postFrameCallback(removeFrameCallback(r, c), c) ELSE r
-----------------------------------------------------------------------------
(* The canvas context *)

SetSurface(x, window) == [x EXCEPT !.mNativeWindow = window, !.mEglSurface = window]

\* Mutant: the frame callback of a context without surface stays registered.
Bug_KeepCallback(r, c, window) == r

\* setSurface's part on the render thread: no surface, no frames.
Surfaced(r, c, window) == IF window THEN r ELSE removeFrameCallback(r, c)

\* What traversing the tree of context x can find.  A running animator means
\* animations; an unfinished one that may not run without the UI thread, a
\* redraw, even before it runs.  The window may be running behind.
Prepared(x) ==
  [canDraw : IF x.mNativeWindow THEN BOOLEAN ELSE {FALSE},
   hasAnimations : BOOLEAN, requiresUiRedraw : BOOLEAN]

\* prepareTree posts the callback for an animation or a frame it must delay,
\* unless the UI thread is to redraw.
prepareTree(r, c, x, out) ==
  LET removed == removeFrameCallback(r, c)
  IN IF /\ x.mNativeWindow
        /\ out.hasAnimations \/ ~out.canDraw
        /\ ~out.requiresUiRedraw
     THEN postFrameCallback(removed, c) ELSE removed
-----------------------------------------------------------------------------
(* The render thread's loop *)

\* pollOnce returns: woken, by the display, or timed out.  It calls back for
\* the display events after it has cleared the wake.
PollReturns ==
  /\ rt.pc = "poll"
  /\ \/ sched.wake
     \/ rt.vsync \in {"fresh", "stale"}
     \/ rt.nextWakeup = Delayed /\ sched.due
  /\ sched' = drainDisplayEventQueue([sched EXCEPT !.wake = FALSE], rt)
  /\ rt' = [Drained(rt) EXCEPT !.pc = "tasks"]
  /\ UNCHANGED <<cxt, ui, calls>>

NextTask ==
  /\ rt.pc = "tasks"
  /\ IF Ready(sched)
     THEN LET t == Head(sched.queue)
          IN /\ sched' = [sched EXCEPT !.queue = Tail(@), !.mNextWakeup = NextWakeup(sched),
                                       !.due = @ /\ t # mFrameCallbackTask]
             /\ rt' = [rt EXCEPT !.pc = "run", !.task = t, !.todo = <<"run">>]
     ELSE /\ sched' = [sched EXCEPT !.mNextWakeup = NextWakeup(sched)]
          /\ rt' = [rt EXCEPT !.pc = "after", !.nextWakeup = NextWakeup(sched)]
  /\ UNCHANGED <<cxt, ui, calls>>

\* Registers what the tasks have posted, unless a dispatch is on its way.
Registered(r) ==
  IF r.mPendingRegistrationFrameCallbacks # {} /\ ~r.mFrameCallbackTaskPending
  THEN requestVsync([Drained(r) EXCEPT
         !.mFrameCallbacks = @ \cup r.mPendingRegistrationFrameCallbacks,
         !.mPendingRegistrationFrameCallbacks = {}])
  ELSE r

\* Mutant: the workaround is missing.
Bug_NoWorkaround(r) == r

\* The workaround for a vsync that was dropped as stale.
Rerequested(r) ==
  IF ~r.mFrameCallbackTaskPending /\ ~r.mVsyncRequested /\ r.mFrameCallbacks # {}
  THEN requestVsync(r) ELSE r

AfterTasks ==
  /\ rt.pc = "after"
  /\ sched' = IF rt.mPendingRegistrationFrameCallbacks # {} /\ ~rt.mFrameCallbackTaskPending
              THEN drainDisplayEventQueue(sched, rt) ELSE sched
  /\ rt' = [Rerequested(Registered(rt)) EXCEPT !.pc = "poll"]
  /\ UNCHANGED <<cxt, ui, calls>>

-----------------------------------------------------------------------------
(* The tasks *)

At(step) == rt.pc = "run" /\ Head(rt.todo) = step

\* r with the first step of the task done and the steps next to follow.
Continue(r, next) ==
  LET todo == next \o Tail(r.todo)
      done == todo = <<>>
  IN [r EXCEPT !.todo = todo, !.pc = IF done THEN "tasks" ELSE "run",
               !.canDrawThisFrame = @ /\ ~done, !.redraw = @ /\ ~done]

\* The body of a method task: context x and render thread r afterwards.
RunMethod(op, x, r) ==
  LET c == rt.task.c
  IN /\ At("run") /\ rt.task.op = op
     /\ cxt' = [cxt EXCEPT ![c] = x]
     /\ rt' = Continue(r, IF op \in Blocking THEN <<"signal">> ELSE <<>>)
     /\ UNCHANGED <<sched, ui, calls>>

Destroyed(x) == [SetSurface(x, FALSE) EXCEPT !.mCanvas = FALSE]

RunTask ==
  LET c == rt.task.c
      x == cxt[c]
      stopped == removeFrameCallback(rt, c)
  IN \/ RunMethod("createContext", [NoContext EXCEPT !.alive = TRUE], rt)
     \/ RunMethod("initialize", [SetSurface(x, TRUE) EXCEPT !.mCanvas = TRUE], rt)
     \/ RunMethod("updateSurface", SetSurface(x, TRUE), Surfaced(rt, c, TRUE))
     \/ RunMethod("loseSurface", SetSurface(x, FALSE), Surfaced(rt, c, FALSE))
     \/ RunMethod("stopDrawing", x, stopped)
     \/ RunMethod("destroyHardwareResources", x, stopped)
     \/ RunMethod("notifyFramePending", x, pushBackFrameCallback(rt, c))
     \/ RunMethod("destroy", Destroyed(x), stopped)
     \/ RunMethod("destroyContext", NoContext, stopped)

\* Mutant: the UI thread is unblocked only before the frame is drawn.
Bug_UnblockEarly(canDraw, canUnblock) ==
  (IF canUnblock THEN <<"signal">> ELSE <<>>) \o (IF canDraw THEN <<"draw">> ELSE <<>>)

\* What follows the sync of a frame; canUnblock if the textures fit into the
\* cache.
FrameSteps(canDraw, canUnblock) ==
  LET draw == IF canDraw THEN <<"draw">> ELSE <<>>
  IN IF canUnblock THEN <<"signal">> \o draw ELSE draw \o <<"signal">>

\* DrawFrameTask::run up to the point where the UI thread may go on.
SyncFrameState ==
  LET c == rt.task.c
  IN /\ At("run") /\ rt.task.op = "drawFrame"
     /\ \E out \in Prepared(cxt[c]), r \in Advance(rt), canUnblock \in BOOLEAN :
          rt' = Continue([prepareTree(r, c, cxt[c], out) EXCEPT
                            !.canDrawThisFrame = out.canDraw,
                            !.redraw = out.hasAnimations /\ out.requiresUiRedraw],
                         FrameSteps(out.canDraw, canUnblock))
     /\ UNCHANGED <<sched, cxt, ui, calls>>

\* A frame is drawn; swapBuffers gives up a surface that has gone away.
Draw ==
  LET c == rt.task.c
  IN /\ At("draw")
     /\ \/ rt' = Continue(rt, <<>>) /\ UNCHANGED cxt
        \/ /\ cxt' = [cxt EXCEPT ![c] = SetSurface(@, FALSE)]
           /\ rt' = Continue(Surfaced(rt, c, FALSE), <<>>)
     /\ UNCHANGED <<sched, ui, calls>>

\* The task signals the condition its UI thread waits on.
Signal ==
  LET c == rt.task.c
  IN /\ At("signal")
     /\ ui' = [ui EXCEPT ![c] =
                 IF rt.task.op = "destroyContext" THEN "gone" ELSE "running"]
     /\ rt' = Continue(rt, <<>>)
     /\ UNCHANGED <<sched, cxt, calls>>

dispatchFrameCallbacks ==
  /\ At("run") /\ rt.task = mFrameCallbackTask
  /\ LET r == [rt EXCEPT !.mFrameCallbackTaskPending = FALSE,
                         !.callbacks = rt.mFrameCallbacks, !.mFrameCallbacks = {}]
     IN rt' = IF r.callbacks # {} THEN Continue(requestVsync(r), <<"doFrame">>)
              ELSE Continue(r, <<>>)
  /\ UNCHANGED <<sched, cxt, ui, calls>>

\* One of the callbacks that dispatchFrameCallbacks has taken; the render
\* thread's own frame of a context without surface is skipped.
doFrame ==
  /\ At("doFrame")
  /\ \E c \in rt.callbacks :
       LET next(r) == Continue([r EXCEPT !.callbacks = @ \ {c}],
                               IF rt.callbacks = {c} THEN <<>> ELSE <<"doFrame">>)
       IN IF ~cxt[c].mCanvas \/ ~cxt[c].mEglSurface
          THEN rt' = next(rt) /\ UNCHANGED cxt
          ELSE \E out \in Prepared(cxt[c]), r \in Advance(rt), kept \in BOOLEAN :
                 /\ kept \/ out.canDraw
                 /\ cxt' = [cxt EXCEPT ![c] = SetSurface(@, kept)]
                 /\ rt' = next(Surfaced(prepareTree(r, c, cxt[c], out), c, kept))
  /\ UNCHANGED <<sched, ui, calls>>
-----------------------------------------------------------------------------
(* The UI threads *)

\* The calls a UI thread makes in this state of its context, which only its
\* own calls change: no surface without a canvas, and nothing after the end.
MayCall(c, op) ==
  CASE ui[c] = "none" -> op = "createContext"
    [] ui[c] = "running" ->
         IF op \in {"createContext", "destroyContext"} THEN op = "destroyContext"
         ELSE /\ op \notin Setup => calls < MaxCalls
              /\ op = "initialize" => ~cxt[c].mCanvas
              /\ op \in {"updateSurface", "loseSurface"} => cxt[c].mCanvas
    [] OTHER -> FALSE

\* postAndWait.  The UI thread holds the mutex that the signal needs until it
\* waits, so nothing comes between.
Post(c, op) ==
  /\ MayCall(c, op) /\ op \in Blocking
  /\ sched' = queue(sched, [op |-> op, c |-> c])
  /\ ui' = [ui EXCEPT ![c] = "waiting"]
  /\ calls' = IF op \in Setup THEN calls ELSE calls + 1
  /\ UNCHANGED <<rt, cxt>>

PostAsync(c, op) ==
  /\ MayCall(c, op) /\ op \in Async
  /\ LET t == [op |-> op, c |-> c]
     IN sched' = IF op = "notifyFramePending" THEN queueAtFront(sched, t)
                 ELSE queue(sched, t)
  /\ calls' = calls + 1
  /\ UNCHANGED <<rt, cxt, ui>>
-----------------------------------------------------------------------------
(* The display and the clock *)

Vsync ==
  /\ rt.vsync = "asked"
  /\ rt' = [rt EXCEPT !.vsync = "fresh"]
  /\ UNCHANGED <<sched, cxt, ui, calls>>

\* The time of the delayed task comes.
Tick ==
  /\ ~sched.due
  /\ \E i \in DOMAIN sched.queue : sched.queue[i] = mFrameCallbackTask
  /\ sched' = [sched EXCEPT !.due = TRUE]
  /\ UNCHANGED <<rt, cxt, ui, calls>>

RenderLoop ==
  \/ PollReturns \/ NextTask \/ AfterTasks
  \/ RunTask \/ SyncFrameState \/ Draw \/ Signal
  \/ dispatchFrameCallbacks \/ doFrame

Next ==
  \/ RenderLoop \/ Vsync \/ Tick
  \/ \E c \in Context, op \in Blocking \cup Async : Post(c, op) \/ PostAsync(c, op)

Spec == Init /\ [][Next]_vars

\* The render thread loops for ever, a requested vsync comes and time passes.
\* What a UI thread calls is its own business.
Fairness ==
  WF_vars(RenderLoop) /\ WF_vars(Vsync) /\ WF_vars(Tick)

FairSpec == Spec /\ Fairness
-----------------------------------------------------------------------------
(* What must be true in every state *)

\* queue's test of mNextWakeup never lets a task slip past a thread that goes
\* to sleep: what the sleeping thread is not woken for is the delayed task,
\* and its sleep ends in time for that one.
NoTaskSleptOver ==
  rt.pc = "poll" /\ ~sched.wake /\ sched.queue # <<>> =>
    mRunAt(Head(sched.queue)) = Delayed /\ rt.nextWakeup = Delayed

\* The one mFrameCallbackTask is in the queue exactly while it counts as
\* pending, and never twice: the queue is linked through its tasks, and aborts.
DispatchQueuedOnce ==
  LET places == {i \in DOMAIN sched.queue : sched.queue[i] = mFrameCallbackTask}
      starts == At("run") /\ rt.task = mFrameCallbackTask
  IN /\ Cardinality(places) <= 1
     /\ rt.mFrameCallbackTaskPending <=> (places # {} \/ starts)

\* A render thread that goes to sleep with an animation registered has a vsync
\* or its dispatch coming, whatever it did with the last vsync.
AnimationsKeepGoing ==
  rt.pc = "poll" =>
    /\ rt.mVsyncRequested => rt.vsync # "none"
    /\ rt.mPendingRegistrationFrameCallbacks # {} => rt.mFrameCallbackTaskPending
    /\ rt.mFrameCallbacks # {} => rt.mFrameCallbackTaskPending \/ rt.mVsyncRequested

\* The render thread holds plain pointers: no call on a context runs, and no
\* frame callback is kept, once the context is deleted or has lost its surface;
\* and a frame that prepareTree let through, the UI thread being free to take
\* the surface away in the meantime, still has canvas and surface when drawn.
NoDanglingContext ==
  /\ \A c \in rt.callbacks \cup rt.mFrameCallbacks
              \cup rt.mPendingRegistrationFrameCallbacks :
       cxt[c].alive /\ cxt[c].mEglSurface
  /\ rt.pc = "run" /\ rt.task # mFrameCallbackTask =>
       \/ cxt[rt.task.c].alive
       \/ rt.task.op \in {"createContext", "destroyContext"}
  /\ At("draw") => cxt[rt.task.c].mCanvas /\ cxt[rt.task.c].mEglSurface

\* When the RenderProxy is gone, so is everything the UI thread ever posted:
\* its last call is a fence.
DestroyIsFence ==
  \A c \in Context : ui[c] = "gone" =>
    /\ \A i \in DOMAIN sched.queue :
         sched.queue[i] # mFrameCallbackTask => sched.queue[i].c # c
    /\ rt.pc = "run" /\ rt.task # mFrameCallbackTask => rt.task.c # c
-----------------------------------------------------------------------------
(* What must become true *)

\* Every call the UI thread waits for returns.
UiCallsReturn == \A c \in Context : []<>(ui[c] # "waiting")

\* A registered frame callback runs or is taken back, however many vsyncs come
\* too early or too late for it.
CallbacksRun ==
  \A c \in Context :
    []<>(c \notin rt.mFrameCallbacks \cup rt.mPendingRegistrationFrameCallbacks)
=============================================================================
