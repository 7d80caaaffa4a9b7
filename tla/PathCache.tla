----------------------------- MODULE PathCache -----------------------------
(***************************************************************************)
(* The cache of path textures of hwui and the worker threads that draw      *)
(* paths ahead of their use (libs/hwui/PathCache.cpp, thread/TaskManager.cpp)*)
(*                                                                          *)
(* The render thread carries out one call at a time; what is left of it is  *)
(* the sequence todo, whose head it runs next, so that it blocks where the  *)
(* code waits for the result of a task.  A path is drawn into a texture of  *)
(* PathSize[p]; a size above MaxTexture is too large for OpenGL.            *)
(***************************************************************************)
EXTENDS Naturals, Sequences, FiniteSets, SequencesExt, FiniteSetsExt, Functions

CONSTANTS
  Path,         \* the paths that are drawn
  Worker,       \* the worker threads
  PathSize,     \* Path -> the size of its texture
  MaxCacheSize, \* mMaxSize
  MaxTexture,   \* mMaxTextureSize
  PathCalls,    \* the mixtures of calls that the render thread may make
  MaxPathCalls  \* bound on calls

ASSUME PathCacheBounds ==
  /\ PathSize \in [Path -> Nat \ {0}] /\ MaxCacheSize \in Nat /\ MaxTexture \in Nat
  /\ Worker \subseteq Nat
  /\ IsFiniteSet(Path) /\ IsFiniteSet(Worker)
  /\ PathCalls \subseteq SUBSET {"precache", "get", "finish", "modify", "clearGarbage", "flush"}

VARIABLES
  pathCache,    \* mCache, oldest first: the textures, each with its path
  cacheSize,    \* mSize
  generation,   \* Path -> its generation ID
  pathTask,     \* Path -> the state of the task of its texture
  todo,         \* what is left of the call of the render thread
  worker,       \* Worker -> the state of its thread
  pathCalls     \* the calls it makes and how many are left

pathVars == <<pathCache, cacheSize, generation, pathTask, todo, worker, pathCalls>>

Idle == [tasks |-> <<>>, batch |-> <<>>, signaled |-> FALSE, running |-> FALSE,
         exitPending |-> FALSE, pc |-> "off"]

PathInit ==
  /\ pathCache = <<>>
  /\ cacheSize = 0
  /\ generation = [p \in Path |-> 0]
  /\ pathTask = [p \in Path |-> "none"]
  /\ todo = <<>>
  /\ worker = [w \in Worker |-> Idle]
  /\ pathCalls \in [mix : PathCalls, left : {MaxPathCalls}]

InCache(p) == \E i \in DOMAIN pathCache : pathCache[i].path = p
PositionOf(p) == CHOOSE i \in DOMAIN pathCache : pathCache[i].path = p
TextureOf(p) == pathCache[PositionOf(p)]
Without(p) == RemoveAt(pathCache, PositionOf(p))
(* LruCache::get makes an entry the newest.                                  *)
Touched(p) == IF InCache(p) THEN Append(Without(p), TextureOf(p)) ELSE pathCache

(* hasTask: the texture still holds its task; freed: its memory is gone.     *)
createTexture(p) == [path |-> p, size |-> 0, generation |-> generation[p],
                     hasTask |-> FALSE, freed |-> FALSE]

-----------------------------------------------------------------------------
(* Calls of the render thread: each looks the path up and notes what it does.*)

Call(name) == /\ name \in pathCalls.mix /\ todo = <<>>
              /\ pathCalls.left > 0 /\ pathCalls' = [pathCalls EXCEPT !.left = @ - 1]
Outdated(p) == TextureOf(p).generation # generation[p]

precache(p) ==
  /\ Call("precache")
  /\ todo' = IF ~InCache(p) THEN <<<<"put", p>>, <<"start", p>>>>
             ELSE IF Outdated(p) THEN <<<<"remove", p>>, <<"put", p>>, <<"start", p>>>>
             ELSE <<>>
  /\ pathCache' = Touched(p)
  /\ UNCHANGED <<cacheSize, generation, pathTask, worker>>

AddTexture(p) ==
  IF PathSize[p] > MaxTexture THEN <<>> ELSE <<<<"purge", p>>, <<"generate", p>>>>

get(p) ==
  /\ Call("get")
  /\ todo' = IF ~InCache(p) THEN AddTexture(p)
             ELSE IF TextureOf(p).hasTask THEN <<<<"upload", p>>>>
             ELSE IF Outdated(p) THEN <<<<"remove", p>>>> \o AddTexture(p)
             ELSE <<>>
  /\ pathCache' = Touched(p)
  /\ UNCHANGED <<cacheSize, generation, pathTask, worker>>

(* OpenGLRenderer::finish at the end of a frame.                             *)
finish == /\ Call("finish") /\ todo' = <<<<"trim">>>>
          /\ UNCHANGED <<pathCache, cacheSize, generation, pathTask, worker>>

(* The application changes a path between two frames.                        *)
ModifyPath(p) ==
  /\ Call("modify") /\ generation[p] = 0
  /\ generation' = [generation EXCEPT ![p] = 1]
  /\ UNCHANGED <<pathCache, cacheSize, pathTask, todo, worker>>

(* removeDeferred by another thread, then clearGarbage: the entries of the   *)
(* paths that are gone.                                                      *)
clearGarbage(gone) ==
  /\ Call("clearGarbage")
  /\ todo' = SetToSeq({<<"remove", p>> : p \in {q \in gone : InCache(q)}})
  /\ UNCHANGED <<pathCache, cacheSize, generation, pathTask, worker>>

(* Caches::flush above kFlushMode_Layers: the threads are stopped, then the  *)
(* cache is cleared.                                                         *)
flush ==
  /\ Call("flush")
  /\ todo' = Append(SetToSeq({<<"exit", w>> : w \in Worker}), <<"clear">>)
  /\ UNCHANGED <<pathCache, cacheSize, generation, pathTask, worker>>

-----------------------------------------------------------------------------
(* What the calls are made of.                                              *)

Does(step) == todo # <<>> /\ Head(todo)[1] = step
Arg == Head(todo)[2]

(* removeTexture first waits for a task, whose texture has not been counted. *)
Removable(t) == t.hasTask => pathTask[t.path] = "done"
Counted(t) == IF t.hasTask THEN 0 ELSE t.size
(* Mutant: an entry that is replaced keeps its size.                         *)
Bug_KeepSize(t) ==
  /\ Removable(t)
  /\ pathCache' = Without(t.path)
  /\ pathTask' = [pathTask EXCEPT ![t.path] = "none"]
  /\ UNCHANGED <<cacheSize, generation, worker, pathCalls>>
removeTexture(t) ==
  /\ Removable(t)
  /\ cacheSize' = cacheSize - Counted(t)
  /\ pathCache' = Without(t.path)
  /\ pathTask' = [pathTask EXCEPT ![t.path] = "none"]
  /\ UNCHANGED <<generation, worker, pathCalls>>

RemoveEntry == /\ Does("remove")
          /\ removeTexture(TextureOf(Arg))
          /\ todo' = Tail(todo)

(* precache puts a texture that is only a task into the cache.               *)
Put == /\ Does("put")
       /\ pathCache' = Append(pathCache, [createTexture(Arg) EXCEPT !.hasTask = TRUE])
       /\ pathTask' = [pathTask EXCEPT ![Arg] = "new"]
       /\ todo' = Tail(todo)
       /\ UNCHANGED <<cacheSize, generation, worker, pathCalls>>

(* addTaskBase picks the first thread of those with the fewest tasks;        *)
(* addTask starts it if it does not run, and then queues the task under its  *)
(* lock.                                                                     *)
TaskCount(w) == Len(worker[w].tasks)
Start ==
  /\ Does("start")
  /\ \E w \in Worker :
       /\ \A v \in Worker : /\ TaskCount(w) <= TaskCount(v)
                            /\ v < w => TaskCount(w) # TaskCount(v)
       /\ worker' = IF worker[w].running THEN worker
            ELSE [worker EXCEPT ![w].running = TRUE, ![w].exitPending = FALSE,
                                ![w].pc = "wait"]
       /\ todo' = <<<<"addTask", Arg, w>>>> \o Tail(todo)
  /\ UNCHANGED <<pathCache, cacheSize, generation, pathTask, pathCalls>>
(* Mutant: the thread is signalled only when it starts.                      *)
Bug_QueueQuietly ==
  /\ Does("addTask")
  /\ worker' = [worker EXCEPT ![Head(todo)[3]].tasks = Append(@, Arg)]
  /\ pathTask' = [pathTask EXCEPT ![Arg] = "queued"]
  /\ todo' = Tail(todo)
  /\ UNCHANGED <<pathCache, cacheSize, generation, pathCalls>>
addTask ==
  /\ Does("addTask")
  /\ worker' = [worker EXCEPT ![Head(todo)[3]].tasks = Append(@, Arg),
                              ![Head(todo)[3]].signaled = TRUE]
  /\ pathTask' = [pathTask EXCEPT ![Arg] = "queued"]
  /\ todo' = Tail(todo)
  /\ UNCHANGED <<pathCache, cacheSize, generation, pathCalls>>

(* get waits for the bitmap.  A path too large has none.  A texture that     *)
(* does not fit into the cache is counted, and freed after it has been drawn *)
(* (AutoTexture) although it is in the cache.                                *)
Upload ==
  LET t == TextureOf(Arg)
      size == PathSize[Arg]
      done == [t EXCEPT !.hasTask = FALSE, !.size = size,
                        !.freed = size >= MaxCacheSize]
  IN /\ Does("upload")
     /\ pathTask[Arg] = "done"
     /\ pathTask' = [pathTask EXCEPT ![Arg] = "none"]
     /\ IF size > MaxTexture
        THEN /\ pathCache' = Without(Arg) /\ UNCHANGED cacheSize
        ELSE /\ pathCache' = Append(Without(Arg), done)
             /\ cacheSize' = cacheSize + size
     /\ todo' = Tail(todo)
     /\ UNCHANGED <<generation, worker, pathCalls>>

(* purgeCache and trim take the oldest texture until there is room.          *)
NeedsRoom(step) ==
  CASE step[1] = "purge" -> /\ PathSize[step[2]] < MaxCacheSize
                            /\ cacheSize + PathSize[step[2]] > MaxCacheSize
    [] step[1] = "trim" -> cacheSize > MaxCacheSize
    [] OTHER -> pathCache # <<>>
removeOldest ==
  /\ Does("purge") \/ Does("trim") \/ Does("clear")
  /\ IF NeedsRoom(Head(todo)) /\ pathCache # <<>>
     THEN removeTexture(Head(pathCache)) /\ UNCHANGED todo
     ELSE /\ ~NeedsRoom(Head(todo))
          /\ todo' = Tail(todo)
          /\ UNCHANGED <<pathCache, cacheSize, generation, pathTask, worker, pathCalls>>

(* A texture that does not fit is not put into the cache: it is freed after  *)
(* it has been drawn.                                                        *)
generateTexture ==
  /\ Does("generate")
  /\ IF PathSize[Arg] < MaxCacheSize
     THEN /\ pathCache' = Append(pathCache, [createTexture(Arg) EXCEPT !.size = PathSize[Arg]])
          /\ cacheSize' = cacheSize + PathSize[Arg]
     ELSE UNCHANGED <<pathCache, cacheSize>>
  /\ todo' = Tail(todo)
  /\ UNCHANGED <<generation, pathTask, worker, pathCalls>>

(* WorkerThread::exit drops the tasks that the thread has not taken yet.     *)
exit ==
  /\ Does("exit")
  /\ worker' = [worker EXCEPT ![Arg].tasks = <<>>, ![Arg].exitPending = TRUE,
                              ![Arg].signaled = TRUE]
  /\ pathTask' = [p \in Path |-> IF p \in ToSet(worker[Arg].tasks)
                                 THEN "dropped" ELSE pathTask[p]]
  /\ todo' = Tail(todo)
  /\ UNCHANGED <<pathCache, cacheSize, generation, pathCalls>>

-----------------------------------------------------------------------------
(* Worker threads: wait for the signal, take all tasks, process them, and    *)
(* end if an exit is pending.                                                *)

WorkerAt(w, pc) == worker[w].pc = pc
unchangedRender == UNCHANGED <<pathCache, cacheSize, generation, todo, pathCalls>>
WaitSignal(w) ==
  /\ WorkerAt(w, "wait") /\ worker[w].signaled
  /\ worker' = [worker EXCEPT ![w].signaled = FALSE, ![w].pc = "take"]
  /\ UNCHANGED pathTask /\ unchangedRender
TakeTasks(w) ==
  /\ WorkerAt(w, "take")
  /\ worker' = [worker EXCEPT ![w].batch = worker[w].tasks, ![w].tasks = <<>>,
                              ![w].pc = "process"]
  /\ UNCHANGED pathTask /\ unchangedRender
Process(w) ==
  /\ WorkerAt(w, "process")
  /\ IF worker[w].batch # <<>>
     THEN /\ pathTask' = [pathTask EXCEPT ![Head(worker[w].batch)] = "done"]
          /\ worker' = [worker EXCEPT ![w].batch = Tail(@)]
     ELSE /\ worker' = [worker EXCEPT ![w].pc = "loop"]
          /\ UNCHANGED pathTask
  /\ unchangedRender
ThreadLoop(w) ==
  /\ WorkerAt(w, "loop")
  /\ worker' = IF worker[w].exitPending
               THEN [worker EXCEPT ![w].running = FALSE, ![w].pc = "off"]
               ELSE [worker EXCEPT ![w].pc = "wait"]
  /\ UNCHANGED pathTask /\ unchangedRender

RenderStep == \/ RemoveEntry \/ Put \/ Start \/ addTask \/ Upload \/ removeOldest
              \/ generateTexture \/ exit
WorkerStep(w) == WaitSignal(w) \/ TakeTasks(w) \/ Process(w) \/ ThreadLoop(w)
PathNext ==
  \/ \E p \in Path : precache(p) \/ get(p) \/ ModifyPath(p)
  \/ finish \/ flush
  \/ \E gone \in SUBSET Path : clearGarbage(gone)
  \/ RenderStep
  \/ \E w \in Worker : WorkerStep(w)

(* Both kinds of threads run while they are not blocked.                     *)
PathFairness == WF_pathVars(RenderStep) /\ \A w \in Worker : WF_pathVars(WorkerStep(w))
PathSpec == PathInit /\ [][PathNext]_pathVars /\ PathFairness

-----------------------------------------------------------------------------
\* The sum of the sizes of the uploaded textures in a list.
TotalSize(q) ==
  LET total[n \in 0 .. Len(q)] == IF n = 0 THEN 0 ELSE total[n - 1] + Counted(q[n])
  IN total[Len(q)]

(* mSize is the size of the textures that have been uploaded, whatever mix of*)
(* waiting, removing and replacing there was; the loops of trim and          *)
(* purgeCache would never end if it were too large.  A path has one texture, *)
(* and a texture that waits for a task has one that was created.             *)
SizeIsAccurate ==
  /\ cacheSize = TotalSize(pathCache)
  /\ \A i, j \in DOMAIN pathCache : pathCache[i].path = pathCache[j].path => i = j
  /\ \A i \in DOMAIN pathCache :
       pathCache[i].hasTask => pathTask[pathCache[i].path] # "none"

(* The render thread comes to the end of every call: whatever task it waits  *)
(* for is run by a worker.                                                   *)
RenderCallsReturn == []<>(todo = <<>>)

(* generateTexture: a texture that is larger than the cache stays in it until*)
(* trim takes it out; one in the cache has not been freed.                   *)
CachedTexturesAlive == \A i \in DOMAIN pathCache : ~pathCache[i].freed
=============================================================================
