# Verification of the native core of frameworks/base

This directory holds TLA+ models of the native parts of this repository that are
hard to test: the distributed clock of `libs/common_time`, the render thread, the
path cache and the deferred drawing of `libs/hwui`, the sprites and the pointer of
`libs/input`, and the resource table of `libs/androidfw`. TLC checks them on small
instances, and TLAPS proves the core properties of the clock, the render thread, the
path cache, the sprites, the pointer and the resource table for every instance.
`PROJECT.json` is the index: the components, the runs, the lines of source each
definition stands for, the mutants that each property catches, the hazards and the
theorems.

Run from this directory: `tlc -config <run>.cfg <MC module>` checks a run, and
`tlapm <module>_proofs.tla` checks proofs.

Contents: 1 inventory, 2 the models, 3 the runs, 4 fairness, 5 the proofs,
6 what the code does otherwise than its comments say, 7 what is not modelled,
8 plan.

## 1. Inventory

The repository is a slice of Android's frameworks/base: native libraries under
`src/libs`, shell front ends and native tools under `src/cmds`, headers under
`src/include`. Much of it is the parsing of binary formats, drawing through
OpenGL, or one-shot commands. Its own concurrent, distributed or stateful logic is
in the following places.

### 1.1 libs/common_time: a clock that several devices share

Devices on a network agree on a *common time*, for playing media together. One
of them is master of a *timeline*; the others ask it for the time and discipline
their clocks. There is no configuration of who is master: devices elect one, and
elect another when it disappears.

| part | state | operations |
|---|---|---|
| `CommonTimeServer` state machine (`common_time_server.cpp`) | `mState` (INITIAL, CLIENT, MASTER, RONIN, WAIT_FOR_ELECTION), the timeline, the master, its priority, retry counters, one timeout | handlers of five packets, five timeout handlers, six `become*()` transitions |
| its work thread (`common_time_server.cpp`, `common_time_server_api.cpp`) | the socket, the bound interface, a dirty flag, auto-disable, an eventfd | the poll loop; configuration calls from binder threads |
| `CommonClockService` (`common_clock_service.cpp`) | the list of listeners, two locks | register, unregister, binderDied, callbacks |
| `ClockRecoveryLoop` (`clock_recovery.cpp`) | a startup filter, a PID controller, the slew | `pushDisciplineEvent`, `reset` |
| `CommonClock`, `LocalClock`, `Timeout` | the transform from local to common time; one absolute timeout | conversions |
| `CommonTimeConfigService`, `main.cpp`, `diag_thread.cpp` | none of their own, debugging | forward calls |

They interact as follows. The work thread owns the state machine and holds
`mLock` except while it polls. Binder threads call the configuration API and the
listener API: the first take `mLock`; the second take `mRegistrationLock`, then
`mCallbackLock`, then `mLock`. The work thread calls the listeners back with
`mLock` and `mCallbackLock` held. Devices exchange UDP packets: WhoIsMaster
request and response, sync request and response, master announcement.

Hard behaviours: packets that are lost, repeated, late or out of order; a master
that dies or joins two networks together; a socket that comes and goes while an
election is on; a call made between the moment the thread computes its timeout
and the moment it blocks; listeners that die while they are called.

What makes it correct: everybody ends up with one master and its time; a device
never tells the time of one timeline under the name of another; a master can
answer; roles, timelines, masters and priorities agree; no device goes to sleep
for ever; no configuration call is overlooked; listeners know the timeline, and
no one who has left the list is called; no deadlock.

### 1.2 libs/hwui/renderthread: the thread that draws

| part | state | operations |
|---|---|---|
| `RenderThread`, `TaskQueue` | a queue of tasks by time, `mNextWakeup`, two sets of frame callbacks, the pending dispatch, the requested vsync | `queue`, `queueAtFront`, `threadLoop`, `drainDisplayEventQueue`, `dispatchFrameCallbacks`, `postFrameCallback`, `removeFrameCallback`, `pushBackFrameCallback` |
| `CanvasContext` | its surface, its canvas | `initialize`, `updateSurface`, `prepareTree`, `draw`, `doFrame`, `destroyCanvasAndSurface`, … |
| `RenderProxy`, `DrawFrameTask` | one per UI thread: a mutex and a condition | synchronous and asynchronous calls; a frame, which unblocks the UI thread before or after it is drawn |

The UI threads call through a `RenderProxy`, which posts a task and, for a
synchronous call, waits. The render thread keeps plain pointers to contexts.
Vsync arrives as a display event, and the dispatch it causes is queued with a
delay of 4 ms. Hard: sleeping over a task posted at the wrong moment, queueing
the one dispatch task twice, forgetting an animation when a vsync is dropped as
stale, using a context that has been deleted, drawing on a surface that has gone
away, a UI thread blocked for ever, a UI thread unblocked too early.

### 1.3 libs/hwui: worker threads and the path cache

`TaskManager` hands tasks to worker threads, each with a queue, a signal and a
thread that takes all its tasks at once; the results come back in futures.
`PathCache` keeps textures of paths: `precache` has a worker draw the path, `get`
waits for the result and uploads it, or draws it itself; `trim`, `remove` and
`clear` free textures, waiting for workers that still draw into them; deleted
paths leave garbage that another thread collects. `Caches::flush` stops the
workers and clears the cache.

Hard: a texture that is replaced or removed while it is drawn, a task added while
its worker is about to sleep, a future nobody will produce, a size that is
counted twice or not at all. Correct: `mSize` is the size of what is in the
cache, no texture in it has been freed, the render thread never waits for ever.

### 1.4 libs/hwui: deferred drawing

`DeferredDisplayList` collects the operations of a frame in *batches* of similar
draws. A draw may join an older batch and so move over the draws in between;
draws of one batch may be merged into one; draws under an opaque one are thrown
away. Saves, layers and clips that a rectangle cannot describe are *barriers*,
played again when the list is flushed. Everything happens in one thread. Hard:
the same picture must come out of very different sequences of operations; the
stack of saved states has another depth at flush time than at defer time.
Correct: a flushed frame is what drawing at once would have painted.

### 1.5 libs/input: sprites and the pointer

| part | state | operations |
|---|---|---|
| `SpriteController` | the states of sprites with dirty bits, the sprites invalidated and the surfaces to dispose of, the depth of transactions; a lock | the calls of a sprite, transactions; on the looper `doUpdateSprites` and `doDisposeSurfaces` |
| `PointerController` | position, alpha and presentation of the pointer, the viewport, spots and a pool of sprites | moves, `setDisplayViewport`, `fade`, `unfade`, `setPresentation`, `setSpots`, `clearSpots`; on the looper `doAnimate` and `doInactivityTimeout` |

Clients change a sprite under the lock, while `doUpdateSprites` copies the states
under the lock, works on the surfaces without it, and writes back what it did.
Hard: changes made in between; transactions that nest; a composer that refuses
a call; a display that turns; a spot sprite used again for another finger; an
animation that stops by itself. Correct: the screen shows in the end what clients
asked for; no change is lost between the messages; the pointer stays on the
display; no sprite shows a spot that is gone; what fades gets faded.

### 1.6 libs/androidfw: the resource table

`ResTable` holds groups of packages. Packages are added one by one; a shared
library gets its ID when it is added, so references to it are *dynamic* and
translated through tables; an overlay lies over a package through an *idmap*. A
lookup takes the best configuration among the candidates of all packages of a
group. *Bags* (styles) inherit from others and are cached. Hard: the order of
adding; holes and offsets of idmaps; a comparison of configurations with about
twenty rules; caches that become stale. Correct: a name means the same resource
for everybody who refers to it, whatever the IDs; an overlay replaces exactly what
has the same name; the configuration that wins is as good for the device as any
other; a bag has its own attributes and those it inherits.

### 1.7 The rest

Property staging and damage of render nodes, caches, fonts and OpenGL drawing in
`hwui`; assets, zip, obb, backup streams and cursor windows in `androidfw`;
marshalling of binder calls in `storage`; shell front ends in `cmds`;
`uiautomator`; a USB test library. Not modelled (section 7).

## 2. The models

    TimeServerHandlers          the handlers of one CommonTimeServer, as functions
      |            \
    CommonTimeServer  WorkThread      many devices + network | one device + API
      |   \ implements
      |    CommonTimeline             what the network of devices promises
    CommonClockService                listeners, binder threads, three locks

    RenderThread                      task queue, vsync, contexts, UI threads
    PathCache                         path textures, worker threads, futures
    DeferredDisplayList               batches against drawing at once
      \__ MC_Hwui                     one run for the three

    SpriteController                  clients, looper, composer
    PointerController                 pointer, spots, display
    ResTableConfig                    which configuration is better
    ResourceTable                     packages, overlays, libraries
      |
    ResourceBags                      references and bags
      \__ MC_InputResources           one run for the five

    TimeServerHandlers_proofs <- CommonTimeServer_proofs
                              <- WorkThread_proofs          CommonClockService_proofs
    RenderThread_proofs          PathCache_proofs
    InputControllers_proofs      ResourceTable_proofs

`MC_CommonTimeServer`, `MC_WorkThread` and `MC_CommonClockService` only make a
module known to TLC. `MC_Hwui` and `MC_InputResources` put modules that do not
interact into one run: the variable `part` says which of them moves in a
behaviour, the others keep their initial state, and the state space is the sum,
not the product, of theirs. A property of one part holds of the other parts'
behaviours because its initial state satisfies it; fairness is stated per part.

The values of the constants are in the `.cfg` files. Operators and fields have the
names of the C++ functions and members they stand for. Definitions called `Bug_...`
are what the next definition would be with a plausible mistake. They are used by no
module; each property is known to fail when one of them takes the place of the
real one.

### 2.1 TimeServerHandlers

A device is a record with the members of `CommonTimeServer` that decide what it
does, and every handler is an operator from that record (and a packet) to a new
record and the packet sent. Both `CommonTimeServer` and `WorkThread` use them, so
there is one translation of each handler.

What is abstracted:

- *Time.* A common time is represented by the timeline it is the time of.
  `mCommonClock` is the timeline the clock's basis was taken from, and a sync
  response carries the timeline its times were computed from. So the model can
  tell a right time from one of another timeline, and not a good estimate from a
  bad one.
- *Timeouts.* `mCurTimeout` is whether a timeout is scheduled; it may expire at any
  moment (but see `Timely` below).
- *Clock recovery.* The startup filter is a sequence of points, cleared by a
  position reset. The verdicts of the estimator (the round trip is too long, no
  good data for too long, the error is above the panic threshold) are chosen by
  the environment, for they depend on measured time.
- *Priority* keeps its width: seven configured bits and the eighth, set by
  `effectivePriority` unless the device is to defer to its peers.
- *IDs.* Device IDs are numbers, as MAC addresses are. `assignTimelineID` draws a
  random 64-bit number; the model draws the next natural number, so two devices
  never draw the same one.
- *The sync group* is the same everywhere; packets of other groups are dropped
  before they reach a handler. So are a device's own multicast packets.
- A handler returns whether it could send; only logging depends on it.

### 2.2 CommonTimeServer and CommonTimeline

A device per ID, and a queue of packets per pair of devices. An action takes a
packet off a queue, or expires a timeout, applies the handler, and puts what was
sent on the queues of the receivers. Everything else is a *disturbance*, of
which a behaviour has at most `MaxFault`: a packet is lost or duplicated; the
interface is bound, fails to bind, or is left; `forceNetworklessMasterMode` or
`setMasterElectionPriority` is called; the process restarts; a response is late,
or panics. A full queue overflows (`MaxQueue`), as a socket buffer does, and that
is not counted.

`Reorder` lets packets of one link overtake each other. `Timely` makes every
packet faster than every timeout (by default 500 ms and more; round trips
on a LAN a few ms), and the properties about agreement are checked with it.

`CommonTimeline` is the abstract specification: a device follows at most one
timeline. It moves to another one only if that one was created, and then has no
time until it has learnt it; only the creator of a timeline knows its time at
once; time survives elections and networkless spells. It knows no masters,
packets or timeouts. `ImplementsCommonTimeline` is the refinement: the timelines
created are those already drawn, `timeline` is `mTimelineID`, and `valid` is
`mCommonClock.isValid()`.

### 2.3 WorkThread

The loop of `runStateMachine_l` for one device. `EnterPoll` computes the timeout
and the descriptors, releases `mLock` and blocks; `PollWoken`, `PollPacket`,
`PollTimeout` and `PollSlew` are the ways poll returns; then one of the passes
of the loop is made with `mLock` held. An API call is one step, possible while
the work thread does not hold `mLock`. `mBindIfaceDirty` starts with any value,
because the constructor does not initialise it. The rest of the network is an
environment that sends any packet a peer could. `shutdownThread` is three steps
(`requestExit`, the wake-up under `mLock`, the join), since the thread can run in
between. Calls that change only a number that no branch of the loop looks at are
left out; the two intervals are there, for they can schedule a timeout and wake
the thread.

### 2.4 CommonClockService

Each binder thread has a program counter through `registerListener`,
`unregisterListener` or `binderDied`; a critical section in which no other lock
is taken is one step. `AddListener` is under `mRegistrationLock` only, as in the
code: while the work thread is calling back it may or may not come across the new
listener. `linkToDeath` fails for a process already reported dead. The work
thread takes `mLock`, then (sometimes) `mCallbackLock`, and calls the listeners one
by one.

### 2.5 RenderThread

`sched` is what `mLock` protects and the looper's state; `rt` the render thread's
own state; `cxt` the contexts; `ui` the UI threads. One pass through `threadLoop`
is `PollReturns`, any number of `NextTask` with the steps of the task, then
`AfterTasks`. A frame has up to three steps (sync, draw, signal) because the UI
thread may run between them.

- `mRunAt` is one of Now, Delayed and LLONG_MAX: tasks are posted with time 0, and
  only the dispatch has a delay. `Tick` is the moment its time comes.
- A synchronous post is one step with the wait, because the UI thread holds the
  mutex that the signalling task needs. Conditions wake up only when signalled
  (see section 6).
- A vsync in the pipe may become stale when `TimeLord` has moved on to a later
  frame; a stale one only ends the request.
- `Prepared` is what `prepareTree` may find in a tree. Animations and the demand
  for a redraw by the UI thread are independent, as `AnimatorManager.cpp:90-95`
  makes them.
- `updateSurface` is called only after `initialize`, the contract of the Java
  caller (`ThreadedRenderer`, not in this repository). `stopDrawing` stands for
  `pauseSurface` and `buildLayer` as well. Failures of EGL abort the process.
- `MaxCalls` bounds the calls, except those that are possible only once or again
  only after `destroy`.

### 2.6 PathCache

The render thread carries out one call at a time; what is left of the call is the
sequence `todo`, whose head it runs next, so it blocks where the code waits for a
future. A worker is a record: its tasks, the batch it has taken, its signal, and
where its thread is. A path has a size (of its texture) and a generation, which
`ModifyPath` raises; a texture remembers its generation, whether it holds a task,
and whether its memory is gone. The workers' bitmaps, the shapes other than
paths, and the time at which garbage is collected (any time the render thread is
between calls) are abstracted.

### 2.7 DeferredDisplayList

`renderer` is an OpenGLRenderer that carries out every operation at once (what
`drawDeferDisabled` does); `list` is the DeferredDisplayList that gets the same
operations; `PaintsInOrder` flushes it in every state, with the renderer's own
operators, and compares the pictures. So the renderer (save stack, clips, layers)
is modelled once and used by both.

The frame is a row of pixels, a rectangle is an interval of it after the matrix,
and a pixel remembers the draws that painted it, in order, since something opaque
did: two pictures are equal only if every pixel saw the same draws in the same
order. A clip that is no interval is complex. The kinds of draws are those that
differ in batch, in bounds, in merging, in opacity or in shadow; all bitmaps, all
patches and all text of one kind have the same paint, so they may merge. A save
has a clip of its own or shares that of the one below (`own`). Left out: alpha,
matrices, filters (each only makes merging rarer), round rectangle clips, layers
that do not clip, and the debug flag that switches reordering off.

### 2.8 SpriteController

`sprite` is what `mLock` guards, `updates` what `doUpdateSprites` works on, and
`screen` the surfaces as the composer has them, next to what a sprite records of
its own. The message has three steps: `Collect` under the lock, `WorkOnSurfaces`
without it, `WriteBack` under it again. `Refused` chooses the calls to the composer
that fail, of which a behaviour has at most `MaxFaults`. An icon is a size, with a
hot spot; position, layer and matrix are members of `Attribute`. `setIcon` copies the
bitmap before it asks whether the old icon was valid, so only the hot spots are
compared, and clearing an icon keeps its hot spot.

### 2.9 PointerController

Every call and every message is one step, under `mLock`. Coordinates are counted in
half pixels, so that the half pixel `setDisplayViewport` adds to turn the pointer
about the centre of its pixel is an integer; alpha is in steps, of which a frame of
the animation takes one or more. The looper's two messages may come at any time.
`spotShows` is what each sprite of a spot displays; a sprite that no spot and no pool
has may be created again. The loops of `setSpots` and `doAnimate` are recursive
functions over the fingers and over the spots (`AddOrMoveAll`, `FadeSpots`). A mixture
in `CallBudget` says how many moves, touches and fades a behaviour has. `NoGhostSpots`
says who owns the sprites, and that the next `setSpots` gives every finger of the call a
spot (`FingersGetSpots`). The exception is a call whose fingers, with the others that
still have spots, are more than `MAX_SPOTS`: then the oldest spot is evicted, whosever
it is. The run has such calls.

### 2.10 ResTableConfig, ResourceTable and ResourceBags

`match` and `isBetterThan` are operators over records of twenty-five qualifiers, in
the order of the code: each rule says that one candidate is better, or nothing,
and the first that says something decides. `ScanEntry` is the loop of `getEntry`
that keeps the best so far; the candidates of overlays, one or several, come behind
those of the package. `Focus` says which qualifiers vary in an instance, and how many
candidates there are. `BestConfigWins` does not speak of candidates that
`isBetterThan` fails to order (`Ordered`: two different scripts or variants, or
density 0 beside 160; see H and the observations in section 6), nor does it promise the
device's own configuration against what is as good by the rules (`AsGoodAsOwn`).
Leave out any of these and TLC finds a counterexample. Numbers are unbounded in
the model; the products of `Density` fit into an `int` for densities below 32768.

In `ResourceTable` a package file is a record with its types, entries and values;
`add`, `addOverlay` and `addShared` parse it. `createIdmap` and `lookup` are the
writing and reading of an idmap with its offset and holes; `getEntry` looks up an
entry and `lookupResourceId` translates an ID for one who refers to it. The loops of
`createIdmap`, `parsePackage` and `getEntry` are recursive functions. An overlay goes
to the group with the ID that the idmap names (`IdmapTarget`), which is the one that the
target has in the table of the idmap tool, alone; for a library it is always 2. `WellFormed`
says what aapt makes of package files, which the proofs assume and TLC evaluates for
the files of the run.

`ResourceBags` adds what follows references and has recursive operators for it:
`getResource`, `resolveReference` and `getBagLocked` are operators over the table,
used by the properties and, for bags, by `lockBag`, which fills the cache;
`setParameters` clears it (`clearBagCache`), while a new package leaves it as it is
(`AddKeepingBags`). A bag is the sorted sequence of its attributes.
Types that a package has not are not asked for.

## 3. The runs

| run | instance | states | what it shows |
|---|---|---|---|
| `election_safety` | 2 devices, every kind of disturbance, 4 of them, timeouts race with packets | 447,000 | type and the four invariants of the state machine, refinement of `CommonTimeline` |
| `three_devices` | 3 devices that join and leave (4 times), timely, fair | 195,000 | `SingleMaster`, `Converges` |
| `recovery` | 2 devices, 2 priorities, every disturbance, 4 of them, timely, fair | 175,000 | `ClockFollowsTimeline`, `Converges` |
| `work_thread` | 1 device, 1 peer, all eight API calls, any number of times | 638,000 | no lost wake-up, clean shutdown |
| `work_thread_liveness` | the same with three API calls, fair | 234,000 | configuration takes effect, auto-disable engages, a failed bind is retried, shutdown ends |
| `listeners` | 2 listeners, 2 binder threads, fair | 31,000 | no deadlock, accurate client count, no callback after removal, calls return |
| `render_thread` | 2 contexts, 2 bounded calls; 3 paths, 2 workers; frames of 5 operations; fair | 537,000 | the render thread (five invariants, UI calls return, frame callbacks run), the path cache (`SizeIsAccurate`, `RenderCallsReturn`) and deferred drawing (`PaintsInOrder`) |
| `input_resources` | 2 sprites, 3 fingers, 6 displays; 32 choices of qualifiers; 5 packages; fair | 570,000 | sprites, pointer, configurations and resource tables: nine invariants, `SpritesShown`, `FadesAway` |
| `first_client_not_noticed` | 1 device | violation | section 6, B |
| `task_dropped_by_exit` | 1 path, 1 worker | violation | section 6, F |
| `cached_texture_freed` | 1 path, 1 worker | violation | section 6, G |
| `overlay_type_unmapped` | an application and an overlay | violation | section 6, J |

Why the bounds are enough for what is claimed:

- *Retries* are 1 or 2 instead of 6, 10 and 20, and the startup filter has 1 or 2
  points instead of 4. The code only counts up to them, and 2 is enough for a
  counter to be half way when something else happens. In `election_safety` the
  first timeout of INITIAL or RONIN ends the election, which makes two masters
  at the same time easier to reach; a client still has a retry.
- *Two devices* show every pairwise conflict, for arbitration is pairwise; three
  make it possible that two devices follow different masters, and that the loser
  of an election is the master of a third. Four disturbances are enough for two
  devices to join, one to leave and come back, or for two complete recoveries.
- *MaxTimeline* cuts off behaviours that create more timelines; in `recovery` and
  `three_devices` it is greater than what four disturbances can cause, so that no
  fair behaviour is cut off.
- *MaxQueue* 1 in `election_safety` means that the queue overflows often; 3 in the
  liveness runs, where packets must not be lost without being counted.
- *Two calls* (`MaxCalls`) besides creation, initialisation and deletion suffice
  for a frame and its teardown in either order on one context, or for one call on
  each context; the vsyncs and the frames of the render thread itself are
  unbounded.
- *Paths*: two that fit into the cache one at a time, so that every second one
  trims it, and one that is too large for OpenGL. Two workers, so that one draws
  while another sleeps. Four calls (`MaxPathCalls`) are precache, replace, draw and
  collect, or precaching twice and flushing; the workers run freely. The calls come
  in two mixtures, without and with `flush`, because of F.
- *Frames*: three pixels tell draws apart that overlap, touch or are covered; five
  operations are what it takes to defer two draws around a barrier and to discard
  or merge over it. Six have been tried,
  with no other result. The mixtures are draws of every kind; rectangular clips;
  complex clips; layers. K, L and M (section 6) are left out of them.
- *Sprites*: five changes are a change on each side of every step of
  `doUpdateSprites` and a nested transaction, for two sprites; one refused call at
  any of the calls to the composer. *Pointer*: three fingers on two spots and a pool
  of one, so that a spot must be evicted, pooled, deleted and used again; six
  displays, of which one is empty; moves to the edges and beyond.
- *Configurations*: the rules of `isBetterThan` are tried in order, and what could
  go wrong between two of them does so between neighbours: every pair of
  neighbouring qualifiers with two candidates, three candidates for each rule that
  is no simple comparison, and width against height. Any number of the last
  candidates are those of overlays.
- *Packages*: a framework whose bag is inherited across packages, two libraries of
  which one refers to the other, an application that refers to all and an overlay
  with an offset and a hole; loaded in every order and any subset.

`CHECK_DEADLOCK` is off where the system may stop: a behaviour of
`CommonTimeServer` in which nobody has joined a network, or in which the bounds
are used up; a `WorkThread` that has exited; contexts that are gone, or calls,
changes and packages that are used up in the two composed runs. It is on for
`CommonClockService`, where it matters. That the render thread does not block for
ever in the path cache is `RenderCallsReturn`.

`ClockFollowsTimeline` is checked, and proved, with `Timely`, for it rests on
packets that do not outlast a timeout. `handleSyncResponse` accepts any response
from the address of the current master, and a response carries times, not the
timeline they are of. Without `Timely` a network that reorders packets breaks it
with two devices: a response of the timeline a master had before arrives after the
announcement of the new one. Even links that keep their order do not save it, if
there are three devices: m, master of T1, restarts and becomes master of T2, and d
follows it; a third device brings m back to T1, of which it becomes master again;
its announcement to d is lost, and an old request of d for the time of T1 is
answered while d is a client of T2. The comments promise nothing about this.

`CommonTimeServer`'s safety properties are checked with timeouts at any time.
Agreement (`SingleMaster`, `Converges`) is checked with `Timely`, because
without it the code promises no such thing: a device whose requests are always
slower than its timeouts becomes a master of its own.

## 4. Fairness

- `CommonTimeServer!Fairness`: the kernel hands each packet that arrives to the
  work thread, which polls for ever (weak fairness for every link). A timeout is an
  absolute time, so the timeouts of other devices cannot outrun it for ever, even
  though `Timely` disables it whenever a packet is in flight (strong fairness for
  every device). No disturbance is fair, and there are finitely many.
- `WorkThread!WFairness`: the thread is scheduled; poll with a finite timeout
  returns. A pass is made whenever poll has returned. Strong fairness of
  `SetupSocket`: an interface for which the set-up is tried again and again can
  be bound in the end. Strong fairness of `TakeTimeout`: the thread that returns
  again and again for other reasons finds the timeout expired in the end. Nothing
  is assumed of the callers of the API, except that `shutdownThread`, once called,
  goes on.
- `CommonClockService!LFairness`: a thread that waits for a lock gets it in the end
  (strong fairness of each thread's next step), callbacks return, and every pass of
  the work thread ends in poll. Nobody has to register.
- `MC_Hwui!HwuiFairness`: the render thread is scheduled, a requested vsync comes,
  time passes; in the path cache, the render thread and each worker are scheduled.
  UI threads call whatever they like. All of it is weak fairness.
- `MC_InputResources!NativeFairness`: the looper of the sprites delivers its
  messages, and a transaction that has been opened is closed (as every caller in
  `PointerController` does); the looper of the pointer delivers its two messages.

Fairness is stated per part, so that one part does not have to wait for another.

## 5. The proofs

| theorem | module | states |
|---|---|---|
| `TypeCorrect` | `CommonTimeServer_proofs` | `Spec => []TypeOK` |
| `RoleCorrect` | | `Spec => []RoleIsConsistent` |
| `MastersServe` | | `Spec => []TimeFitsRole`: with it, the assertion of `becomeMaster` never fails |
| `ListenersKnow` | | `Spec => []ListenersKnowTimeline` |
| `StaysAwake` | | `Spec => []NeverSleepsForEver` |
| `Refinement` | | `Spec => ImplementsCommonTimeline`: the network implements `CommonTimeline` |
| `ClockIsTrue` | | `Timely`: `Spec => []ClockFollowsTimeline` |
| `OneMaster` | | `Timely`, no loss, more than one retry: `Spec => []SingleMaster` |
| `NoWakeupLost` | `WorkThread_proofs` | `WSpec => []NoLostWakeup` |
| `ShutdownIsClean` | | `WSpec => []CleanShutdown` |
| `ClientsCounted` | `CommonClockService_proofs` | `LSpec => []HasClientsAccurate` |
| `RemovedStaySilent` | | `LSpec => []NoCallbackAfterRemoval` |
| `NeverSleptOver` | `RenderThread_proofs` | `Spec => []NoTaskSleptOver` |
| `DispatchedOnce` | | `Spec => []DispatchQueuedOnce` |
| `AnimationsGoOn` | | `Spec => []AnimationsKeepGoing` |
| `ContextsAreAlive` | | `Spec => []NoDanglingContext` |
| `FenceHolds` | | `Spec => []DestroyIsFence` |
| `SizesAddUp` | `PathCache_proofs` | `PathSpec => []SizeIsAccurate` |
| `UpdatesAreSent` | `InputControllers_proofs` | `SpriteSpec => []NoLostUpdate` |
| `SurfacesAreOnRecord` | | `SpriteSpec => []SurfacesRecorded` |
| `CleanSpritesAreShown` | | `SpriteSpec => []CleanIsShown` |
| `PointerStays` | | `PointerSpec => []PointerOnScreen` |
| `NoGhosts` | | `PointerSpec => []NoGhostSpots` |
| `BestWins` | `ResourceTable_proofs` | `ConfigSpec => []BestConfigWins` |
| `OverlaysWin` | | `WellFormed(File)`: `TableSpec => []OverlaysByName` |
| `LibrariesAreFound` | | `WellFormed(File)`: `TableSpec => []LibrariesFound` |

They hold for any finite set of devices (or any listeners and binder threads, UI
threads, paths of any sizes and workers, sprites, fingers), any retries, priorities,
queue bounds and faults, with and without reordering, any number of calls, displays
of any size and moves of any distance, any number of candidates with any numbers in
all of their qualifiers, package files with any types, entries and values. Paths and workers are finitely many. The assumptions are those
of the modules: device IDs are positive numbers, configured priorities have seven bits (`setMasterElectionPriority` rejects
others), the retry limits and the size of the filter are positive, `NoOne` is no
listener and no thread, a display is turned by a multiple of 90 degrees, and there are
sprites for `MAX_SPOTS` spots (`createSprite` never runs out of them). Fixed
in the modules themselves are the three sizes of an icon and the two steps of an
alpha. `Timely`, which `ClockIsTrue`
and `OneMaster` assume, is a constant of the model and holds in the runs `recovery` and
`three_devices`. TLC checks every one of these properties too, except `LibrariesFound`:
the runs check `ReferencesReachTheirPackage` instead, which rests on it and follows the
references to their end.

`TimeServerHandlers_proofs` has one lemma per handler and transition. The other
modules build on it as the modules they are about do on `TimeServerHandlers`.

*The network.* `IInv` says of every device that it is `DeviceOK` (typed, and
`Role`, `Time` and `CanServe`, which are the invariants for one device) and
`Awake`, and of every packet in flight that it is `SentOK`: of its sender's making,
and, if it comes from a master, of a real timeline. The last part is what the
invariants lack to be inductive: a device becomes a client of whatever timeline a
response or announcement names, and if that were kInvalidTimelineID it would be a
CLIENT without timeline. A packet may be arbitrarily old, so nothing is said about
its sender's present state. The lemmas of the handlers show that from a `DeviceOK`
device and a `SentOK` packet they give a `DeviceOK` and `Awake` device and a
`SentOK` packet (`ResultOK`). `Awake` is not assumed there, since the work thread
clears the timeout before it calls `handleTimeout`, so each handler must schedule
the next one. `WithoutOK`, `ConsumeOK` and `TransmitOK` show that taking packets
off the queues, in any order, and adding packets keeps the queues good.
`StepPreserves` has one step per action.

*The refinement.* A step may let a device follow a timeline only if that timeline
has been created, so the abstract step needs `TimelinesExist`: every timeline that a
device follows or a packet names is below `nextTimeline`. `Promised` says what one
handler's result may be, seen from `CommonTimeline`: what it heard of, what it
drew, and whether it has time. One lemma per handler shows that its result is
`Promised`, and `PromisedImplements` that such a result is an abstract step or a
stutter.

*The work thread.* `WInv` says of the device what `DeviceOK` says, and ties the state
of the thread to it: a thread that blocks with an empty eventfd has nothing left to
do (`Waiting`), which needs what is true at the top of the loop (`Settled`), that
the socket belongs to the interface (`SocketOnInterface`), that a thread that has
exited has no socket, and that the caller of `shutdownThread` gets past the join
only after the exit. The environment sends any packet of the model, so every
`SentOK` packet is covered.

*The listeners.* `HasClientsAccurate` speaks of moments when nobody holds
`mRegistrationLock`. `LInv` says for every place a thread can be at which locks it
has, and what it knows of the list there: who has added or removed an entry and not
yet reported it (`ReportPending`), and that a callback in progress is to somebody in
the list (`CallbacksInList`).

*The true time.* What `ClockFollowsTimeline` lacks to be inductive is an account of
the packets in flight. `ClockInv` says of a packet that only masters send, while its
sender serves (is a master on the network), that it names the timeline which its
sender serves; of an answer, that its times are of the timeline it names and that
a client of its sender which gets it is on that timeline; and of a request that is
going to be served, that the client which sent it is still on the timeline it asks
about. All the packets of a master on one link speak of one timeline (`OneVoice`).
When a device begins to serve another timeline, at a timeout, these hold because a
timely network is empty then; when a master is outdone by another it stops
speaking. Each handler has two lemmas: what it makes of a device whose clock is
true, and what it sends. The order of a link plays no part, nor do loss and
duplication.

*One master.* `SingleMaster` says nothing of a device that is about to serve. Such a
device is `Asking`: it looks for a master and has asked for one at a timeout, when a
timely network was empty. `MasterInv` says that while another device serves, the one
that asks may `Hope`: its request is still on the way to the master, or a packet of the
master is on the way to it; and that all the master sends it is news of itself
(`Clean`), since it has not asked for the time. Each handler is shown to be `Modest`:
whoever handles a packet does not begin to serve or to ask, a master answers a request
for one, and news puts an end to asking. A timeout finds the network empty, so no
device that asks can hope; hence nobody serves, and the device whose turn it is
(`TakesTurn`) may begin to. The theorem assumes `Timely`, that "lose" is not among the
faults, and `Patient`: both numbers of retries are more than 1, as they are in the code
(6 and 20, `common_time_server.cpp:74` and `:90`). Each is needed, TLC finds two masters
without it: with one retry, when a request has been dropped by a full queue. All other
disturbances, a queue of one packet and any order of delivery are allowed.

*The render thread.* `RInv` has four parts. The queue is sorted, with the one delayed
task last (`SortedQueue`), and `mFrameCallbackTaskPending` tells whether that task is
there or about to start (`PendingOK`). A thread about to sleep that is not going to
be woken has the `mNextWakeup` that the queue calls for (`SleepOK`): this relates a
value computed under the lock to a queue that other threads have changed since. The
requested vsync is outstanding as long as somebody waits for it (`VsyncOK`). And for
every context: its surface, canvas and window agree; a call that the UI thread waits
for is behind everything else it has posted (`LastCall`), so that the call which
destroys the context is a fence; what is still queued is possible in the state the
context is going to have (`AliveOK`); callbacks are registered only for contexts with a
surface. `destroyContext` keeps all this only because of the fence, and the fence
holds only because a UI thread that waits posts nothing.

*The path cache.* What is missing from `SizeIsAccurate` is what the render thread is in
the middle of: `removeTexture` waits for a task before it takes the size of its texture
off `mSize`, and a new texture comes in only after an old one is gone. `CInv` adds the
types and `Plan`, which says of what is left in `todo`: what is to be removed is in the
cache; the texture that is to be uploaded is there too and still waits for its task,
with nothing else to do before; a path that is to be put into the cache is not in it or
is removed first; and once old textures are dropped to make room, nothing is removed by
its path any more. `PlanTail` and `PlanShrinks` show how a step uses the plan up. A texture
counts nothing until it is uploaded, so a worker may end its task at any moment. The sum
is a recursive function; `TotalExists` shows that there is one such function, and
`TotalAppended` and `TotalRemoved` how it changes with the list.

*The sprites.* `doUpdateSprites` works on copies without the lock, so there are three
things to relate: the state of a sprite, the copy, and the surface. `Follows` says
that a surface has what a state says except what is dirty; `Newer`, that the state
differs from the copy only in what has become dirty since it was copied. Outside of an
update the surface `Follows` the state, during an update it `Follows` the copy and
the state is `Newer`; writing back makes the first out of the two others. A sprite
for which the composer has refused a call is `unlucky` and is exempt, but not from
`SurfacesRecorded`. `HotSpots` says that the hot spot of a valid icon is its own, which
`setIcon` keeps although it compares the new one only with what was left of the last. `NoLostUpdate` needs that whatever is dirty is listed, that the list
has a message or a transaction that sends one, and that a surface on the list of
disposals has no sprite any more.

*The pointer.* `PInv` is `PointerOnScreen` with types. The step that is not obvious is a
turn of the display: `TurnRange` shows that a point on the display, moved by half a
pixel to the centre of its pixel, turned back to the natural orientation, turned
again and moved back, is on the turned display, for each of the sixteen turns.

*The spots.* `GInv` says that the list of spots, the pool and what the sprites show are
`Good` between two calls; within a call sprites may belong to spots that are out of the
list, or not yet seen again, the set `R` of `Apart`. `Released` moves a sprite from `R` to the
pool; in `createAndAddSpotLocked` a new spot has an icon only after `updateSprite`
(`Iconless`), and that is why `clearIcon` in `releaseSpotLocked` is needed: a spot
compares a new icon with its own `lastIcon`, not with that of its sprite. The loops are
recursive functions, for which nothing but their equation is known once a function
that satisfies it has been shown to exist; both that and their invariant are
inductions on numbers (`AllNaturals`, from the well-foundedness of <). In `doAnimate`
the invariant is `Fade`: the spots kept so far, and those ahead. That every finger gets
a spot is an invariant of the loop of `setSpots` (`Live`, `HasRoom`): the fingers that have
a spot and those that still come are no more than `MAX_SPOTS`, so when the list is full
and a finger without spot comes, a spot is fading (`RoomLeft`), and `MakeRoom` takes that
one (`RoomMade`).

*The configurations.* A scan that keeps the best so far and never looks back is right
if "better" is transitive, and `isBetterThan` is a chain of twenty-three rules, some of
which read several numbers. `Chains` is what makes such a chain transitive: if a rule
does not prefer the second to the first nor the third to the second, then it prefers
the first to the third, unless it is indifferent in both cases, and then it is
indifferent. (It is not enough that every rule is transitive: the indifference of
a rule has to be.) One lemma per kind of rule shows it, `SaysChains` for every qualifier of
configurations that match: `Named` needs that a value which matches is 0 or the device's
own, `KeysHidden` that there are two such values for a soft keyboard. For densities
l <= w < h the rule compares (2l - w)h with w*w, and `UpIsBetterMonotone` makes it an
order. `BetterTransitive` follows at the first qualifier that decides one of the two
comparisons. `OwnSays` shows that the device's own configuration is behind in no
qualifier, and ahead in one if the other differs; `OwnIsBetter` takes the first such
(the least of a set of numbers, `LeastOf`). `ScanStep` is then one candidate more, with
overlays that replace what they are equal to.

*The overlays.* `TableInv` says that the groups have different IDs, those of the
libraries from the counter (`FreshID`: fewer packages than there are IDs for libraries,
so that the counter never reaches one that is taken), and of every group that it is
`GroupOK`. What matters there is `LayersOK`: the layers of a type have a place each
among the files of the group, in increasing order, a file that has something alike has
a layer, and looking up an entry in a layer finds what has its name in the file at that
place (`LayerOK`). Adding an overlay appends a layer to some types (`LayersGrown`) and
to others none (`LayersKept`); that it goes to the type of the same name, and not to one
before or behind, is where `WellFormed` is needed. For an overlay, `LayerOK` is that
`lookup` reads from an idmap what `createIdmap` has written (`TypeMapIs`): the invariant
of the loop over the entries is that what has been written reads right and what is
behind reads as nothing, with the offset counting what was skipped in the beginning.
`LastWins` is the scan of `getEntry` over the layers. `WellFormed(File)` says what aapt
sees to: types of a package and entries of a type have different names; packages have
different names and fixed IDs; what is overlaid has an ID of its own; and every type of
an overlay has something to overlay. Without the last, `OverlaysByName` is false: that is
J of section 6, and the run `overlay_type_unmapped` shows it. The one before makes
`IdmapTarget` the ID of the group (`IdmapTargetIs`); an overlay of a library that was not
the first one to be loaded goes to another group, and the theorem does not speak of it.

*The libraries.* `RefsInv` says that the table of references of every group `Leads` to
every group whose name it knows, and is that of the group's package if this has one.
A package that comes later is added to all tables (`MappingAdded`), and a table that
comes later is filled from all groups (`GroupsMapped`); an overlay may bring the table
of a group that has none (`LoadsLeads`). It needs that no two libraries were compiled
with the same ID.

*Only model-checked:* all
liveness, which is out of the prover's reach, `FadesAway`, `SpritesShown` and
`Converges` among it; and what is a recursion over data, by operators that no theorem can
be about: `PaintsInOrder`, `ReferencesReachTheirPackage` and `BagsInherit`. Of the
second, the translation of each reference on the way is proved (`LibrariesAreFound`).

## 6. What the code does otherwise than its comments say

Shown by a run that fails as expected:

- **B, `JoinsNetwork`.** The first client of a device that auto-disable keeps off
  the network does not bring it back: `reevaluateAutoDisableState`
  (`common_time_server_api.cpp:265-277`) wakes the work thread only if the device
  has a master. The comment is at `common_time_server.h:236-238`.
- **F, `RenderCallsReturn`.** `WorkerThread::exit` drops the tasks that its thread has
  not taken (`TaskManager.cpp:126-133`), so their futures are never produced.
  `Caches::flush` stops the threads and then clears the path cache, which waits for
  the result of such a task (`PathCache.cpp:213-216`): the render thread blocks for
  ever. The comments are at `PathCache.cpp:211-212` and `Caches.cpp:342`.
- **G, `CachedTexturesAlive`.** A precached path that is larger than the cache is
  marked for cleanup when it is uploaded (`PathCache.cpp:299`), so the caller
  deletes it after drawing, although it is in the cache until `trim`, which deletes
  it once more. The comment at `PathCache.cpp:294-295` says that it is okay.
- **J, `OverlaysByName`.** A type of an overlay that its target has not is put at its
  own index in the target's group (`ResourceTypes.cpp:5770-5778`), where it takes
  the place of resources of another type. The comments are at
  `ResourceTypes.cpp:5498-5499` and `idmap.cpp:21-23`.

Found with the models in the same way (by a property that failed, or a case that had
to be left out of a run), and recorded here only:

- **A.** A Ronin never waits for the end of an election.
  `WhoIsMasterRequestPacket::initHeader` sets the timeline to kInvalidTimelineID
  (`common_time_server_packets.h:87-91`), so `handleWhoIsMasterRequest` never finds
  the request of another Ronin to be of its own timeline. The comment at
  `common_time_server.cpp:796-800` describes the intended yielding. Elections still
  end (`Converges`): two Ronins that both become masters are sorted out by
  announcements. The state WAIT_FOR_ELECTION is never entered.
- **C.** `registerListener` changes the list without the lock that, by
  `common_clock_service.h:64-65`, protects it.
- **D.** A frame that the window cannot take, with an animator that is not yet
  running and needs the UI thread, is neither drawn later nor reported to the UI
  thread. `TreeInfo.h:113` says of the flag responsible that it is set only with
  `hasAnimations`.
- **E.** A vsync drained just before the registration of frame callbacks dispatches
  them, although they are registered late so as to catch the next one
  (`RenderThread.h:124-127`).
- **H.** `ResTable_config::match` does not look at the script and the variant of a
  locale, though the comment at `ResourceTypes.cpp:2354-2357` expects candidates to
  have been matched (compare `2104-2108`): among candidates with other scripts than
  the device's, the one that comes last wins.
- **K.** `hasTextShadow` is overridden in `DrawSomeTextOp` only
  (`DisplayListOp.h:1308`), and `DrawTextOp` derives from `DrawStrokableOp`: text
  with a shadow merges with text that it overlaps, and the shadow of a later text is
  painted before the glyphs of an earlier one. `DeferredDisplayList.cpp:188-189`
  allows overlapping only for text without shadow. Two draws of `shadowedText` show
  it.
- **L.** A save without the clip flag, a `clipPath` and the restore: the restore ends
  the recording of complex clips, although the clip goes on, being shared with the
  save below. Draws deferred afterwards are clipped to its bounds only.
- **M.** A `clipRect` that *replaces* the clip by one beyond that of the enclosing
  save, followed by a `clipPath`: `clipPath` draws its mask under the clip of the
  snapshot below, which is another one when the list is flushed.

Smaller observations:

- `becomeMaster` never clears `mForceLowPriority`, though `common_time_server.h:220-221`
  says it does: a device elected after it joined a network keeps its low priority
  until a client asks it for the time.
- A CLIENT whose new socket cannot be set up stays CLIENT without a network, though
  networkless devices are supposed to be INITIAL or MASTER
  (`common_time_server.cpp:1103-1104` against `315-319`). The assertion of
  `sendSyncRequest` still holds: `handleTimeout` returns at once without a socket
  (`common_time_server.cpp:681-682`).
- Listeners hear that the clock is synced at the first point that reaches the
  recovery loop (`common_time_server.cpp:984`), before the startup filter is full
  and the clock has a basis: `mClockSynced` does not mean that there is a time.
  `becomeInitial` clears `mClockSynced` without telling the listeners.
- A networkless MASTER may have no valid clock (a client of a timeline whose time
  it never learnt that leaves the network). `TimeFitsRole` is for masters on
  a network; on the way back to a network such a device starts over.
- A listener that dies between `mListeners.add` and a failing `linkToDeath` stays in
  the list for ever (`common_clock_service.cpp:107-109`).
- `forceNetworklessMasterMode` clears the timeout that a failed socket set-up has
  scheduled for its retry. `mBindIfaceDirty` is not initialised.
- `handleSyncResponse` returns `result` uninitialised when it drops a response for
  its round trip time; only logging sees it. `becomeClient` sleeps for up to 100 ms
  with `mLock` held, and API calls wait.
- The waits of `RenderProxy` and `DrawFrameTask` test no predicate, so a spurious
  wake-up of the condition would let the UI thread go on with its task, which is
  on its stack, still queued. The models have no spurious wake-ups.
- `TaskQueue::remove` leaves `mNext` of the removed task set. It has no caller.
- The render thread runs every immediate task before the delayed dispatch, even one
  that is overdue: UI threads that never pause starve the animations of others.
- `DrawTextOp::getLocalBounds` leaves the shadow of text out of its bounds;
  `DrawBoundedOp` adds it, but translated by (dx, dx) instead of (dx, dy).
  `issueOperationsOfProjectedChildren` (`RenderNode.cpp:794-854`) restores its save
  only if the projection receiver has an outline. A save in a layer that is ignored
  for being empty draws again; the model draws no layer without area.
- `doUpdateSprites` does not look at `transactionNestingCount`, so a message that was
  sent before a transaction began takes part of its changes. A call that the composer
  has refused is not tried again until the sprite changes. With `MAX_SPOTS` spots and
  none of them fading, that of a finger that is down is evicted for another.
- `isBetterThan` finds densities 0 and 160 each better than the other, or each
  worse, since both count as 160 but are compared as different first: which of
  them wins depends on their order, and so may the touchscreen of the winner, which is
  compared later. `DENSITY_ANY` is better than the exact density.
- Bags are cleared by `setParameters` only: a package added later leaves bags that it
  changes, and a failed bag stays failed. A bag whose parent failed silently
  inherits nothing; bags that are parents of each other depend on which is asked
  for first. The attributes of a bag may be out of order when several libraries
  are in it, because they are sorted by build-time IDs.
- An idmap names its target by the ID that this has in the table of the idmap tool
  (`ResourceTypes.cpp:6175`, read at 5649-5656). That of a library is 2 there, so the
  overlay of a library that has got another ID goes into the group of the library that
  has 2.
- `ResTable::add(ResTable*)` does not copy `mNextPackageId`. A second table of
  references of a package is ignored. `resolveReference` gives back a reference
  whose library is missing untranslated.

## 7. What is not modelled, and why

The map covers about a tenth of the implementation's lines. Most of the rest is
not the kind of code a bounded model says anything about: its correctness is in
pixels, floating-point numbers, file formats or the answers of other processes.

- `hwui`: `OpenGLRenderer` and the draw calls, shaders, tessellation, shadows,
  matrices and regions, fonts and glyph caches, layers, properties and outlines:
  geometry in floating point and calls to OpenGL. The render thread's layer updates,
  functors, trimming and EGL. What the deferred display list needs of the renderer
  (saves, clips, layers) is modelled with it.
- `androidfw`: assets, zip, obb, the streams of backups, the conversion of
  values from and to text, and the chunk format of resource tables: parsing and
  I/O, sequential and without state between calls. Themes are in the plan.
- `input`: bitmaps, the loading of pointer resources, the button state.
- `common_time`: packet (de)serialisation, logging, `dump`, the RTT log, the diag
  thread; the floating-point PID of the clock recovery and the transforms.
- `storage`: marshalling of binder calls. `cmds`: shell front ends that make one call
  to a service outside this repository, and tools that do I/O in one sequence.
  `usb`: tests with real hardware. `uiautomator` drives a device through services
  outside this repository. Media test files are data.

## 8. Plan

What would add most next:

1. `RenderNode::prepareTree` with the staging of properties and display lists, the
   damage of frames (`DamageAccumulator`) and the reference counts of
   `ResourceCache`, composed with `RenderThread`: a display list or bitmap is
   destroyed on the render thread only, and never while a frame uses it.
2. `AnimatorManager` and `BaseRenderNodeAnimator`: staging, start, end and the
   listener that is called once.
3. `ResTable::Theme` on top of `ResourceTable`, the packing of `CacheTexture`, the
   allocation of `CursorWindow`, and the framing of `BackupData`.
4. The slew limiter of the clock recovery loop and `Timeout`, as functions with
   their widths, against reference definitions.
