------------------------- MODULE RenderThread_proofs -------------------------
(***************************************************************************)
(* Proofs about RenderThread for any number of UI threads and calls: the   *)
(* queue stays sorted and has the delayed task once, the render thread     *)
(* never sleeps over a task, and every task and frame callback is about a  *)
(* context that is alive.                                                  *)
(***************************************************************************)
EXTENDS RenderThread, TLAPS, FiniteSetTheorems, SequenceTheorems

-----------------------------------------------------------------------------
(* The inductive invariant: types *)

Sched == [queue : Seq(Task), mNextWakeup : {Now, Delayed, LLONG_MAX},
          wake : BOOLEAN, due : BOOLEAN]
Todo == {<<>>, <<"run">>, <<"signal">>, <<"draw">>, <<"doFrame">>,
         <<"signal", "draw">>, <<"draw", "signal">>}
Rt == [pc : {"poll", "tasks", "run", "after"}, task : Task, todo : Todo,
       canDrawThisFrame : BOOLEAN, redraw : BOOLEAN,
       nextWakeup : {Now, Delayed, LLONG_MAX}, callbacks : SUBSET Context,
       mFrameCallbacks : SUBSET Context,
       mPendingRegistrationFrameCallbacks : SUBSET Context,
       mFrameCallbackTaskPending : BOOLEAN, mVsyncRequested : BOOLEAN,
       vsync : {"none", "asked", "fresh", "stale"}]
Cxt == [alive : BOOLEAN, mNativeWindow : BOOLEAN, mEglSurface : BOOLEAN,
        mCanvas : BOOLEAN]
RTypes ==
  /\ sched \in Sched /\ rt \in Rt
  /\ cxt \in [Context -> Cxt]
  /\ ui \in [Context -> {"none", "running", "waiting", "gone"}]

-----------------------------------------------------------------------------
(* The inductive invariant: the queue and the sleep *)

\* The delayed task is behind all others, and there is one at most.
SortedQueue(q) == \A i \in 1 .. Len(q) - 1 : q[i] # mFrameCallbackTask
HasDispatch(q) == q # <<>> /\ q[Len(q)] = mFrameCallbackTask

\* The steps of a task that may be left to do.
TodoOK(r) ==
  r.pc = "run" =>
    IF r.task = mFrameCallbackTask THEN r.todo \in {<<"run">>, <<"doFrame">>}
    ELSE \/ r.todo = <<"run">>
         \/ r.todo = <<"signal">> /\ r.task.op \in Blocking
         \/ /\ r.todo \in {<<"draw">>, <<"signal", "draw">>, <<"draw", "signal">>}
            /\ r.task.op = "drawFrame"

StartsDispatch(r) ==
  r.pc = "run" /\ r.todo = <<"run">> /\ r.task = mFrameCallbackTask
PendingOK ==
  /\ rt.mFrameCallbackTaskPending <=> (HasDispatch(sched.queue) \/ StartsDispatch(rt))
  /\ StartsDispatch(rt) => ~HasDispatch(sched.queue)

\* A render thread that is not woken goes to sleep with the mNextWakeup that
\* the queue calls for.
SleepOK ==
  rt.pc \in {"after", "poll"} /\ ~sched.wake =>
    /\ sched.mNextWakeup = NextWakeup(sched) /\ sched.mNextWakeup # Now
    /\ rt.nextWakeup = sched.mNextWakeup

VsyncOK ==
  /\ rt.mVsyncRequested <=> rt.vsync # "none"
  /\ rt.pc = "poll" =>
       /\ rt.mPendingRegistrationFrameCallbacks # {} => rt.mFrameCallbackTaskPending
       /\ rt.mFrameCallbacks # {} => rt.mFrameCallbackTaskPending \/ rt.mVsyncRequested

-----------------------------------------------------------------------------
(* The inductive invariant: contexts *)

SurfaceOK(x) ==
  /\ x.mEglSurface = x.mNativeWindow
  /\ x.mEglSurface => x.mCanvas
  /\ x.mCanvas => x.alive

Callbacks(r) == r.callbacks \cup r.mFrameCallbacks \cup r.mPendingRegistrationFrameCallbacks
CallbacksOK ==
  /\ \A c \in Callbacks(rt) : cxt[c].mEglSurface
  /\ rt.callbacks # {} <=> rt.pc = "run" /\ rt.todo = <<"doFrame">>

IsOf(t, c) == t # mFrameCallbackTask /\ t.c = c
Runs(c) == rt.pc = "run" /\ IsOf(rt.task, c)

\* The call that the UI thread of c waits for runs and has not signalled yet.
Serves(c) == Runs(c) /\ rt.task.op \in Blocking /\ rt.todo # <<"draw">>

\* A call that the UI thread waits for is behind all else it has posted.
LastCall(q, c) ==
  \A i, j \in 1 .. Len(q) :
    /\ i # j /\ IsOf(q[i], c) /\ IsOf(q[j], c) /\ q[i].op \in Blocking
    => j < i /\ q[j].op \notin Blocking

\* The UI thread waits for its call to run, or to go on.
Queued(q, c) == {q[i].op : i \in {j \in 1 .. Len(q) : IsOf(q[j], c)}}
WaitsOK(c) ==
  /\ Queued(sched.queue, c) \cap Blocking # {} => ui[c] = "waiting" /\ ~Serves(c)
  /\ Serves(c) => ui[c] = "waiting" /\ Queued(sched.queue, c) = {}
  /\ ui[c] \in {"none", "gone"} =>
       Queued(sched.queue, c) = {} /\ ~Runs(c) /\ ~cxt[c].alive
  /\ ui[c] = "running" => cxt[c].alive

\* Only createContext is called on a context that is not alive, and
\* updateSurface only on one with a canvas.
CallOK(op, x) ==
  /\ (op = "createContext") <=> ~x.alive
  /\ op = "updateSurface" => x.mCanvas
AliveOK(c) ==
  /\ \A op \in Queued(sched.queue, c) : CallOK(op, cxt[c])
  /\ Runs(c) =>
       IF rt.todo = <<"run">> THEN CallOK(rt.task.op, cxt[c])
       ELSE (rt.task.op = "destroyContext") <=> ~cxt[c].alive
  /\ Runs(c) /\ rt.todo \notin {<<"run">>, <<"signal">>} => cxt[c].mEglSurface

ContextOK(c) ==
  SurfaceOK(cxt[c]) /\ LastCall(sched.queue, c) /\ WaitsOK(c) /\ AliveOK(c)

RInv ==
  /\ RTypes /\ SortedQueue(sched.queue) /\ TodoOK(rt)
  /\ PendingOK /\ SleepOK /\ VsyncOK /\ CallbacksOK
  /\ \A c \in Context : ContextOK(c)

-----------------------------------------------------------------------------
(* The task queue *)

\* r is q with t at position p.
Inserted(q, r, t, p) ==
  /\ r \in Seq(Task) /\ Len(r) = Len(q) + 1
  /\ p \in 1 .. Len(q) + 1 /\ r[p] = t
  /\ \A i \in 1 .. p - 1 : r[i] = q[i]
  /\ \A i \in p .. Len(q) : r[i + 1] = q[i]

LEMMA EmptyIsNil ==
  ASSUME NEW S, NEW q \in Seq(S)
  PROVE  Len(q) \in Nat /\ (q = <<>> <=> Len(q) = 0)
BY LenProperties, EmptySeq

LEMMA TaskFacts ==
  ASSUME NEW t \in Task
  PROVE  /\ t # mFrameCallbackTask => t.c \in Context /\ t.op \in Blocking \cup Async
         /\ t # mFrameCallbackTask <=> t.op # "dispatchFrameCallbacks"
         /\ mFrameCallbackTask \in Task
         /\ mRunAt(t) = IF t = mFrameCallbackTask THEN 1 ELSE 0
         /\ Now = 0 /\ Delayed = 1 /\ LLONG_MAX = 2
BY DEF Task, mFrameCallbackTask, mRunAt, Blocking, Async, Now, Delayed, LLONG_MAX

\* queueAtFront puts the task first.
LEMMA FrontInserted ==
  ASSUME NEW q \in Seq(Task), NEW t \in Task
  PROVE  Inserted(q, <<t>> \o q, t, 1)
<1>1. <<t>> \in Seq(Task) /\ Len(<<t>>) = 1 /\ <<t>>[1] = t
  OBVIOUS
<1>2. /\ <<t>> \o q \in Seq(Task) /\ Len(<<t>> \o q) = 1 + Len(q)
      /\ \A i \in 1 .. 1 + Len(q) :
           (<<t>> \o q)[i] = IF i <= 1 THEN <<t>>[i] ELSE q[i - 1]
  BY <1>1, ConcatProperties
<1>3. Len(q) \in Nat
  BY LenProperties
<1> QED BY <1>1, <1>2, <1>3 DEF Inserted

\* InsertTask puts a task for now behind all the others for now, and the
\* delayed task behind all.
LEMMA InsertTaskInserted ==
  ASSUME NEW q \in Seq(Task), NEW t \in Task, SortedQueue(q)
  PROVE  Inserted(q, InsertTask(q, t), t,
                  IF HasDispatch(q) /\ t # mFrameCallbackTask THEN Len(q)
                  ELSE Len(q) + 1)
<1> DEFINE later == {i \in DOMAIN q : mRunAt(q[i]) > mRunAt(t)}
           p == IF later = {} \/ mRunAt(q[Len(q)]) <= mRunAt(t) THEN Len(q) + 1
                ELSE CHOOSE j \in later : \A k \in later : j <= k
<1>1. /\ Len(q) \in Nat /\ DOMAIN q = 1 .. Len(q)
      /\ q # <<>> <=> Len(q) >= 1
  BY LenProperties, EmptySeq
<1>2. \A i \in 1 .. Len(q) : q[i] \in Task
  BY ElementOfSeq
<1>3. p = IF HasDispatch(q) /\ t # mFrameCallbackTask THEN Len(q) ELSE Len(q) + 1
  <2>1. CASE HasDispatch(q) /\ t # mFrameCallbackTask
    <3>1. later = {Len(q)}
      BY <1>1, <1>2, <2>1, TaskFacts DEF HasDispatch, SortedQueue
    <3>2. ~(mRunAt(q[Len(q)]) <= mRunAt(t))
      BY <2>1, TaskFacts DEF HasDispatch
    <3>3. (CHOOSE j \in {Len(q)} : \A k \in {Len(q)} : j <= k) = Len(q)
      BY <1>1
    <3>4. p = CHOOSE j \in later : \A k \in later : j <= k
      BY <3>1, <3>2
    <3> QED BY <2>1, <3>1, <3>3, <3>4
  <2>2. CASE ~(HasDispatch(q) /\ t # mFrameCallbackTask)
    <3>1. later = {}
      BY <1>1, <1>2, <2>2, TaskFacts DEF HasDispatch, SortedQueue
    <3> QED BY <2>2, <3>1
  <2> QED BY <2>1, <2>2
<1>4. p \in 1 .. Len(q) + 1
  BY <1>1, <1>3 DEF HasDispatch
<1>5. InsertTask(q, t) = SubSeq(q, 1, p - 1) \o <<t>> \o SubSeq(q, p, Len(q))
  BY DEF InsertTask
<1> HIDE DEF p, later
<1> DEFINE a == SubSeq(q, 1, p - 1)
           z == SubSeq(q, p, Len(q))
<1>6. /\ a \in Seq(Task) /\ Len(a) = p - 1
      /\ \A i \in 1 .. p - 1 : a[i] = q[i]
  <2>1. \A i \in 1 .. p - 1 : q[i] \in Task
    BY <1>1, <1>2, <1>4
  <2>2. p - 1 \in Int /\ p - 1 - 1 + 1 = p - 1
    BY <1>1, <1>4
  <2>3. /\ a \in Seq(Task) /\ Len(a) = IF 1 <= p - 1 THEN (p - 1) - 1 + 1 ELSE 0
        /\ \A i \in 1 .. (p - 1) - 1 + 1 : a[i] = q[1 + i - 1]
    BY <2>1, <2>2, SubSeqProperties
  <2> QED BY <1>1, <1>4, <2>3
<1>7. /\ z \in Seq(Task) /\ Len(z) = Len(q) - p + 1
      /\ \A i \in 1 .. Len(q) - p + 1 : z[i] = q[p + i - 1]
  <2>1. \A i \in p .. Len(q) : q[i] \in Task
    BY <1>1, <1>2, <1>4
  <2>2. /\ z \in Seq(Task) /\ Len(z) = IF p <= Len(q) THEN Len(q) - p + 1 ELSE 0
        /\ \A i \in 1 .. Len(q) - p + 1 : z[i] = q[p + i - 1]
    BY <1>1, <1>4, <2>1, SubSeqProperties
  <2> QED BY <1>1, <1>4, <2>2
<1> HIDE DEF a, z
<1>8. <<t>> \in Seq(Task) /\ Len(<<t>>) = 1 /\ <<t>>[1] = t
  OBVIOUS
<1>9. /\ a \o <<t>> \in Seq(Task) /\ Len(a \o <<t>>) = p
      /\ \A i \in 1 .. p : (a \o <<t>>)[i] = IF i = p THEN t ELSE q[i]
  <2>1. /\ a \o <<t>> \in Seq(Task) /\ Len(a \o <<t>>) = Len(a) + 1
        /\ \A i \in 1 .. Len(a) + 1 : (a \o <<t>>)[i] =
             IF i <= Len(a) THEN a[i] ELSE <<t>>[i - Len(a)]
    BY <1>6, <1>8, ConcatProperties
  <2> QED BY <1>1, <1>4, <1>6, <1>8, <2>1
<1> DEFINE b == a \o <<t>>
<1>10. b \in Seq(Task) /\ Len(b) = p /\ \A i \in 1 .. p : b[i] = IF i = p THEN t ELSE q[i]
  BY <1>9
<1>11. InsertTask(q, t) = b \o z
  BY <1>5 DEF a, z
<1> HIDE DEF b
<1>12. /\ b \o z \in Seq(Task) /\ Len(b \o z) = Len(b) + Len(z)
       /\ \A i \in 1 .. Len(b) + Len(z) : (b \o z)[i] =
            IF i <= Len(b) THEN b[i] ELSE z[i - Len(b)]
  BY <1>7, <1>10, ConcatProperties
<1>13. Len(b \o z) = Len(q) + 1 /\ (b \o z)[p] = t
  BY <1>1, <1>4, <1>7, <1>10, <1>12
<1>14. \A i \in 1 .. p - 1 : (b \o z)[i] = q[i]
  BY <1>1, <1>4, <1>7, <1>10, <1>12
<1>15. \A i \in p .. Len(q) : (b \o z)[i + 1] = q[i]
  <2> TAKE i \in p .. Len(q)
  <2>1. /\ i + 1 \in 1 .. Len(b) + Len(z) /\ ~(i + 1 <= Len(b))
        /\ i + 1 - Len(b) \in 1 .. Len(q) - p + 1
        /\ p + (i + 1 - Len(b)) - 1 = i
    BY <1>1, <1>4, <1>7, <1>10
  <2> QED BY <1>7, <1>12, <2>1
<1>16. Inserted(q, b \o z, t, p)
  BY <1>4, <1>12, <1>13, <1>14, <1>15 DEF Inserted
<1> QED BY <1>3, <1>11, <1>16

\* Where t may go: the delayed task last, the others before it.
Placed(q, t, p) ==
  IF t = mFrameCallbackTask THEN p = Len(q) + 1 /\ ~HasDispatch(q)
  ELSE HasDispatch(q) => p <= Len(q)

\* The queue stays sorted, with one delayed task at most.
LEMMA InsertedSorted ==
  ASSUME NEW q \in Seq(Task), NEW r \in Seq(Task), NEW t \in Task, NEW p \in Nat,
         Inserted(q, r, t, p), Placed(q, t, p), SortedQueue(q)
  PROVE  /\ SortedQueue(r)
         /\ HasDispatch(r) <=> HasDispatch(q) \/ t = mFrameCallbackTask
<1>1. /\ Len(q) \in Nat /\ (q # <<>> <=> Len(q) >= 1)
      /\ Len(r) \in Nat /\ (r # <<>> <=> Len(r) >= 1)
  BY LenProperties, EmptySeq
<1>2. ASSUME NEW i \in 1 .. Len(r) - 1
      PROVE  r[i] # mFrameCallbackTask
  <2>1. CASE i < p
    <3>1. i \in 1 .. p - 1 /\ i \in 1 .. Len(q)
      BY <1>1, <2>1 DEF Inserted
    <3>2. CASE i = Len(q)
      <4>1. p = Len(q) + 1
        BY <1>1, <2>1, <3>2 DEF Inserted
      <4> QED BY <1>1, <3>1, <3>2, <4>1 DEF Inserted, Placed, HasDispatch
    <3>3. CASE i # Len(q)
      BY <1>1, <3>1, <3>3 DEF Inserted, SortedQueue
    <3> QED BY <3>2, <3>3
  <2>2. CASE i = p
    BY <1>1, <2>2 DEF Inserted, Placed
  <2>3. CASE i > p
    <3>1. i - 1 \in p .. Len(q) /\ i - 1 \in 1 .. Len(q) - 1 /\ (i - 1) + 1 = i
      BY <1>1, <2>3 DEF Inserted
    <3> QED BY <3>1 DEF Inserted, SortedQueue
  <2> QED BY <1>1, <2>1, <2>2, <2>3
<1>3. HasDispatch(r) <=> HasDispatch(q) \/ t = mFrameCallbackTask
  <2>1. CASE p = Len(q) + 1
    BY <1>1, <2>1 DEF Inserted, Placed, HasDispatch
  <2>2. CASE p # Len(q) + 1
    <3>1. Len(q) \in p .. Len(q) /\ Len(q) >= 1 /\ Len(r) = Len(q) + 1
      BY <1>1, <2>2 DEF Inserted
    <3>2. r[Len(r)] = q[Len(q)] /\ t # mFrameCallbackTask
      BY <2>2, <3>1 DEF Inserted, Placed
    <3> QED BY <1>1, <3>1, <3>2 DEF HasDispatch
  <2> QED BY <2>1, <2>2
<1> QED BY <1>2, <1>3 DEF SortedQueue

\* What is posted is queued, and nothing else.
LEMMA InsertedQueued ==
  ASSUME NEW q \in Seq(Task), NEW r \in Seq(Task), NEW t \in Task, NEW p \in Nat,
         Inserted(q, r, t, p), NEW d
  PROVE  Queued(r, d) = Queued(q, d) \cup (IF IsOf(t, d) THEN {t.op} ELSE {})
<1>1. Len(q) \in Nat /\ Len(r) = Len(q) + 1 /\ p \in 1 .. Len(q) + 1
  BY LenProperties DEF Inserted
<1>2. ASSUME NEW i \in 1 .. Len(r), IsOf(r[i], d)
      PROVE  r[i].op \in Queued(q, d) \cup (IF IsOf(t, d) THEN {t.op} ELSE {})
  <2>1. CASE i < p
    BY <1>1, <1>2, <2>1 DEF Inserted, Queued
  <2>2. CASE i = p
    BY <1>2, <2>2 DEF Inserted
  <2>3. CASE i > p
    <3>1. i - 1 \in p .. Len(q) /\ i - 1 \in 1 .. Len(q) /\ (i - 1) + 1 = i
      BY <1>1, <2>3
    <3>2. r[i] = q[i - 1]
      BY <3>1 DEF Inserted
    <3> QED BY <1>2, <3>1, <3>2 DEF Queued
  <2> QED BY <1>1, <2>1, <2>2, <2>3
<1>3. ASSUME NEW i \in 1 .. Len(q), IsOf(q[i], d)
      PROVE  q[i].op \in Queued(r, d)
  <2>1. CASE i < p
    BY <1>1, <1>3, <2>1 DEF Inserted, Queued
  <2>2. CASE i >= p
    <3>1. i \in p .. Len(q) /\ i + 1 \in 1 .. Len(r)
      BY <1>1, <2>2
    <3>2. r[i + 1] = q[i]
      BY <3>1 DEF Inserted
    <3> QED BY <1>3, <3>1, <3>2 DEF Queued
  <2> QED BY <1>1, <2>1, <2>2
<1>4. IsOf(t, d) => t.op \in Queued(r, d)
  BY <1>1 DEF Inserted, Queued
<1> QED BY <1>2, <1>3, <1>4 DEF Queued

\* No call gets behind the one its UI thread waits for.
LEMMA InsertedLastCall ==
  ASSUME NEW q \in Seq(Task), NEW r \in Seq(Task), NEW t \in Task, NEW p \in Nat,
         Inserted(q, r, t, p), NEW d, LastCall(q, d),
         IsOf(t, d) => /\ Queued(q, d) \cap Blocking = {}
                       /\ \/ t.op \notin Blocking
                          \/ \A i \in p .. Len(q) : ~IsOf(q[i], d)
  PROVE  LastCall(r, d)
<1>1. Len(q) \in Nat /\ Len(r) = Len(q) + 1 /\ p \in 1 .. Len(q) + 1
  BY LenProperties DEF Inserted
<1> DEFINE old(i) == IF i < p THEN i ELSE i - 1
<1>2. ASSUME NEW i \in 1 .. Len(r), i # p
      PROVE  old(i) \in 1 .. Len(q) /\ r[i] = q[old(i)]
  <2>1. CASE i < p
    BY <1>1, <2>1 DEF Inserted
  <2>2. CASE i > p
    <3>1. i - 1 \in p .. Len(q) /\ i - 1 \in 1 .. Len(q) /\ (i - 1) + 1 = i
      BY <1>1, <2>2
    <3> QED BY <2>2, <3>1 DEF Inserted
  <2> QED BY <1>1, <1>2, <2>1, <2>2
<1>3. r[p] = t
  BY DEF Inserted
<1>4. ASSUME NEW i \in 1 .. Len(q), IsOf(q[i], d)
      PROVE  q[i].op \in Queued(q, d)
  BY <1>4 DEF Queued
<1>5. SUFFICES ASSUME NEW i \in 1 .. Len(r), NEW j \in 1 .. Len(r), i # j,
                      IsOf(r[i], d), IsOf(r[j], d), r[i].op \in Blocking
               PROVE  j < i /\ r[j].op \notin Blocking
  BY DEF LastCall
<1>6. CASE i # p /\ j # p
  <2>1. old(i) # old(j) /\ (old(j) < old(i) => j < i)
    BY <1>1, <1>5, <1>6
  <2>2. old(j) < old(i) /\ q[old(j)].op \notin Blocking
    BY <1>2, <1>5, <1>6, <2>1 DEF LastCall
  <2> QED BY <1>2, <1>6, <2>1, <2>2
<1>7. CASE i # p /\ j = p
  <2>1. r[i].op \in Queued(q, d) /\ IsOf(t, d)
    BY <1>2, <1>3, <1>4, <1>5, <1>7
  <2> QED BY <1>5, <2>1
<1>8. CASE i = p
  <2>1. IsOf(t, d) /\ t.op \in Blocking
    BY <1>3, <1>5, <1>8
  <2>2. r[j].op \in Queued(q, d) /\ IsOf(q[old(j)], d) /\ old(j) \in 1 .. Len(q)
    BY <1>2, <1>4, <1>5, <1>8
  <2>3. old(j) \notin p .. Len(q)
    BY <2>1, <2>2
  <2> QED BY <1>1, <1>5, <1>8, <2>1, <2>2, <2>3
<1> QED BY <1>6, <1>7, <1>8

\* What queue does with a task of its own place.
LEMMA QueueFacts ==
  \A s \in Sched, t \in Task :
    SortedQueue(s.queue) /\ (t = mFrameCallbackTask => ~HasDispatch(s.queue)) =>
    LET s2 == queue(s, t)
    IN /\ s2 \in Sched /\ SortedQueue(s2.queue)
       /\ HasDispatch(s2.queue) <=> HasDispatch(s.queue) \/ t = mFrameCallbackTask
       /\ \A d : Queued(s2.queue, d)
                   = Queued(s.queue, d) \cup (IF IsOf(t, d) THEN {t.op} ELSE {})
       /\ \A d : LastCall(s.queue, d)
                 /\ (IsOf(t, d) => Queued(s.queue, d) \cap Blocking = {})
                 => LastCall(s2.queue, d)
       /\ s.wake \/ (s.mNextWakeup = NextWakeup(s) /\ s.mNextWakeup # Now) => s2.wake
       /\ ~s2.wake => ~s.wake /\ ~(s.mNextWakeup # Now /\ t # mFrameCallbackTask)
<1> SUFFICES ASSUME NEW s \in Sched, NEW t \in Task, NEW s2, s2 = queue(s, t),
                    SortedQueue(s.queue), t = mFrameCallbackTask => ~HasDispatch(s.queue)
             PROVE  /\ s2 \in Sched /\ SortedQueue(s2.queue)
                    /\ HasDispatch(s2.queue) <=> HasDispatch(s.queue) \/ t = mFrameCallbackTask
                    /\ \A d : Queued(s2.queue, d)
                                = Queued(s.queue, d) \cup (IF IsOf(t, d) THEN {t.op} ELSE {})
                    /\ \A d : LastCall(s.queue, d)
                              /\ (IsOf(t, d) => Queued(s.queue, d) \cap Blocking = {})
                              => LastCall(s2.queue, d)
                    /\ s.wake \/ (s.mNextWakeup = NextWakeup(s) /\ s.mNextWakeup # Now) => s2.wake
                    /\ ~s2.wake => ~s.wake /\ ~(s.mNextWakeup # Now /\ t # mFrameCallbackTask)
  OBVIOUS
<1> DEFINE q == s.queue
           p == IF HasDispatch(q) /\ t # mFrameCallbackTask THEN Len(q) ELSE Len(q) + 1
           r == InsertTask(q, t)
           wakes == s.mNextWakeup # Now /\ mRunAt(t) < s.mNextWakeup
<1>1. q \in Seq(Task) /\ Len(q) \in Nat /\ (q # <<>> <=> Len(q) >= 1)
  BY LenProperties, EmptySeq DEF Sched
<1>2. Inserted(q, r, t, p)
  BY <1>1, InsertTaskInserted
<1>3. p \in Nat /\ r \in Seq(Task)
  BY <1>1, <1>2 DEF Inserted
<1>4. Placed(q, t, p)
  BY <1>1 DEF Placed
<1>5. s2 = [s EXCEPT !.queue = r, !.mNextWakeup = IF wakes THEN Now ELSE @,
                     !.wake = @ \/ wakes]
  BY DEF queue
<1>6. \A i \in p .. Len(q) : ~IsOf(q[i], t.c) \/ t = mFrameCallbackTask
  BY <1>1 DEF HasDispatch, IsOf
<1> HIDE DEF p, r
<1>7. s2 \in Sched /\ s2.queue = r
  BY <1>3, <1>5 DEF Sched
<1>8. SortedQueue(r) /\ (HasDispatch(r) <=> HasDispatch(q) \/ t = mFrameCallbackTask)
  BY <1>1, <1>2, <1>3, <1>4, InsertedSorted
<1>9. \A d : Queued(r, d) = Queued(q, d) \cup (IF IsOf(t, d) THEN {t.op} ELSE {})
  BY <1>1, <1>2, <1>3, InsertedQueued
<1>10. ASSUME NEW d, LastCall(q, d), IsOf(t, d) => Queued(q, d) \cap Blocking = {}
       PROVE  LastCall(r, d)
  <2>1. IsOf(t, d) => \A i \in p .. Len(q) : ~IsOf(q[i], d)
    BY <1>6 DEF IsOf
  <2> QED BY <1>1, <1>2, <1>3, <1>10, <2>1, InsertedLastCall
<1>11. ASSUME s.wake \/ (s.mNextWakeup = NextWakeup(s) /\ s.mNextWakeup # Now)
       PROVE  s2.wake
  <2>1. CASE s.wake
    BY <1>5, <2>1 DEF Sched
  <2>2. CASE s.mNextWakeup = NextWakeup(s) /\ s.mNextWakeup # Now
    <3>1. CASE q = <<>>
      <4>1. wakes
        BY <2>2, <3>1, TaskFacts DEF NextWakeup
      <4> QED BY <1>5, <4>1 DEF Sched
    <3>2. CASE q # <<>>
      <4>1. q[1] \in Task /\ Head(q) = q[1]
        BY <1>1, <3>2, ElementOfSeq, HeadTailProperties
      <4>2. q[1] = mFrameCallbackTask /\ s.mNextWakeup = 1
        BY <2>2, <3>2, <4>1, TaskFacts DEF NextWakeup
      <4>3. Len(q) = 1
        <5>1. Len(q) \in Nat /\ Len(q) # 0
          BY <1>1, <3>2, EmptyIsNil
        <5>2. \A n \in Nat : n # 0 /\ n # 1 => 1 \in 1 .. n - 1
          OBVIOUS
        <5> QED BY <4>2, <5>1, <5>2 DEF SortedQueue
      <4>4. t # mFrameCallbackTask
        BY <3>2, <4>2, <4>3 DEF HasDispatch
      <4>5. wakes
        BY <4>2, <4>4, TaskFacts
      <4> QED BY <1>5, <4>5 DEF Sched
    <3> QED BY <3>1, <3>2
  <2> QED BY <1>11, <2>1, <2>2
<1>12. ASSUME ~s2.wake
       PROVE  ~s.wake /\ ~(s.mNextWakeup # Now /\ t # mFrameCallbackTask)
  <2>1. ~s.wake /\ ~wakes
    BY <1>5, <1>12 DEF Sched
  <2>2. s.mNextWakeup \in {0, 1, 2}
    BY TaskFacts DEF Sched
  <2> QED BY <2>1, <2>2, TaskFacts
<1> QED BY <1>7, <1>8, <1>9, <1>10, <1>11, <1>12

\* What queueAtFront does with the one call that goes first.
LEMMA FrontFacts ==
  \A s \in Sched, t \in Task :
    SortedQueue(s.queue) /\ t # mFrameCallbackTask /\ t.op \notin Blocking =>
    LET s2 == queueAtFront(s, t)
    IN /\ s2 \in Sched /\ SortedQueue(s2.queue) /\ s2.wake
       /\ HasDispatch(s2.queue) <=> HasDispatch(s.queue)
       /\ \A d : Queued(s2.queue, d)
                   = Queued(s.queue, d) \cup (IF IsOf(t, d) THEN {t.op} ELSE {})
       /\ \A d : LastCall(s.queue, d)
                 /\ (IsOf(t, d) => Queued(s.queue, d) \cap Blocking = {})
                 => LastCall(s2.queue, d)
<1> SUFFICES ASSUME NEW s \in Sched, NEW t \in Task, NEW s2, s2 = queueAtFront(s, t),
                    SortedQueue(s.queue), t # mFrameCallbackTask, t.op \notin Blocking
             PROVE  /\ s2 \in Sched /\ SortedQueue(s2.queue) /\ s2.wake
                    /\ HasDispatch(s2.queue) <=> HasDispatch(s.queue)
                    /\ \A d : Queued(s2.queue, d)
                                = Queued(s.queue, d) \cup (IF IsOf(t, d) THEN {t.op} ELSE {})
                    /\ \A d : LastCall(s.queue, d)
                              /\ (IsOf(t, d) => Queued(s.queue, d) \cap Blocking = {})
                              => LastCall(s2.queue, d)
  OBVIOUS
<1> DEFINE q == s.queue
           r == <<t>> \o q
<1>1. q \in Seq(Task) /\ Len(q) \in Nat /\ (q # <<>> <=> Len(q) >= 1)
  BY LenProperties, EmptySeq DEF Sched
<1>2. Inserted(q, r, t, 1) /\ r \in Seq(Task)
  BY <1>1, FrontInserted DEF Inserted
<1>3. Placed(q, t, 1)
  BY <1>1 DEF Placed, HasDispatch
<1>4. s2 \in Sched /\ s2.queue = r /\ s2.wake
  BY <1>2 DEF queueAtFront, Sched
<1> HIDE DEF r
<1>5. SortedQueue(r) /\ (HasDispatch(r) <=> HasDispatch(q))
  BY <1>1, <1>2, <1>3, InsertedSorted
<1>6. \A d : Queued(r, d) = Queued(q, d) \cup (IF IsOf(t, d) THEN {t.op} ELSE {})
  BY <1>1, <1>2, InsertedQueued
<1>7. ASSUME NEW d, LastCall(q, d), IsOf(t, d) => Queued(q, d) \cap Blocking = {}
      PROVE  LastCall(r, d)
  BY <1>1, <1>2, <1>7, InsertedLastCall
<1> QED BY <1>4, <1>5, <1>6, <1>7

\* What is left when the first task is taken: nothing behind the delayed task,
\* and nothing of its context behind a call that a UI thread waits for.
LEMMA TailFacts ==
  \A q \in Seq(Task) : q # <<>> /\ SortedQueue(q) =>
    LET h == Head(q)
        r == Tail(q)
    IN /\ h \in Task /\ r \in Seq(Task) /\ SortedQueue(r)
       /\ h = mFrameCallbackTask => r = <<>>
       /\ HasDispatch(q) <=> HasDispatch(r) \/ h = mFrameCallbackTask
       /\ HasDispatch(r) => h # mFrameCallbackTask
       /\ \A d : Queued(q, d) = Queued(r, d) \cup (IF IsOf(h, d) THEN {h.op} ELSE {})
       /\ \A d : LastCall(q, d) =>
            /\ LastCall(r, d)
            /\ IsOf(h, d) /\ h.op \in Blocking => Queued(r, d) = {}
<1> SUFFICES ASSUME NEW q \in Seq(Task), q # <<>>, SortedQueue(q), NEW h, NEW r,
                    h = Head(q), r = Tail(q)
             PROVE  /\ h \in Task /\ r \in Seq(Task) /\ SortedQueue(r)
                    /\ h = mFrameCallbackTask => r = <<>>
                    /\ HasDispatch(q) <=> HasDispatch(r) \/ h = mFrameCallbackTask
                    /\ HasDispatch(r) => h # mFrameCallbackTask
                    /\ \A d : Queued(q, d)
                                = Queued(r, d) \cup (IF IsOf(h, d) THEN {h.op} ELSE {})
                    /\ \A d : LastCall(q, d) =>
                         /\ LastCall(r, d)
                         /\ IsOf(h, d) /\ h.op \in Blocking => Queued(r, d) = {}
  OBVIOUS
<1>1. /\ Len(q) \in Nat /\ Len(q) >= 1 /\ r \in Seq(Task) /\ Len(r) = Len(q) - 1
      /\ h = q[1] /\ h \in Task
      /\ \A i \in 1 .. Len(q) - 1 : r[i] = q[i + 1]
      /\ r # <<>> <=> Len(r) >= 1
  <2>1. Len(q) \in Nat /\ Len(q) >= 1
    BY LenProperties, EmptySeq
  <2>2. r \in Seq(Task) /\ Len(r) = Len(q) - 1 /\ h \in Task
        /\ \A i \in 1 .. Len(q) - 1 : r[i] = q[i + 1]
    BY HeadTailProperties
  <2>3. h = q[1]
    BY HeadTailProperties
  <2>4. r # <<>> <=> Len(r) >= 1
    BY <2>2, EmptyIsNil
  <2> QED BY <2>1, <2>2, <2>3, <2>4
<1>2. Inserted(r, q, h, 1)
  BY <1>1 DEF Inserted
<1>3. SortedQueue(r)
  BY <1>1 DEF SortedQueue
<1>4. h = mFrameCallbackTask => r = <<>>
  BY <1>1 DEF SortedQueue
<1>5. HasDispatch(q) <=> HasDispatch(r) \/ h = mFrameCallbackTask
  <2>1. CASE Len(q) = 1
    BY <1>1, <2>1 DEF HasDispatch
  <2>2. CASE Len(q) # 1
    <3>1. Len(r) \in 1 .. Len(q) - 1 /\ Len(r) + 1 = Len(q) /\ 1 \in 1 .. Len(q) - 1
      BY <1>1, <2>2
    <3>2. r[Len(r)] = q[Len(q)] /\ h # mFrameCallbackTask
      BY <1>1, <3>1 DEF SortedQueue
    <3> QED BY <1>1, <3>1, <3>2 DEF HasDispatch
  <2> QED BY <2>1, <2>2
<1>6. \A d : Queued(q, d) = Queued(r, d) \cup (IF IsOf(h, d) THEN {h.op} ELSE {})
  BY <1>1, <1>2, InsertedQueued
<1>7. ASSUME NEW d, LastCall(q, d)
      PROVE  /\ LastCall(r, d)
             /\ IsOf(h, d) /\ h.op \in Blocking => Queued(r, d) = {}
  <2>1. \A i \in 1 .. Len(r) : i + 1 \in 1 .. Len(q) /\ i + 1 # 1 /\ r[i] = q[i + 1]
    BY <1>1
  <2>2. LastCall(r, d)
    <3>1. SUFFICES ASSUME NEW i \in 1 .. Len(r), NEW j \in 1 .. Len(r), i # j,
                          IsOf(r[i], d), IsOf(r[j], d), r[i].op \in Blocking
                   PROVE  j < i /\ r[j].op \notin Blocking
      BY DEF LastCall
    <3>2. i \in Int /\ j \in Int
      BY <1>1
    <3>3. j + 1 < i + 1 /\ q[j + 1].op \notin Blocking
      <4>1. i + 1 # j + 1
        BY <3>1, <3>2
      <4> QED BY <1>7, <2>1, <3>1, <4>1 DEF LastCall
    <3> QED BY <2>1, <3>2, <3>3
  <2>3. ASSUME IsOf(h, d), h.op \in Blocking, NEW i \in 1 .. Len(r), IsOf(r[i], d)
        PROVE  FALSE
    <3>1. i + 1 < 1
      BY <1>1, <1>7, <2>1, <2>3 DEF LastCall
    <3> QED BY <1>1, <3>1
  <2> QED BY <2>2, <2>3 DEF Queued
<1>8. HasDispatch(r) => h # mFrameCallbackTask
  BY <1>4 DEF HasDispatch
<1> QED BY <1>1, <1>3, <1>4, <1>5, <1>6, <1>7, <1>8

-----------------------------------------------------------------------------
(* The steps of a task and the frame callbacks *)

LEMMA ShortLists ==
  ASSUME NEW x, NEW y
  PROVE  /\ Head(<<x>>) = x /\ Tail(<<x>>) = <<>>
         /\ Head(<<x, y>>) = x /\ Tail(<<x, y>>) = <<y>>
         /\ <<>> \o <<>> = <<>> /\ <<x>> \o <<>> = <<x>> /\ <<>> \o <<x>> = <<x>>
         /\ <<x>> \o <<y>> = <<x, y>> /\ <<x, y>> \o <<>> = <<x, y>>
<1> DEFINE S == {x, y}
<1>1. <<>> \in Seq(S) /\ <<x>> \in Seq(S) /\ <<y>> \in Seq(S) /\ <<x, y>> \in Seq(S)
  OBVIOUS
<1>2. <<>> \o <<>> = <<>> /\ <<x>> \o <<>> = <<x>> /\ <<>> \o <<x>> = <<x>>
      /\ <<x, y>> \o <<>> = <<x, y>>
  BY <1>1, ConcatEmptySeq
<1>3. Head(<<x>>) = x /\ Head(<<x, y>>) = x
  OBVIOUS
<1>4. Tail(<<x>>) = <<>>
  <2>1. Tail(<<x>>) \in Seq(S) /\ Len(Tail(<<x>>)) = 0
    BY <1>1, HeadTailProperties
  <2> QED BY <2>1, EmptyIsNil
<1>5. Tail(<<x, y>>) = <<y>>
  <2>1. Tail(<<x, y>>) \in Seq(S) /\ Len(Tail(<<x, y>>)) = 1 /\ Tail(<<x, y>>)[1] = y
    BY <1>1, HeadTailProperties
  <2> QED BY <1>1, <2>1, SeqEqual
<1>6. <<x>> \o <<y>> = <<x, y>>
  <2>1. /\ <<x>> \o <<y>> \in Seq(S) /\ Len(<<x>> \o <<y>>) = 2
        /\ (<<x>> \o <<y>>)[1] = x /\ (<<x>> \o <<y>>)[2] = y
    BY <1>1, ConcatProperties
  <2> DEFINE u == <<x>> \o <<y>>
             v == <<x, y>>
  <2>2. u \in Seq(S) /\ v \in Seq(S) /\ Len(u) = Len(v) /\ \A i \in 1 .. Len(u) : u[i] = v[i]
    BY <1>1, <2>1
  <2> HIDE DEF u, v
  <2>3. u = v
    BY <2>2, SeqEqual
  <2> QED BY <2>3 DEF u, v
<1> QED BY <1>2, <1>3, <1>4, <1>5, <1>6

LEMMA StepsLeft ==
  /\ <<>> \o Tail(<<"run">>) = <<>> /\ <<"doFrame">> \o Tail(<<"run">>) = <<"doFrame">>
  /\ <<>> \o Tail(<<"draw">>) = <<>> /\ <<>> \o Tail(<<"draw", "signal">>) = <<"signal">>
  /\ <<>> \o Tail(<<"signal">>) = <<>> /\ <<>> \o Tail(<<"signal", "draw">>) = <<"draw">>
  /\ <<>> \o Tail(<<"doFrame">>) = <<>>
  /\ <<"doFrame">> \o Tail(<<"doFrame">>) = <<"doFrame">>
<1>1. \A x : /\ <<>> \o Tail(<<x>>) = <<>> /\ <<"doFrame">> \o Tail(<<x>>) = <<"doFrame">>
            /\ \A y : <<>> \o Tail(<<x, y>>) = <<y>>
  BY ShortLists
<1> QED BY <1>1

LEMMA StepListsDiffer ==
  /\ <<"run">> # <<"signal">> /\ <<"run">> # <<"draw">> /\ <<"run">> # <<"doFrame">>
  /\ <<"run">> # <<"signal", "draw">> /\ <<"run">> # <<"draw", "signal">>
  /\ <<"signal">> # <<"draw">> /\ <<"signal">> # <<"doFrame">>
  /\ <<"signal">> # <<"signal", "draw">> /\ <<"signal">> # <<"draw", "signal">>
  /\ <<"draw">> # <<"doFrame">>
  /\ <<"draw">> # <<"signal", "draw">> /\ <<"draw">> # <<"draw", "signal">>
  /\ <<"doFrame">> # <<"signal", "draw">> /\ <<"doFrame">> # <<"draw", "signal">>
  /\ <<"signal", "draw">> # <<"draw", "signal">>
  /\ <<>> # <<"run">> /\ <<>> # <<"signal">> /\ <<>> # <<"draw">> /\ <<>> # <<"doFrame">>
  /\ <<>> # <<"signal", "draw">> /\ <<>> # <<"draw", "signal">>
OBVIOUS

\* What a step leaves alone that only moves on in the task.
SameButStep(r, s) ==
  /\ s.task = r.task /\ s.nextWakeup = r.nextWakeup /\ s.callbacks = r.callbacks
  /\ s.mFrameCallbacks = r.mFrameCallbacks
  /\ s.mPendingRegistrationFrameCallbacks = r.mPendingRegistrationFrameCallbacks
  /\ s.mFrameCallbackTaskPending = r.mFrameCallbackTaskPending
  /\ s.mVsyncRequested = r.mVsyncRequested /\ s.vsync = r.vsync

LEMMA ContinueFacts ==
  ASSUME NEW r \in Rt, NEW next, NEW todo \in Todo, next \o Tail(r.todo) = todo,
         NEW s, s = Continue(r, next)
  PROVE  /\ s \in Rt /\ SameButStep(r, s)
         /\ s.todo = todo /\ s.pc = IF todo = <<>> THEN "tasks" ELSE "run"
<1>1. s = [r EXCEPT !.todo = todo, !.pc = IF todo = <<>> THEN "tasks" ELSE "run",
                    !.canDrawThisFrame = @ /\ todo # <<>>, !.redraw = @ /\ todo # <<>>]
  BY DEF Continue
<1> QED BY <1>1 DEF Rt, SameButStep

LEMMA ContinueWithRest ==
  \A r \in Rt, todo \in Todo : <<>> \o Tail(r.todo) = todo =>
    LET s == Continue(r, <<>>)
    IN /\ s \in Rt /\ SameButStep(r, s)
       /\ s.todo = todo /\ s.pc = IF todo = <<>> THEN "tasks" ELSE "run"
<1> SUFFICES ASSUME NEW r \in Rt, NEW todo \in Todo, <<>> \o Tail(r.todo) = todo,
                    NEW s, s = Continue(r, <<>>)
             PROVE  /\ s \in Rt /\ SameButStep(r, s)
                    /\ s.todo = todo /\ s.pc = IF todo = <<>> THEN "tasks" ELSE "run"
  OBVIOUS
<1>1. s = [r EXCEPT !.todo = todo, !.pc = IF todo = <<>> THEN "tasks" ELSE "run",
                    !.canDrawThisFrame = @ /\ todo # <<>>, !.redraw = @ /\ todo # <<>>]
  BY DEF Continue
<1> QED BY <1>1 DEF Rt, SameButStep

LEMMA ContinueWithNext ==
  \A r \in Rt, todo \in Todo : todo \o Tail(r.todo) = todo =>
    LET s == Continue(r, todo)
    IN /\ s \in Rt /\ SameButStep(r, s)
       /\ s.todo = todo /\ s.pc = IF todo = <<>> THEN "tasks" ELSE "run"
BY ContinueFacts

\* What a step leaves alone that only changes the registered callbacks.
SameButCallbacks(r, s) ==
  /\ s.pc = r.pc /\ s.task = r.task /\ s.todo = r.todo /\ s.nextWakeup = r.nextWakeup
  /\ s.callbacks = r.callbacks
  /\ s.mFrameCallbackTaskPending = r.mFrameCallbackTaskPending
  /\ s.mVsyncRequested <=> r.mVsyncRequested
  /\ s.vsync # "none" <=> r.vsync # "none"
Registrations(r) == r.mFrameCallbacks \cup r.mPendingRegistrationFrameCallbacks

LEMMA RemoveFacts ==
  ASSUME NEW r \in Rt, NEW c \in Context, NEW s, s = removeFrameCallback(r, c)
  PROVE  /\ s \in Rt /\ SameButCallbacks(r, s)
         /\ Registrations(s) = Registrations(r) \ {c}
BY DEF removeFrameCallback, Rt, SameButCallbacks, Registrations

LEMMA PostFacts ==
  ASSUME NEW r \in Rt, NEW c \in Context, NEW s, s = postFrameCallback(r, c)
  PROVE  /\ s \in Rt /\ SameButCallbacks(r, s)
         /\ Registrations(s) = Registrations(r) \cup {c}
BY DEF postFrameCallback, Rt, SameButCallbacks, Registrations

LEMMA PushBackFacts ==
  ASSUME NEW r \in Rt, NEW c \in Context, NEW s, s = pushBackFrameCallback(r, c)
  PROVE  /\ s \in Rt /\ SameButCallbacks(r, s)
         /\ Registrations(s) = Registrations(r)
<1>1. CASE c \in r.mFrameCallbacks
  <2> DEFINE t == removeFrameCallback(r, c)
  <2>1. /\ t \in Rt /\ SameButCallbacks(r, t)
        /\ Registrations(t) = Registrations(r) \ {c}
    BY RemoveFacts
  <2> HIDE DEF t
  <2>2. s = postFrameCallback(t, c)
    BY <1>1 DEF pushBackFrameCallback, t
  <2>3. /\ s \in Rt /\ SameButCallbacks(t, s)
        /\ Registrations(s) = Registrations(t) \cup {c}
    BY <2>1, <2>2, PostFacts
  <2>4. c \in Registrations(r)
    BY <1>1 DEF Registrations
  <2>5. SameButCallbacks(r, s)
    BY <2>1, <2>3 DEF SameButCallbacks
  <2> QED BY <2>1, <2>3, <2>4, <2>5
<1>2. CASE c \notin r.mFrameCallbacks
  BY <1>2 DEF pushBackFrameCallback, SameButCallbacks
<1> QED BY <1>1, <1>2

\* prepareTree registers no context without a window.
LEMMA PrepareFacts ==
  ASSUME NEW r \in Rt, NEW c \in Context, NEW x \in Cxt, NEW out \in Prepared(x),
         NEW s, s = prepareTree(r, c, x, out)
  PROVE  /\ s \in Rt /\ SameButCallbacks(r, s)
         /\ Registrations(s) \subseteq
              (Registrations(r) \ {c}) \cup (IF x.mNativeWindow THEN {c} ELSE {})
         /\ out.canDraw \in BOOLEAN /\ out.hasAnimations \in BOOLEAN
         /\ out.requiresUiRedraw \in BOOLEAN /\ (out.canDraw => x.mNativeWindow)
<1> DEFINE t == removeFrameCallback(r, c)
<1>1. /\ t \in Rt /\ SameButCallbacks(r, t)
      /\ Registrations(t) = Registrations(r) \ {c}
  BY RemoveFacts
<1>2. s = t \/ (x.mNativeWindow /\ s = postFrameCallback(t, c))
  BY DEF prepareTree
<1> HIDE DEF t
<1>3. /\ out.canDraw \in BOOLEAN /\ out.hasAnimations \in BOOLEAN
      /\ out.requiresUiRedraw \in BOOLEAN /\ (out.canDraw => x.mNativeWindow)
  BY DEF Prepared, Cxt
<1>4. CASE s = t
  BY <1>1, <1>3, <1>4
<1>5. CASE x.mNativeWindow /\ s = postFrameCallback(t, c)
  <2>1. /\ s \in Rt /\ SameButCallbacks(t, s)
        /\ Registrations(s) = Registrations(t) \cup {c}
    BY <1>1, <1>5, PostFacts
  <2>2. SameButCallbacks(r, s)
    BY <1>1, <2>1 DEF SameButCallbacks
  <2> QED BY <1>1, <1>3, <1>5, <2>1, <2>2
<1> QED BY <1>2, <1>4, <1>5

LEMMA SurfacedFacts ==
  ASSUME NEW r \in Rt, NEW c \in Context, NEW window \in BOOLEAN,
         NEW s, s = Surfaced(r, c, window)
  PROVE  /\ s \in Rt /\ SameButCallbacks(r, s)
         /\ Registrations(s) = IF window THEN Registrations(r) ELSE Registrations(r) \ {c}
<1>1. CASE window
  BY <1>1 DEF Surfaced, SameButCallbacks
<1>2. CASE ~window
  BY <1>2, RemoveFacts DEF Surfaced
<1> QED BY <1>1, <1>2

LEMMA AdvanceFacts ==
  ASSUME NEW r \in Rt, NEW s \in Advance(r)
  PROVE  s \in Rt /\ SameButCallbacks(r, s) /\ Registrations(s) = Registrations(r)
BY DEF Advance, Rt, SameButCallbacks, Registrations

LEMMA SameTrans ==
  ASSUME NEW r, NEW s, NEW t, SameButCallbacks(r, s), SameButCallbacks(s, t)
  PROVE  SameButCallbacks(r, t)
BY DEF SameButCallbacks

-----------------------------------------------------------------------------
(* The tasks *)

\* What a step of a task keeps of a context that it is not about.
LEMMA ContextKept ==
  ASSUME NEW c \in Context, ContextOK(c), sched'.queue = sched.queue,
         ~Runs(c), ~Runs(c)', SurfaceOK(cxt'[c]), ui'[c] = ui[c],
         cxt'[c].alive = cxt[c].alive, cxt'[c].mCanvas = cxt[c].mCanvas
  PROVE  ContextOK(c)'
<1>1. LastCall(sched.queue, c)'
  BY DEF ContextOK, LastCall, IsOf
<1>2. Queued(sched.queue, c)' = Queued(sched.queue, c)
  BY DEF Queued, IsOf
<1>3. ~Serves(c) /\ ~Serves(c)'
  BY DEF Serves
<1>4. WaitsOK(c)'
  BY <1>2, <1>3 DEF ContextOK, WaitsOK
<1>5. AliveOK(c)'
  BY <1>2 DEF ContextOK, AliveOK, CallOK
<1>6. SurfaceOK(cxt[c])'
  OBVIOUS
<1> QED BY <1>1, <1>4, <1>5, <1>6 DEF ContextOK

\* A step of a task about a context disturbs at most that context.
LEMMA TaskStep ==
  ASSUME RInv, rt.pc = "run", rt.task # mFrameCallbackTask, sched' = sched,
         NEW c \in Context, c = rt.task.c,
         rt.todo # <<"doFrame">>, rt' \in Rt, SameButCallbacks([rt EXCEPT !.pc = rt'.pc, !.todo = rt'.todo], rt'),
         rt'.pc = IF rt'.todo = <<>> THEN "tasks" ELSE "run",
         TodoOK(rt'), cxt' \in [Context -> Cxt],
         ui' \in [Context -> {"none", "running", "waiting", "gone"}],
         \A d \in Context \ {c} : cxt'[d] = cxt[d] /\ ui'[d] = ui[d],
         \A d \in Registrations(rt') : cxt'[d].mEglSurface,
         ContextOK(c)'
  PROVE  RInv'
<1>1. /\ rt'.task = rt.task /\ rt'.callbacks = rt.callbacks
      /\ rt'.mFrameCallbackTaskPending = rt.mFrameCallbackTaskPending
      /\ rt'.mVsyncRequested <=> rt.mVsyncRequested
      /\ rt'.vsync # "none" <=> rt.vsync # "none"
      /\ rt'.pc \in {"run", "tasks"}
  BY DEF SameButCallbacks, RInv, RTypes, Rt
<1>2. RTypes'
  BY DEF RInv, RTypes
<1>3. SortedQueue(sched.queue)'
  BY DEF RInv
<1>4. PendingOK'
  <2>1. ~StartsDispatch(rt) /\ ~StartsDispatch(rt')
    BY <1>1 DEF StartsDispatch
  <2> QED BY <1>1, <2>1 DEF RInv, PendingOK
<1>5. SleepOK'
  BY <1>1 DEF SleepOK
<1>6. VsyncOK'
  BY <1>1 DEF RInv, VsyncOK
<1>7. CallbacksOK'
  <2>1. rt'.callbacks = {}
    BY <1>1 DEF RInv, CallbacksOK
  <2>2. ~(rt'.pc = "run" /\ rt'.todo = <<"doFrame">>)
    BY <1>1, StepListsDiffer DEF TodoOK
  <2> QED BY <2>1, <2>2 DEF CallbacksOK, Callbacks, Registrations
<1>8. ASSUME NEW d \in Context
      PROVE  ContextOK(d)'
  <2>1. CASE d = c
    BY <2>1
  <2>2. CASE d # c
    <3>1. ~Runs(d) /\ ~Runs(d)'
      BY <1>1, <2>2 DEF Runs, IsOf
    <3>2. ContextOK(d) /\ SurfaceOK(cxt'[d])
      BY <2>2 DEF RInv, ContextOK
    <3> QED BY <2>2, <3>1, <3>2, ContextKept
  <2> QED BY <2>1, <2>2
<1>9. TodoOK(rt)'
  OBVIOUS
<1> QED BY <1>2, <1>3, <1>4, <1>5, <1>6, <1>7, <1>8, <1>9 DEF RInv

LEMMA MethodStep ==
  ASSUME RInv, rt.pc = "run", rt.task # mFrameCallbackTask, rt.task.op # "drawFrame",
         NEW c \in Context, c = rt.task.c,
         NEW x \in Cxt, NEW r \in Rt, RunMethod(rt.task.op, x, r),
         SameButCallbacks(rt, r), SurfaceOK(x),
         rt.task.op \in Async => x = cxt[c],
         rt.task.op \in Blocking => ((rt.task.op = "destroyContext") <=> ~x.alive),
         Registrations(r) \subseteq Registrations(rt),
         c \in Registrations(r) => x.mEglSurface
  PROVE  RInv'
<1> DEFINE op == rt.task.op
           next == IF op \in Blocking THEN <<"signal">> ELSE <<>>
<1>1. /\ rt.todo \in Todo /\ Head(rt.todo) = "run" /\ sched' = sched /\ ui' = ui
      /\ cxt' = [cxt EXCEPT ![c] = x] /\ rt' = Continue(r, next) /\ op \in Blocking \cup Async
      /\ rt.task \in Task
  BY TaskFacts DEF RunMethod, At, RInv, RTypes, Rt
<1>2. rt.todo = <<"run">>
  BY <1>1, ShortLists DEF RInv, TodoOK
<1>3. r.todo = <<"run">> /\ r.pc = "run"
  BY <1>2 DEF SameButCallbacks
<1>4. next \in Todo /\ next \o Tail(r.todo) = next
  BY <1>3, ShortLists DEF Todo
<1>5. /\ rt' \in Rt /\ SameButStep(r, rt')
      /\ rt'.todo = next /\ rt'.pc = IF next = <<>> THEN "tasks" ELSE "run"
  <2> HIDE DEF next
  <2> QED BY <1>1, <1>4, ContinueFacts
<1>6. /\ rt'.pc = "run" <=> op \in Blocking
      /\ rt'.pc = "run" => rt'.todo = <<"signal">>
  BY <1>5, StepListsDiffer
<1>7. cxt' \in [Context -> Cxt] /\ cxt'[c] = x /\ \A d \in Context \ {c} : cxt'[d] = cxt[d]
  BY <1>1 DEF RInv, RTypes
<1>8. SameButCallbacks([rt EXCEPT !.pc = rt'.pc, !.todo = rt'.todo], rt')
  BY <1>5 DEF SameButCallbacks, SameButStep, RInv, RTypes, Rt
<1>9. TodoOK(rt')
  BY <1>5, <1>6 DEF TodoOK, SameButCallbacks, SameButStep
<1>10. \A d \in Registrations(rt') : cxt'[d].mEglSurface
  <2>1. Registrations(rt') = Registrations(r)
    BY <1>5 DEF SameButStep, Registrations
  <2>2. \A d \in Registrations(rt) : d \in Context /\ cxt[d].mEglSurface
    BY DEF RInv, RTypes, Rt, CallbacksOK, Callbacks, Registrations
  <2> QED BY <1>7, <2>1, <2>2
<1>11. ContextOK(c)'
  <2>1. Runs(c) /\ ContextOK(c)
    BY DEF Runs, IsOf, RInv
  <2>2. /\ LastCall(sched.queue, c)' /\ Queued(sched.queue, c)' = Queued(sched.queue, c)
    BY <1>1, <2>1 DEF ContextOK, LastCall, Queued, IsOf
  <2>3. (Runs(c)' <=> op \in Blocking) /\ rt'.task = rt.task
    BY <1>5, <1>6 DEF Runs, IsOf, SameButStep, SameButCallbacks
  <2>4. CASE op \in Blocking
    <3>1. Serves(c) /\ Serves(c)'
      BY <1>2, <1>6, <2>1, <2>3, <2>4, StepListsDiffer DEF Serves
    <3>2. ui'[c] = "waiting" /\ Queued(sched.queue, c)' = {}
      BY <1>1, <2>1, <2>2, <3>1 DEF ContextOK, WaitsOK
    <3>3. WaitsOK(c)'
      BY <3>2 DEF WaitsOK
    <3>4. AliveOK(c)'
      BY <1>6, <1>7, <2>3, <2>4, <3>2, StepListsDiffer DEF AliveOK
    <3> QED BY <1>7, <2>2, <3>3, <3>4 DEF ContextOK
  <2>5. CASE op \notin Blocking
    <3>1. ~Serves(c) /\ ~Serves(c)' /\ ~Runs(c)'
      BY <2>3, <2>5 DEF Serves
    <3>2. x = cxt[c] /\ cxt'[c] = cxt[c] /\ ui'[c] = ui[c]
      BY <1>1, <1>7, <2>5
    <3>3. WaitsOK(c)'
      BY <2>1, <2>2, <3>1, <3>2 DEF ContextOK, WaitsOK
    <3>4. AliveOK(c)'
      BY <2>1, <2>2, <3>1, <3>2 DEF ContextOK, AliveOK
    <3> QED BY <1>7, <2>2, <3>3, <3>4 DEF ContextOK
  <2> QED BY <2>4, <2>5
<1>12. rt.todo # <<"doFrame">>
  BY <1>2, StepListsDiffer
<1>13. ui' \in [Context -> {"none", "running", "waiting", "gone"}]
  BY <1>1 DEF RInv, RTypes
<1> HIDE DEF next
<1> QED BY <1>1, <1>5, <1>7, <1>8, <1>9, <1>10, <1>11, <1>12, <1>13, TaskStep

\* Where the render thread is when it starts a method task.
LEMMA MethodRuns ==
  ASSUME RInv, At("run"), rt.task # mFrameCallbackTask
  PROVE  /\ rt.task.c \in Context /\ rt.task.op \in Blocking \cup Async
         /\ rt.todo = <<"run">> /\ rt.pc = "run" /\ Runs(rt.task.c)
         /\ CallOK(rt.task.op, cxt[rt.task.c]) /\ cxt[rt.task.c] \in Cxt
         /\ SurfaceOK(cxt[rt.task.c]) /\ ContextOK(rt.task.c)
<1>1. rt.task \in Task /\ rt.pc = "run" /\ Head(rt.todo) = "run"
  BY DEF At, RInv, RTypes, Rt
<1>2. rt.task.c \in Context /\ rt.task.op \in Blocking \cup Async
  BY <1>1, TaskFacts
<1>3. rt.todo = <<"run">>
  BY <1>1, ShortLists DEF RInv, TodoOK
<1>4. ContextOK(rt.task.c) /\ cxt[rt.task.c] \in Cxt
  BY <1>2 DEF RInv, RTypes
<1>5. Runs(rt.task.c)
  BY <1>1 DEF Runs, IsOf
<1> QED BY <1>1, <1>2, <1>3, <1>4, <1>5 DEF ContextOK, AliveOK

LEMMA RunTaskKeepsRInv ==
  ASSUME RInv, RunTask
  PROVE  RInv'
<1> DEFINE c == rt.task.c
           x == cxt[c]
           op == rt.task.op
           stopped == removeFrameCallback(rt, c)
<1>1. /\ At("run") /\ op # "dispatchFrameCallbacks" /\ op # "drawFrame"
      /\ rt.task \in Task /\ rt \in Rt
  BY DEF RunTask, RunMethod, RInv, RTypes, Rt
<1>2. rt.task # mFrameCallbackTask
  BY <1>1, TaskFacts
<1>3. /\ c \in Context /\ op \in Blocking \cup Async /\ rt.pc = "run"
      /\ CallOK(op, x) /\ x \in Cxt /\ SurfaceOK(x)
  BY <1>1, <1>2, MethodRuns
<1>4. SameButCallbacks(rt, rt)
  BY DEF SameButCallbacks
<1>5. /\ stopped \in Rt /\ SameButCallbacks(rt, stopped)
      /\ Registrations(stopped) = Registrations(rt) \ {c}
  BY <1>1, <1>3, RemoveFacts
<1>6. \A d \in Registrations(rt) : cxt[d].mEglSurface
  BY DEF RInv, CallbacksOK, Callbacks, Registrations
<1>7. NoContext \in Cxt /\ SurfaceOK(NoContext) /\ ~NoContext.alive /\ ~NoContext.mEglSurface
  BY DEF NoContext, Cxt, SurfaceOK
<1>8. SetSurface(x, TRUE) = [x EXCEPT !.mNativeWindow = TRUE, !.mEglSurface = TRUE]
      /\ SetSurface(x, FALSE) = [x EXCEPT !.mNativeWindow = FALSE, !.mEglSurface = FALSE]
  BY DEF SetSurface
<1>9. ASSUME op = "createContext", RunMethod("createContext", [NoContext EXCEPT !.alive = TRUE], rt)
      PROVE  RInv'
  <2> DEFINE y == [NoContext EXCEPT !.alive = TRUE]
  <2>1. y \in Cxt /\ SurfaceOK(y) /\ y.alive
    BY DEF NoContext, Cxt, SurfaceOK
  <2>2. c \notin Registrations(rt)
    BY <1>3, <1>6, <1>9 DEF CallOK, SurfaceOK
  <2> HIDE DEF y
  <2>3. RunMethod(op, y, rt)
    BY <1>9 DEF y
  <2>4. op # "destroyContext" /\ op \notin Async
    BY <1>9 DEF Async
  <2> QED BY <1>1, <1>2, <1>3, <1>4, <2>1, <2>2, <2>3, <2>4, MethodStep
<1>10. ASSUME op = "initialize", RunMethod("initialize", [SetSurface(x, TRUE) EXCEPT !.mCanvas = TRUE], rt)
       PROVE  RInv'
  <2> DEFINE y == [SetSurface(x, TRUE) EXCEPT !.mCanvas = TRUE]
  <2>1. y \in Cxt /\ SurfaceOK(y) /\ y.alive /\ y.mEglSurface
    BY <1>3, <1>8, <1>10 DEF CallOK, Cxt, SurfaceOK
  <2> HIDE DEF y
  <2>2. RunMethod(op, y, rt)
    BY <1>10 DEF y
  <2>3. op # "destroyContext" /\ op \notin Async
    BY <1>10 DEF Async
  <2> QED BY <1>1, <1>2, <1>3, <1>4, <2>1, <2>2, <2>3, MethodStep
<1>11. ASSUME op = "updateSurface", RunMethod("updateSurface", SetSurface(x, TRUE), Surfaced(rt, c, TRUE))
       PROVE  RInv'
  <2> DEFINE y == SetSurface(x, TRUE)
  <2>1. y \in Cxt /\ SurfaceOK(y) /\ y.alive /\ y.mEglSurface
    BY <1>3, <1>8, <1>11 DEF CallOK, Cxt, SurfaceOK
  <2> HIDE DEF y
  <2>2. RunMethod(op, y, rt)
    BY <1>11 DEF y, Surfaced
  <2>3. op # "destroyContext" /\ op \notin Async
    BY <1>11 DEF Async
  <2> QED BY <1>1, <1>2, <1>3, <1>4, <2>1, <2>2, <2>3, MethodStep
<1>12. ASSUME op = "loseSurface", RunMethod("loseSurface", SetSurface(x, FALSE), Surfaced(rt, c, FALSE))
       PROVE  RInv'
  <2> DEFINE y == SetSurface(x, FALSE)
  <2>1. y \in Cxt /\ SurfaceOK(y) /\ y.alive
    BY <1>3, <1>8, <1>12 DEF CallOK, Cxt, SurfaceOK
  <2> HIDE DEF y
  <2>2. RunMethod(op, y, stopped)
    BY <1>12 DEF y, Surfaced
  <2>3. op # "destroyContext" /\ op \notin Async
    BY <1>12 DEF Async
  <2> HIDE DEF stopped
  <2> QED BY <1>1, <1>2, <1>3, <1>5, <2>1, <2>2, <2>3, MethodStep
<1>13. ASSUME op = "stopDrawing" \/ op = "destroyHardwareResources", RunMethod(op, x, stopped)
       PROVE  RInv'
  <2>1. x.alive /\ op # "destroyContext"
    BY <1>3, <1>13 DEF CallOK
  <2> HIDE DEF stopped
  <2> QED BY <1>1, <1>2, <1>3, <1>5, <1>13, <2>1, MethodStep
<1>14. ASSUME op = "notifyFramePending", RunMethod("notifyFramePending", x, pushBackFrameCallback(rt, c))
       PROVE  RInv'
  <2> DEFINE r == pushBackFrameCallback(rt, c)
  <2>1. r \in Rt /\ SameButCallbacks(rt, r) /\ Registrations(r) = Registrations(rt)
    BY <1>1, <1>3, PushBackFacts
  <2>2. x.alive /\ op # "destroyContext"
    BY <1>3, <1>14 DEF CallOK
  <2>3. RunMethod(op, x, r)
    BY <1>14
  <2> HIDE DEF r
  <2> QED BY <1>1, <1>2, <1>3, <1>6, <2>1, <2>2, <2>3, MethodStep
<1>15. ASSUME op = "destroy", RunMethod("destroy", Destroyed(x), stopped)
       PROVE  RInv'
  <2> DEFINE y == Destroyed(x)
  <2>1. y \in Cxt /\ SurfaceOK(y) /\ y.alive
    BY <1>3, <1>8, <1>15 DEF CallOK, Cxt, SurfaceOK, Destroyed
  <2> HIDE DEF y
  <2>2. RunMethod(op, y, stopped)
    BY <1>15 DEF y
  <2>3. op # "destroyContext" /\ op \notin Async
    BY <1>15 DEF Async
  <2> HIDE DEF stopped
  <2> QED BY <1>1, <1>2, <1>3, <1>5, <2>1, <2>2, <2>3, MethodStep
<1>16. ASSUME op = "destroyContext", RunMethod("destroyContext", NoContext, stopped)
       PROVE  RInv'
  <2>1. RunMethod(op, NoContext, stopped) /\ op \notin Async
    BY <1>16 DEF Async
  <2> HIDE DEF stopped
  <2> QED BY <1>1, <1>2, <1>3, <1>5, <1>7, <1>16, <2>1, MethodStep
<1>17. CASE RunMethod("createContext", [NoContext EXCEPT !.alive = TRUE], rt)
  BY <1>9, <1>17 DEF RunMethod
<1>18. CASE RunMethod("initialize", [SetSurface(x, TRUE) EXCEPT !.mCanvas = TRUE], rt)
  BY <1>10, <1>18 DEF RunMethod
<1>19. CASE RunMethod("updateSurface", SetSurface(x, TRUE), Surfaced(rt, c, TRUE))
  BY <1>11, <1>19 DEF RunMethod
<1>20. CASE RunMethod("loseSurface", SetSurface(x, FALSE), Surfaced(rt, c, FALSE))
  BY <1>12, <1>20 DEF RunMethod
<1>21. CASE RunMethod("stopDrawing", x, stopped) \/ RunMethod("destroyHardwareResources", x, stopped)
  BY <1>13, <1>21 DEF RunMethod
<1>22. CASE RunMethod("notifyFramePending", x, pushBackFrameCallback(rt, c))
  BY <1>14, <1>22 DEF RunMethod
<1>23. CASE RunMethod("destroy", Destroyed(x), stopped)
  BY <1>15, <1>23 DEF RunMethod
<1>24. CASE RunMethod("destroyContext", NoContext, stopped)
  BY <1>16, <1>24 DEF RunMethod
<1> QED BY <1>17, <1>18, <1>19, <1>20, <1>21, <1>22, <1>23, <1>24 DEF RunTask

\* Nothing in the queue or of its calls changes with a step of a task.
LEMMA QueuedKept ==
  ASSUME NEW c, sched' = sched, LastCall(sched.queue, c)
  PROVE  LastCall(sched.queue, c)' /\ Queued(sched.queue, c)' = Queued(sched.queue, c)
BY DEF LastCall, Queued, IsOf

LEMMA SyncKeepsRInv ==
  ASSUME RInv, SyncFrameState
  PROVE  RInv'
<1>1. /\ At("run") /\ rt.task.op = "drawFrame" /\ rt \in Rt
      /\ sched' = sched /\ cxt' = cxt /\ ui' = ui
  BY DEF SyncFrameState, RInv, RTypes
<1>2. rt \in Rt /\ rt.task \in Task
  BY <1>1 DEF Rt
<1>3. rt.task # mFrameCallbackTask
  BY <1>1, <1>2, TaskFacts
<1> PICK c \in Context : c = rt.task.c
  BY <1>1, <1>3, MethodRuns
<1> PICK x \in Cxt : x = cxt[c]
  BY <1>1, <1>3, MethodRuns
<1>4. /\ c = rt.task.c /\ x = cxt[c] /\ rt.pc = "run" /\ rt.todo = <<"run">> /\ Runs(c)
      /\ CallOK("drawFrame", x) /\ SurfaceOK(x) /\ ContextOK(c)
  BY <1>1, <1>3, MethodRuns
<1>5. PICK out \in Prepared(x), r \in Advance(rt), canUnblock \in BOOLEAN :
        rt' = Continue([prepareTree(r, c, x, out) EXCEPT
                          !.canDrawThisFrame = out.canDraw,
                          !.redraw = out.hasAnimations /\ out.requiresUiRedraw],
                       FrameSteps(out.canDraw, canUnblock))
  BY <1>4 DEF SyncFrameState
<1> DEFINE p == prepareTree(r, c, x, out)
           s == [p EXCEPT !.canDrawThisFrame = out.canDraw,
                          !.redraw = out.hasAnimations /\ out.requiresUiRedraw]
           next == FrameSteps(out.canDraw, canUnblock)
<1>6. r \in Rt /\ SameButCallbacks(rt, r) /\ Registrations(r) = Registrations(rt)
  BY <1>2, AdvanceFacts
<1>7. /\ p \in Rt /\ SameButCallbacks(r, p)
      /\ Registrations(p) \subseteq
           (Registrations(r) \ {c}) \cup (IF x.mNativeWindow THEN {c} ELSE {})
      /\ out.canDraw \in BOOLEAN /\ out.hasAnimations \in BOOLEAN
      /\ out.requiresUiRedraw \in BOOLEAN /\ (out.canDraw => x.mNativeWindow)
  BY <1>4, <1>6, PrepareFacts
<1> HIDE DEF p
<1>8. s \in Rt /\ SameButCallbacks(p, s) /\ Registrations(s) = Registrations(p)
  BY <1>7 DEF Rt, SameButCallbacks, Registrations
<1>9. rt' = Continue(s, next)
  BY <1>5 DEF p
<1> HIDE DEF s
<1>10. SameButCallbacks(rt, s)
  BY <1>6, <1>7, <1>8, SameTrans
<1>11. /\ next = <<"signal">> \/ next = <<"signal", "draw">> \/ next = <<"draw", "signal">>
       /\ next # <<"signal">> => out.canDraw
       /\ next \o <<>> = next
  <2>1. next = IF canUnblock THEN <<"signal">> \o (IF out.canDraw THEN <<"draw">> ELSE <<>>)
               ELSE (IF out.canDraw THEN <<"draw">> ELSE <<>>) \o <<"signal">>
    BY DEF FrameSteps
  <2> HIDE DEF next
  <2>2. CASE out.canDraw
    BY <2>1, <2>2, ShortLists
  <2>3. CASE ~out.canDraw
    BY <2>1, <2>3, ShortLists
  <2> QED BY <2>2, <2>3
<1> HIDE DEF next
<1>12. next \in Todo /\ next # <<>> /\ next # <<"run">> /\ next # <<"draw">> /\ next # <<"doFrame">>
  BY <1>11, StepListsDiffer DEF Todo
<1>13. s.todo = <<"run">> /\ next \o Tail(s.todo) = next
  BY <1>4, <1>10, <1>11, ShortLists DEF SameButCallbacks
<1>14. rt' \in Rt /\ SameButStep(s, rt') /\ rt'.todo = next /\ rt'.pc = "run"
  <2> PICK r2 \in Rt : r2 = s
    BY <1>8
  <2>1. next \in Todo /\ next \o Tail(r2.todo) = next /\ rt' = Continue(r2, next)
    BY <1>9, <1>12, <1>13
  <2>2. /\ rt' \in Rt /\ SameButStep(r2, rt')
        /\ rt'.todo = next /\ rt'.pc = IF next = <<>> THEN "tasks" ELSE "run"
    BY <2>1, ContinueFacts
  <2> QED BY <1>12, <2>2
<1>15. SameButCallbacks([rt EXCEPT !.pc = rt'.pc, !.todo = rt'.todo], rt')
  BY <1>2, <1>10, <1>14 DEF SameButCallbacks, SameButStep, Rt
<1>16. rt'.task = rt.task
  BY <1>10, <1>14 DEF SameButCallbacks, SameButStep
<1>17. TodoOK(rt')
  BY <1>1, <1>3, <1>11, <1>14, <1>16 DEF TodoOK, Blocking
<1>18. \A d \in Registrations(rt') : cxt'[d].mEglSurface
  <2>1. Registrations(rt') = Registrations(p)
    BY <1>8, <1>14 DEF SameButStep, Registrations
  <2>2. \A d \in Registrations(rt) : cxt[d].mEglSurface
    BY DEF RInv, CallbacksOK, Callbacks, Registrations
  <2>3. x.mNativeWindow => x.mEglSurface
    BY <1>4 DEF SurfaceOK
  <2> QED BY <1>1, <1>6, <1>7, <2>1, <2>2, <2>3
<1>19. ContextOK(c)'
  <2>1. LastCall(sched.queue, c)' /\ Queued(sched.queue, c)' = Queued(sched.queue, c)
    BY <1>1, <1>4, QueuedKept DEF ContextOK
  <2>2. Serves(c) /\ Serves(c)' /\ Runs(c)'
    BY <1>1, <1>3, <1>4, <1>12, <1>14, <1>16, StepListsDiffer DEF Serves, Runs, IsOf, Blocking
  <2>3. ui'[c] = "waiting" /\ Queued(sched.queue, c)' = {}
    BY <1>1, <1>4, <2>1, <2>2 DEF ContextOK, WaitsOK
  <2>4. WaitsOK(c)'
    BY <2>3 DEF WaitsOK
  <2>5. x.alive /\ (out.canDraw => x.mEglSurface)
    BY <1>4, <1>7 DEF CallOK, SurfaceOK
  <2>6. AliveOK(c)'
    BY <1>1, <1>11, <1>12, <1>14, <1>16, <2>3, <2>5 DEF AliveOK
  <2>7. SurfaceOK(cxt[c])'
    BY <1>1, <1>4
  <2> QED BY <2>1, <2>4, <2>6, <2>7 DEF ContextOK
<1>20. /\ cxt' \in [Context -> Cxt]
       /\ ui' \in [Context -> {"none", "running", "waiting", "gone"}]
       /\ rt.todo # <<"doFrame">>
  BY <1>1, <1>4, StepListsDiffer DEF RInv, RTypes
<1> QED BY <1>1, <1>3, <1>4, <1>12, <1>14, <1>15, <1>17, <1>18, <1>19, <1>20, TaskStep

\* The steps that may be left before a frame is drawn or a call signalled.
LEMMA DrawSteps ==
  ASSUME RInv, At("draw")
  PROVE  /\ rt.todo = <<"draw">> \/ rt.todo = <<"draw", "signal">>
         /\ rt.task # mFrameCallbackTask /\ rt.task.op = "drawFrame" /\ rt.task.c \in Context
         /\ rt.pc = "run" /\ Runs(rt.task.c) /\ ContextOK(rt.task.c)
<1>1. rt.task \in Task /\ rt.pc = "run" /\ Head(rt.todo) = "draw" /\ TodoOK(rt)
  BY DEF At, RInv, RTypes, Rt
<1>2. rt.task # mFrameCallbackTask /\ rt.task.op = "drawFrame"
      /\ (rt.todo = <<"draw">> \/ rt.todo = <<"draw", "signal">>)
  BY <1>1, ShortLists DEF TodoOK
<1>3. rt.task.c \in Context
  BY <1>1, <1>2, TaskFacts
<1> QED BY <1>1, <1>2, <1>3 DEF RInv, Runs, IsOf

LEMMA SignalSteps ==
  ASSUME RInv, At("signal")
  PROVE  /\ rt.todo = <<"signal">> \/ (rt.todo = <<"signal", "draw">> /\ rt.task.op = "drawFrame")
         /\ rt.task # mFrameCallbackTask /\ rt.task.op \in Blocking /\ rt.task.c \in Context
         /\ rt.pc = "run" /\ Runs(rt.task.c) /\ ContextOK(rt.task.c)
<1>1. rt.task \in Task /\ rt.pc = "run" /\ Head(rt.todo) = "signal" /\ TodoOK(rt)
  BY DEF At, RInv, RTypes, Rt
<1>2. /\ rt.task # mFrameCallbackTask /\ rt.task.op \in Blocking
      /\ rt.todo = <<"signal">> \/ (rt.todo = <<"signal", "draw">> /\ rt.task.op = "drawFrame")
  BY <1>1, ShortLists DEF TodoOK, Blocking
<1>3. rt.task.c \in Context
  BY <1>1, <1>2, TaskFacts
<1> QED BY <1>1, <1>2, <1>3 DEF RInv, Runs, IsOf

LEMMA DrawKeepsRInv ==
  ASSUME RInv, Draw
  PROVE  RInv'
<1>1. /\ At("draw") /\ rt \in Rt /\ sched' = sched /\ ui' = ui /\ cxt \in [Context -> Cxt]
      /\ ui \in [Context -> {"none", "running", "waiting", "gone"}]
  BY DEF Draw, RInv, RTypes
<1> PICK c \in Context : c = rt.task.c
  BY <1>1, DrawSteps
<1>2. /\ c = rt.task.c /\ rt.pc = "run" /\ Runs(c) /\ ContextOK(c)
      /\ rt.task # mFrameCallbackTask /\ rt.task.op = "drawFrame"
      /\ rt.todo = <<"draw">> \/ rt.todo = <<"draw", "signal">>
  BY <1>1, DrawSteps
<1> PICK todo \in Todo : todo = IF rt.todo = <<"draw">> THEN <<>> ELSE <<"signal">>
  BY DEF Todo
<1>3. /\ <<>> \o Tail(rt.todo) = todo
      /\ todo = <<>> \/ todo = <<"signal">>
      /\ todo = <<>> <=> rt.todo = <<"draw">>
  BY <1>2, StepsLeft, StepListsDiffer
<1>4. PICK r \in Rt :
        /\ SameButCallbacks(rt, r) /\ rt' = Continue(r, <<>>)
        /\ \/ r = rt /\ cxt' = cxt
           \/ /\ cxt' = [cxt EXCEPT ![c] = SetSurface(@, FALSE)]
              /\ Registrations(r) = Registrations(rt) \ {c}
  <2>1. CASE rt' = Continue(rt, <<>>) /\ UNCHANGED cxt
    BY <1>1, <2>1 DEF SameButCallbacks
  <2>2. CASE /\ cxt' = [cxt EXCEPT ![c] = SetSurface(@, FALSE)]
             /\ rt' = Continue(Surfaced(rt, c, FALSE), <<>>)
    <3> PICK r : r = Surfaced(rt, c, FALSE)
      OBVIOUS
    <3>1. r \in Rt /\ SameButCallbacks(rt, r) /\ Registrations(r) = Registrations(rt) \ {c}
      BY <1>1, RemoveFacts DEF Surfaced
    <3> QED BY <2>2, <3>1
  <2> QED BY <1>2, <2>1, <2>2 DEF Draw
<1>5. r.todo = rt.todo
  BY <1>4 DEF SameButCallbacks
<1>6. /\ rt' \in Rt /\ SameButStep(r, rt')
      /\ rt'.todo = todo /\ rt'.pc = IF todo = <<>> THEN "tasks" ELSE "run"
  BY <1>3, <1>4, <1>5, ContinueWithRest
<1>7. SameButCallbacks([rt EXCEPT !.pc = rt'.pc, !.todo = rt'.todo], rt')
  BY <1>1, <1>4, <1>6 DEF SameButCallbacks, SameButStep, Rt
<1>8. rt'.task = rt.task
  BY <1>4, <1>6 DEF SameButCallbacks, SameButStep
<1>9. TodoOK(rt')
  BY <1>2, <1>3, <1>6, <1>8 DEF TodoOK, Blocking
<1>10. /\ cxt' \in [Context -> Cxt] /\ \A d \in Context \ {c} : cxt'[d] = cxt[d]
       /\ cxt'[c].alive = cxt[c].alive /\ cxt'[c].mCanvas = cxt[c].mCanvas
       /\ SurfaceOK(cxt'[c])
  <2>1. cxt[c] \in Cxt /\ SurfaceOK(cxt[c])
    BY <1>1, <1>2 DEF ContextOK
  <2>2. CASE cxt' = cxt
    BY <1>1, <2>1, <2>2
  <2>3. CASE cxt' = [cxt EXCEPT ![c] = SetSurface(@, FALSE)]
    <3>1. /\ SetSurface(cxt[c], FALSE) \in Cxt /\ SurfaceOK(SetSurface(cxt[c], FALSE))
          /\ SetSurface(cxt[c], FALSE).alive = cxt[c].alive
          /\ SetSurface(cxt[c], FALSE).mCanvas = cxt[c].mCanvas
      BY <2>1 DEF SetSurface, Cxt, SurfaceOK
    <3>2. cxt'[c] = SetSurface(cxt[c], FALSE)
      BY <1>1, <2>3
    <3> QED BY <1>1, <2>3, <3>1, <3>2
  <2> QED BY <1>4, <2>2, <2>3
<1>11. \A d \in Registrations(rt') : cxt'[d].mEglSurface
  <2>1. Registrations(rt') = Registrations(r)
    BY <1>6 DEF SameButStep, Registrations
  <2>2. \A d \in Registrations(rt) : d \in Context /\ cxt[d].mEglSurface
    BY DEF RInv, RTypes, Rt, CallbacksOK, Callbacks, Registrations
  <2> QED BY <1>4, <1>10, <2>1, <2>2
<1>12. ContextOK(c)'
  <2>1. LastCall(sched.queue, c)' /\ Queued(sched.queue, c)' = Queued(sched.queue, c)
    BY <1>1, <1>2, QueuedKept DEF ContextOK
  <2>2. Serves(c) <=> todo = <<"signal">>
    BY <1>2, <1>3, StepListsDiffer DEF Serves, Blocking
  <2>3. /\ Serves(c)' <=> todo = <<"signal">>
        /\ Runs(c)' <=> todo = <<"signal">>
    BY <1>2, <1>3, <1>6, <1>8, StepListsDiffer DEF Serves, Runs, IsOf, Blocking
  <2>4. WaitsOK(c)'
    BY <1>1, <1>2, <1>10, <2>1, <2>2, <2>3 DEF ContextOK, WaitsOK
  <2>5. AliveOK(c)'
    <3>1. \A q \in Queued(sched.queue, c)' : CallOK(q, cxt'[c])
      BY <1>2, <1>10, <2>1 DEF ContextOK, AliveOK, CallOK
    <3>2. cxt[c].alive
      BY <1>2, StepListsDiffer DEF ContextOK, AliveOK
    <3> QED BY <1>2, <1>3, <1>6, <1>8, <1>10, <2>3, <3>1, <3>2, StepListsDiffer
          DEF AliveOK, CallOK
  <2>6. SurfaceOK(cxt[c])'
    BY <1>10
  <2> QED BY <2>1, <2>4, <2>5, <2>6 DEF ContextOK
<1>13. rt.todo # <<"doFrame">> /\ rt'.pc = IF rt'.todo = <<>> THEN "tasks" ELSE "run"
  BY <1>2, <1>6, StepListsDiffer
<1> QED BY <1>1, <1>2, <1>6, <1>7, <1>9, <1>10, <1>11, <1>12, <1>13, TaskStep

LEMMA SignalKeepsRInv ==
  ASSUME RInv, Signal
  PROVE  RInv'
<1>1. /\ At("signal") /\ rt \in Rt /\ sched' = sched /\ cxt' = cxt /\ cxt \in [Context -> Cxt]
      /\ ui \in [Context -> {"none", "running", "waiting", "gone"}]
      /\ rt' = Continue(rt, <<>>)
  BY DEF Signal, RInv, RTypes
<1> PICK c \in Context : c = rt.task.c
  BY <1>1, SignalSteps
<1>2. /\ c = rt.task.c /\ rt.pc = "run" /\ Runs(c) /\ ContextOK(c)
      /\ rt.task # mFrameCallbackTask /\ rt.task.op \in Blocking
      /\ rt.todo = <<"signal">> \/ (rt.todo = <<"signal", "draw">> /\ rt.task.op = "drawFrame")
  BY <1>1, SignalSteps
<1> PICK todo \in Todo : todo = IF rt.todo = <<"signal">> THEN <<>> ELSE <<"draw">>
  BY DEF Todo
<1>3. /\ <<>> \o Tail(rt.todo) = todo
      /\ todo = <<>> \/ todo = <<"draw">>
      /\ todo = <<>> <=> rt.todo = <<"signal">>
  BY <1>2, StepsLeft, StepListsDiffer
<1>4. /\ rt' \in Rt /\ SameButStep(rt, rt')
      /\ rt'.todo = todo /\ rt'.pc = IF todo = <<>> THEN "tasks" ELSE "run"
  BY <1>1, <1>3, ContinueWithRest
<1>5. SameButCallbacks([rt EXCEPT !.pc = rt'.pc, !.todo = rt'.todo], rt')
  BY <1>1, <1>4 DEF SameButCallbacks, SameButStep, Rt
<1>6. rt'.task = rt.task
  BY <1>4 DEF SameButStep
<1>7. TodoOK(rt')
  BY <1>2, <1>3, <1>4, <1>6 DEF TodoOK
<1>8. \A d \in Registrations(rt') : cxt'[d].mEglSurface
  BY <1>1, <1>4 DEF SameButStep, Registrations, RInv, CallbacksOK, Callbacks
<1>9. /\ ui'[c] = IF rt.task.op = "destroyContext" THEN "gone" ELSE "running"
      /\ ui' \in [Context -> {"none", "running", "waiting", "gone"}]
      /\ \A d \in Context \ {c} : ui'[d] = ui[d]
  BY <1>1, <1>2 DEF Signal
<1>10. ContextOK(c)'
  <2>1. LastCall(sched.queue, c)' /\ Queued(sched.queue, c)' = Queued(sched.queue, c)
    BY <1>1, <1>2, QueuedKept DEF ContextOK
  <2>2. Serves(c)
    BY <1>2, StepListsDiffer DEF Serves
  <2>3. Queued(sched.queue, c)' = {}
    BY <1>2, <2>1, <2>2 DEF ContextOK, WaitsOK
  <2>4. ~Serves(c)' /\ (Runs(c)' => todo = <<"draw">>)
    BY <1>3, <1>4 DEF Serves, Runs
  <2>5. (rt.task.op = "destroyContext") <=> ~cxt[c].alive
    BY <1>2, StepListsDiffer DEF ContextOK, AliveOK
  <2>6. rt.task.op = "destroyContext" => ~Runs(c)'
    BY <1>2, <1>3, <2>4
  <2>7. WaitsOK(c)'
    BY <1>1, <1>9, <2>3, <2>4, <2>5, <2>6 DEF WaitsOK
  <2>8. todo = <<"draw">> => cxt[c].mEglSurface
    BY <1>2, <1>3, StepListsDiffer DEF ContextOK, AliveOK
  <2>9. AliveOK(c)'
    BY <1>1, <1>4, <1>6, <2>3, <2>4, <2>5, <2>8, StepListsDiffer DEF AliveOK
  <2>10. SurfaceOK(cxt[c])'
    BY <1>1, <1>2 DEF ContextOK
  <2> QED BY <2>1, <2>7, <2>9, <2>10 DEF ContextOK
<1>11. rt.todo # <<"doFrame">> /\ rt'.pc = IF rt'.todo = <<>> THEN "tasks" ELSE "run"
  BY <1>2, <1>4, StepListsDiffer
<1>12. cxt' \in [Context -> Cxt] /\ \A d \in Context \ {c} : cxt'[d] = cxt[d]
  BY <1>1
<1> QED BY <1>1, <1>2, <1>4, <1>5, <1>7, <1>8, <1>9, <1>10, <1>11, <1>12, TaskStep

\* The dispatch of the frame callbacks is about no context of its own.
LEMMA DispatchStep ==
  ASSUME RInv, rt.pc = "run", rt.task = mFrameCallbackTask, sched' = sched, ui' = ui,
         rt' \in Rt, rt'.task = rt.task, rt'.todo = <<>> \/ rt'.todo = <<"doFrame">>,
         rt'.pc = IF rt'.todo = <<>> THEN "tasks" ELSE "run",
         rt'.callbacks # {} <=> rt'.todo = <<"doFrame">>,
         rt'.mFrameCallbackTaskPending = (rt.mFrameCallbackTaskPending /\ rt.todo # <<"run">>),
         rt'.mVsyncRequested <=> rt'.vsync # "none",
         cxt' \in [Context -> Cxt],
         \A d \in Context : /\ SurfaceOK(cxt'[d]) /\ cxt'[d].alive = cxt[d].alive
                            /\ cxt'[d].mCanvas = cxt[d].mCanvas,
         \A d \in Callbacks(rt') : cxt'[d].mEglSurface
  PROVE  RInv'
<1>1. RTypes'
  BY DEF RInv, RTypes
<1>2. SortedQueue(sched.queue)' /\ TodoOK(rt)'
  BY StepListsDiffer DEF RInv, TodoOK
<1>3. PendingOK'
  <2>1. ~StartsDispatch(rt')
    BY StepListsDiffer DEF StartsDispatch
  <2>2. StartsDispatch(rt) <=> rt.todo = <<"run">>
    BY DEF StartsDispatch
  <2>3. /\ rt.mFrameCallbackTaskPending <=> (HasDispatch(sched.queue) \/ StartsDispatch(rt))
        /\ StartsDispatch(rt) => ~HasDispatch(sched.queue)
    BY DEF RInv, PendingOK
  <2> QED BY <2>1, <2>2, <2>3 DEF PendingOK
<1>4. SleepOK' /\ VsyncOK'
  BY DEF SleepOK, VsyncOK
<1>5. CallbacksOK'
  BY StepListsDiffer DEF CallbacksOK
<1>6. ASSUME NEW d \in Context
      PROVE  ContextOK(d)'
  <2>1. ~Runs(d) /\ ~Runs(d)'
    BY DEF Runs, IsOf
  <2> QED BY <2>1, ContextKept DEF RInv
<1> QED BY <1>1, <1>2, <1>3, <1>4, <1>5, <1>6 DEF RInv

LEMMA RequestFacts ==
  \A r \in Rt : (r.mVsyncRequested <=> r.vsync # "none") =>
    LET s == requestVsync(r)
    IN /\ s \in Rt /\ s.mVsyncRequested /\ s.vsync # "none"
       /\ s.pc = r.pc /\ s.task = r.task /\ s.todo = r.todo /\ s.nextWakeup = r.nextWakeup
       /\ s.callbacks = r.callbacks /\ s.mFrameCallbacks = r.mFrameCallbacks
       /\ s.mPendingRegistrationFrameCallbacks = r.mPendingRegistrationFrameCallbacks
       /\ s.mFrameCallbackTaskPending = r.mFrameCallbackTaskPending
<1> TAKE r \in Rt
<1>1. CASE r.mVsyncRequested
  BY <1>1 DEF requestVsync
<1>2. CASE ~r.mVsyncRequested
  BY <1>2 DEF requestVsync, Rt
<1> QED BY <1>1, <1>2

LEMMA DispatchKeepsRInv ==
  ASSUME RInv, dispatchFrameCallbacks
  PROVE  RInv'
<1>1. /\ At("run") /\ rt.task = mFrameCallbackTask /\ rt \in Rt /\ cxt \in [Context -> Cxt]
      /\ sched' = sched /\ cxt' = cxt /\ ui' = ui
  BY DEF dispatchFrameCallbacks, RInv, RTypes
<1>2. rt.pc = "run" /\ rt.todo = <<"run">>
  BY <1>1, ShortLists DEF At, RInv, TodoOK
<1> PICK r \in Rt : r = [rt EXCEPT !.mFrameCallbackTaskPending = FALSE,
                                   !.callbacks = rt.mFrameCallbacks, !.mFrameCallbacks = {}]
  BY <1>1 DEF Rt
<1>3. /\ r.task = rt.task /\ r.todo = rt.todo /\ r.callbacks = rt.mFrameCallbacks
      /\ r.mFrameCallbacks = {} /\ r.mFrameCallbackTaskPending = FALSE
      /\ r.mPendingRegistrationFrameCallbacks = rt.mPendingRegistrationFrameCallbacks
      /\ r.mVsyncRequested <=> r.vsync # "none"
  BY <1>1 DEF Rt, RInv, VsyncOK
<1>4. /\ r.callbacks # {} => rt' = Continue(requestVsync(r), <<"doFrame">>)
      /\ r.callbacks = {} => rt' = Continue(r, <<>>)
  BY DEF dispatchFrameCallbacks
<1>5. /\ rt' \in Rt /\ rt'.task = rt.task /\ rt'.callbacks = r.callbacks
      /\ rt'.mFrameCallbacks = {} /\ rt'.mFrameCallbackTaskPending = FALSE
      /\ rt'.mPendingRegistrationFrameCallbacks = rt.mPendingRegistrationFrameCallbacks
      /\ rt'.mVsyncRequested <=> rt'.vsync # "none"
      /\ rt'.todo = IF r.callbacks = {} THEN <<>> ELSE <<"doFrame">>
      /\ rt'.pc = IF rt'.todo = <<>> THEN "tasks" ELSE "run"
  <2>1. CASE r.callbacks = {}
    <3>1. <<>> \in Todo /\ <<>> \o Tail(r.todo) = <<>>
      BY <1>2, <1>3, StepsLeft DEF Todo
    <3>2. /\ rt' \in Rt /\ SameButStep(r, rt')
          /\ rt'.todo = <<>> /\ rt'.pc = IF rt'.todo = <<>> THEN "tasks" ELSE "run"
      BY <1>4, <2>1, <3>1, ContinueWithRest
    <3> QED BY <1>3, <2>1, <3>2 DEF SameButStep
  <2>2. CASE r.callbacks # {}
    <3> PICK s \in Rt : s = requestVsync(r)
      BY <1>3, RequestFacts
    <3>1. /\ s.mVsyncRequested /\ s.vsync # "none"
          /\ s.task = r.task /\ s.todo = r.todo /\ s.callbacks = r.callbacks
          /\ s.mFrameCallbacks = r.mFrameCallbacks
          /\ s.mPendingRegistrationFrameCallbacks = r.mPendingRegistrationFrameCallbacks
          /\ s.mFrameCallbackTaskPending = r.mFrameCallbackTaskPending
      BY <1>3, RequestFacts
    <3> DEFINE todo == <<"doFrame">>
    <3>2. todo \in Todo /\ todo \o Tail(s.todo) = todo /\ rt' = Continue(s, todo)
      BY <1>2, <1>3, <1>4, <2>2, <3>1, StepsLeft DEF Todo
    <3> HIDE DEF todo
    <3>3. /\ rt' \in Rt /\ SameButStep(s, rt')
          /\ rt'.todo = todo /\ rt'.pc = IF todo = <<>> THEN "tasks" ELSE "run"
      BY <3>2, ContinueFacts
    <3> QED BY <1>3, <2>2, <3>1, <3>3 DEF SameButStep, todo
  <2> QED BY <2>1, <2>2
<1>6. \A d \in Callbacks(rt') : d \in Callbacks(rt)
  BY <1>3, <1>5 DEF Callbacks
<1>7. \A d \in Callbacks(rt') : cxt'[d].mEglSurface
  BY <1>1, <1>6 DEF RInv, CallbacksOK
<1>8. \A d \in Context : SurfaceOK(cxt[d])
  BY DEF RInv, ContextOK
<1>9. rt'.callbacks # {} <=> rt'.todo = <<"doFrame">>
  BY <1>5, StepListsDiffer
<1>10. /\ rt'.todo = <<>> \/ rt'.todo = <<"doFrame">>
       /\ rt'.mFrameCallbackTaskPending = (rt.mFrameCallbackTaskPending /\ rt.todo # <<"run">>)
  BY <1>2, <1>5
<1> QED BY <1>1, <1>2, <1>5, <1>7, <1>8, <1>9, <1>10, DispatchStep

LEMMA DoFrameKeepsRInv ==
  ASSUME RInv, doFrame
  PROVE  RInv'
<1>1. /\ At("doFrame") /\ rt \in Rt /\ rt.task \in Task /\ cxt \in [Context -> Cxt]
      /\ rt.callbacks \in SUBSET Context
      /\ sched' = sched /\ ui' = ui
  BY DEF doFrame, RInv, RTypes, Rt
<1>2. rt.pc = "run" /\ rt.todo = <<"doFrame">> /\ rt.task = mFrameCallbackTask
  BY <1>1, ShortLists DEF At, RInv, TodoOK
<1>3. /\ \A d \in Context : SurfaceOK(cxt[d]) /\ cxt[d] \in Cxt
      /\ \A d \in Callbacks(rt) : d \in Context /\ cxt[d].mEglSurface
  BY <1>1 DEF RInv, ContextOK, CallbacksOK, Callbacks, Rt
<1>4. PICK c \in rt.callbacks, r \in Rt :
        LET next == IF rt.callbacks = {c} THEN <<>> ELSE <<"doFrame">>
        IN /\ rt' = Continue([r EXCEPT !.callbacks = @ \ {c}], next)
           /\ SameButCallbacks(rt, r)
           /\ \/ cxt' = cxt /\ Registrations(r) = Registrations(rt)
              \/ \E kept \in BOOLEAN :
                   /\ cxt' = [cxt EXCEPT ![c] = SetSurface(@, kept)] /\ cxt[c].mCanvas
                   /\ Registrations(r) \subseteq Registrations(rt) \cup {c}
                   /\ ~kept => c \notin Registrations(r)
  <2>1. PICK c \in rt.callbacks :
          LET next(r) == Continue([r EXCEPT !.callbacks = @ \ {c}],
                                  IF rt.callbacks = {c} THEN <<>> ELSE <<"doFrame">>)
          IN IF ~cxt[c].mCanvas \/ ~cxt[c].mEglSurface
             THEN rt' = next(rt) /\ UNCHANGED cxt
             ELSE \E out \in Prepared(cxt[c]), r \in Advance(rt), kept \in BOOLEAN :
                    /\ kept \/ out.canDraw
                    /\ cxt' = [cxt EXCEPT ![c] = SetSurface(@, kept)]
                    /\ rt' = next(Surfaced(prepareTree(r, c, cxt[c], out), c, kept))
    BY DEF doFrame
  <2>2. CASE ~cxt[c].mCanvas \/ ~cxt[c].mEglSurface
    BY <1>1, <2>1, <2>2 DEF SameButCallbacks
  <2>3. CASE ~(~cxt[c].mCanvas \/ ~cxt[c].mEglSurface)
    <3>1. PICK out \in Prepared(cxt[c]), r \in Advance(rt), kept \in BOOLEAN :
            /\ cxt' = [cxt EXCEPT ![c] = SetSurface(@, kept)]
            /\ rt' = Continue([Surfaced(prepareTree(r, c, cxt[c], out), c, kept)
                                 EXCEPT !.callbacks = @ \ {c}],
                              IF rt.callbacks = {c} THEN <<>> ELSE <<"doFrame">>)
      BY <2>1, <2>3
    <3>2. c \in Context /\ cxt[c] \in Cxt
      BY <1>1, <1>3
    <3>3. r \in Rt /\ SameButCallbacks(rt, r) /\ Registrations(r) = Registrations(rt)
      BY <1>1, AdvanceFacts
    <3> PICK x \in Cxt : x = cxt[c]
      BY <3>2
    <3> PICK p : p = prepareTree(r, c, x, out)
      OBVIOUS
    <3>4. /\ p \in Rt /\ SameButCallbacks(r, p)
          /\ Registrations(p) \subseteq
               (Registrations(r) \ {c}) \cup (IF x.mNativeWindow THEN {c} ELSE {})
      BY <3>2, <3>3, PrepareFacts
    <3> PICK s : s = Surfaced(p, c, kept)
      OBVIOUS
    <3>5. /\ s \in Rt /\ SameButCallbacks(p, s)
          /\ Registrations(s) = IF kept THEN Registrations(p) ELSE Registrations(p) \ {c}
      <4>1. CASE kept
        BY <3>4, <4>1 DEF Surfaced, SameButCallbacks
      <4>2. CASE ~kept
        BY <3>2, <3>4, <4>2, RemoveFacts DEF Surfaced
      <4> QED BY <4>1, <4>2
    <3>6. SameButCallbacks(rt, s)
      BY <3>3, <3>4, <3>5, SameTrans
    <3>7. rt' = Continue([s EXCEPT !.callbacks = @ \ {c}],
                         IF rt.callbacks = {c} THEN <<>> ELSE <<"doFrame">>)
      BY <3>1
    <3>8. Registrations(s) \subseteq Registrations(rt) \cup {c} /\ (~kept => c \notin Registrations(s))
      BY <3>3, <3>4, <3>5
    <3> QED BY <2>3, <3>1, <3>5, <3>6, <3>7, <3>8
  <2> QED BY <2>2, <2>3
<1>5. c \in Context /\ cxt[c].mEglSurface
  BY <1>3 DEF Callbacks
<1> PICK s \in Rt : s = [r EXCEPT !.callbacks = @ \ {c}]
  BY DEF Rt
<1> PICK next \in Todo : next = IF rt.callbacks = {c} THEN <<>> ELSE <<"doFrame">>
  BY DEF Todo
<1>6. /\ s.task = rt.task /\ s.todo = <<"doFrame">> /\ s.callbacks = rt.callbacks \ {c}
      /\ s.mFrameCallbackTaskPending = rt.mFrameCallbackTaskPending
      /\ s.mVsyncRequested <=> s.vsync # "none"
      /\ Registrations(s) = Registrations(r)
  BY <1>2, <1>4 DEF SameButCallbacks, Rt, Registrations, RInv, VsyncOK
<1>7. /\ rt' = Continue(s, next) /\ next \o Tail(s.todo) = next
      /\ next = <<>> \/ next = <<"doFrame">>
      /\ next = <<"doFrame">> <=> rt.callbacks \ {c} # {}
  BY <1>4, <1>6, StepsLeft, StepListsDiffer
<1>8. /\ rt' \in Rt /\ SameButStep(s, rt')
      /\ rt'.todo = next /\ rt'.pc = IF next = <<>> THEN "tasks" ELSE "run"
  <2>1. CASE next = <<>>
    BY <1>6, <1>7, <2>1, ContinueWithRest
  <2>2. CASE next # <<>>
    BY <1>7, ContinueWithNext
  <2> QED BY <2>1, <2>2
<1>9. /\ rt'.task = rt.task /\ rt'.callbacks = rt.callbacks \ {c}
      /\ rt'.mFrameCallbackTaskPending = rt.mFrameCallbackTaskPending
      /\ rt'.mVsyncRequested <=> rt'.vsync # "none"
      /\ Registrations(rt') = Registrations(r)
  BY <1>6, <1>8 DEF SameButStep, Registrations
<1>10. /\ cxt' \in [Context -> Cxt]
       /\ \A d \in Context : /\ SurfaceOK(cxt'[d]) /\ cxt'[d].alive = cxt[d].alive
                             /\ cxt'[d].mCanvas = cxt[d].mCanvas
       /\ \A d \in Context \ {c} : cxt'[d] = cxt[d]
       /\ c \in Registrations(r) => cxt'[c].mEglSurface
  <2>1. CASE cxt' = cxt
    BY <1>1, <1>3, <1>5, <2>1
  <2>2. ASSUME NEW kept \in BOOLEAN,
               cxt' = [cxt EXCEPT ![c] = SetSurface(@, kept)], cxt[c].mCanvas,
               ~kept => c \notin Registrations(r)
        PROVE  <1>10!:
    <3>1. cxt'[c] = SetSurface(cxt[c], kept) /\ cxt[c] \in Cxt /\ SurfaceOK(cxt[c])
      BY <1>1, <1>3, <1>5, <2>2
    <3>2. /\ SetSurface(cxt[c], kept) \in Cxt /\ SurfaceOK(SetSurface(cxt[c], kept))
          /\ SetSurface(cxt[c], kept).alive = cxt[c].alive
          /\ SetSurface(cxt[c], kept).mCanvas = cxt[c].mCanvas
          /\ SetSurface(cxt[c], kept).mEglSurface = kept
      BY <2>2, <3>1 DEF SetSurface, Cxt, SurfaceOK
    <3> QED BY <1>1, <1>3, <1>5, <2>2, <3>1, <3>2
  <2> QED BY <1>4, <2>1, <2>2
<1>11. \A d \in Callbacks(rt') : cxt'[d].mEglSurface
  <2>1. \A d \in Callbacks(rt') :
          \/ d \in Callbacks(rt) \ {c}
          \/ d = c /\ c \in Registrations(r)
    BY <1>4, <1>9 DEF Callbacks, Registrations
  <2> QED BY <1>3, <1>10, <2>1
<1>12. rt'.callbacks # {} <=> rt'.todo = <<"doFrame">>
  BY <1>7, <1>8, <1>9
<1>13. /\ rt'.todo = <<>> \/ rt'.todo = <<"doFrame">>
       /\ rt'.mFrameCallbackTaskPending = (rt.mFrameCallbackTaskPending /\ rt.todo # <<"run">>)
       /\ rt'.pc = IF rt'.todo = <<>> THEN "tasks" ELSE "run"
  BY <1>1, <1>2, <1>7, <1>8, <1>9, StepListsDiffer DEF Rt
<1> QED BY <1>1, <1>2, <1>8, <1>9, <1>10, <1>11, <1>12, <1>13, DispatchStep

-----------------------------------------------------------------------------
(* The loop of the render thread *)

\* What a step that is not about context c keeps of it.
LEMMA ContextSame ==
  ASSUME NEW c \in Context, ContextOK(c), cxt'[c] = cxt[c], ui'[c] = ui[c],
         Queued(sched.queue, c)' = Queued(sched.queue, c), LastCall(sched.queue, c)',
         Runs(c)' <=> Runs(c),
         Runs(c) => rt'.task = rt.task /\ rt'.todo = rt.todo
  PROVE  ContextOK(c)'
<1>1. LastCall(sched.queue, c)'
  OBVIOUS
<1>2. Queued(sched.queue, c)' = Queued(sched.queue, c)
  OBVIOUS
<1>3. (Serves(c)' <=> Serves(c)) /\ (Runs(c)' <=> Runs(c))
  BY DEF Serves
<1>4. WaitsOK(c)'
  BY <1>2, <1>3 DEF ContextOK, WaitsOK
<1>5. AliveOK(c)'
  BY <1>2, <1>3 DEF ContextOK, AliveOK, CallOK
<1>6. SurfaceOK(cxt[c])'
  BY DEF ContextOK
<1> QED BY <1>1, <1>4, <1>5, <1>6 DEF ContextOK

LEMMA DrainedFacts ==
  \A r \in Rt : (r.mVsyncRequested <=> r.vsync # "none") =>
    LET s == Drained(r)
    IN /\ s \in Rt /\ (s.mVsyncRequested <=> s.vsync # "none")
       /\ s.pc = r.pc /\ s.task = r.task /\ s.todo = r.todo /\ s.nextWakeup = r.nextWakeup
       /\ s.callbacks = r.callbacks /\ s.mFrameCallbacks = r.mFrameCallbacks
       /\ s.mPendingRegistrationFrameCallbacks = r.mPendingRegistrationFrameCallbacks
       /\ s.mFrameCallbackTaskPending <=> r.mFrameCallbackTaskPending \/ r.vsync = "fresh"
<1> TAKE r \in Rt
<1> HAVE r.mVsyncRequested <=> r.vsync # "none"
<1>1. CASE r.vsync \in {"fresh", "stale"}
  <2> PICK b \in BOOLEAN : b = (r.mFrameCallbackTaskPending \/ r.vsync = "fresh")
    BY DEF Rt
  <2>1. Drained(r) = [r EXCEPT !.mVsyncRequested = FALSE, !.vsync = "none",
                               !.mFrameCallbackTaskPending = b]
    BY <1>1 DEF Drained
  <2> QED BY <2>1 DEF Rt
<1>2. CASE r.vsync \notin {"fresh", "stale"}
  BY <1>2 DEF Drained
<1> QED BY <1>1, <1>2

\* What the display events leave in the queue.
LEMMA DrainFacts ==
  \A s \in Sched, r \in Rt :
    SortedQueue(s.queue) /\ (r.mFrameCallbackTaskPending <=> HasDispatch(s.queue)) =>
    LET s2 == drainDisplayEventQueue(s, r)
    IN /\ s2 \in Sched /\ SortedQueue(s2.queue)
       /\ HasDispatch(s2.queue) <=> r.mFrameCallbackTaskPending \/ r.vsync = "fresh"
       /\ \A d : Queued(s2.queue, d) = Queued(s.queue, d)
       /\ \A d : LastCall(s.queue, d) => LastCall(s2.queue, d)
       /\ s2 = s \/ (s.wake \/ (s.mNextWakeup = NextWakeup(s) /\ s.mNextWakeup # Now) => s2.wake)
<1> SUFFICES ASSUME NEW s \in Sched, NEW r \in Rt, NEW s2, s2 = drainDisplayEventQueue(s, r),
                    SortedQueue(s.queue), r.mFrameCallbackTaskPending <=> HasDispatch(s.queue)
             PROVE  /\ s2 \in Sched /\ SortedQueue(s2.queue)
                    /\ HasDispatch(s2.queue) <=> r.mFrameCallbackTaskPending \/ r.vsync = "fresh"
                    /\ \A d : Queued(s2.queue, d) = Queued(s.queue, d)
                    /\ \A d : LastCall(s.queue, d) => LastCall(s2.queue, d)
                    /\ \/ s2 = s
                       \/ s.wake \/ (s.mNextWakeup = NextWakeup(s) /\ s.mNextWakeup # Now) => s2.wake
  OBVIOUS
<1> DEFINE t == mFrameCallbackTask
<1>1. t \in Task /\ \A d : ~IsOf(t, d)
  BY DEF Task, IsOf
<1>2. CASE DispatchesNext(r)
  <2>1. s2 = queue(s, t) /\ ~HasDispatch(s.queue) /\ r.vsync = "fresh"
    BY <1>2 DEF drainDisplayEventQueue, DispatchesNext
  <2>2. /\ s2 \in Sched /\ SortedQueue(s2.queue)
        /\ HasDispatch(s2.queue) <=> HasDispatch(s.queue) \/ t = mFrameCallbackTask
        /\ \A d : Queued(s2.queue, d)
                     = Queued(s.queue, d) \cup (IF IsOf(t, d) THEN {t.op} ELSE {})
        /\ \A d : LastCall(s.queue, d)
                   /\ (IsOf(t, d) => Queued(s.queue, d) \cap Blocking = {})
                   => LastCall(s2.queue, d)
        /\ s.wake \/ (s.mNextWakeup = NextWakeup(s) /\ s.mNextWakeup # Now) => s2.wake
    <3> HIDE DEF t
    <3> QED BY <1>1, <2>1, QueueFacts
  <2> QED BY <1>1, <2>1, <2>2
<1>3. CASE ~DispatchesNext(r)
  <2>1. s2 = s
    BY <1>3 DEF drainDisplayEventQueue
  <2> QED BY <1>3, <2>1 DEF DispatchesNext
<1> QED BY <1>2, <1>3

LEMMA PollKeepsRInv ==
  ASSUME RInv, PollReturns
  PROVE  RInv'
<1>1. /\ rt.pc = "poll" /\ cxt' = cxt /\ ui' = ui /\ rt \in Rt /\ sched \in Sched
      /\ SortedQueue(sched.queue) /\ (rt.mVsyncRequested <=> rt.vsync # "none")
  BY DEF PollReturns, RInv, RTypes, VsyncOK
<1> PICK s \in Sched : s = [sched EXCEPT !.wake = FALSE]
  BY <1>1 DEF Sched
<1>2. sched' = drainDisplayEventQueue(s, rt) /\ s.queue = sched.queue
  BY <1>1 DEF PollReturns, Sched
<1>3. ~StartsDispatch(rt) /\ (rt.mFrameCallbackTaskPending <=> HasDispatch(s.queue))
  BY <1>1, <1>2 DEF StartsDispatch, RInv, PendingOK
<1>4. /\ sched' \in Sched /\ SortedQueue(sched'.queue)
      /\ HasDispatch(sched'.queue) <=> rt.mFrameCallbackTaskPending \/ rt.vsync = "fresh"
      /\ \A d : Queued(sched'.queue, d) = Queued(sched.queue, d)
      /\ \A d : LastCall(sched.queue, d) => LastCall(sched'.queue, d)
  <2>1. SortedQueue(s.queue)
    BY <1>1, <1>2
  <2> QED BY <1>1, <1>2, <1>3, <2>1, DrainFacts
<1>5. /\ rt' \in Rt /\ rt'.pc = "tasks" /\ rt'.task = rt.task
      /\ rt'.callbacks = rt.callbacks /\ rt'.mFrameCallbacks = rt.mFrameCallbacks
      /\ rt'.mPendingRegistrationFrameCallbacks = rt.mPendingRegistrationFrameCallbacks
      /\ rt'.mFrameCallbackTaskPending <=> rt.mFrameCallbackTaskPending \/ rt.vsync = "fresh"
      /\ rt'.mVsyncRequested <=> rt'.vsync # "none"
  <2> PICK d \in Rt : d = Drained(rt)
    BY <1>1, DrainedFacts
  <2>1. /\ d.task = rt.task
        /\ d.callbacks = rt.callbacks /\ d.mFrameCallbacks = rt.mFrameCallbacks
        /\ d.mPendingRegistrationFrameCallbacks = rt.mPendingRegistrationFrameCallbacks
        /\ d.mFrameCallbackTaskPending <=> rt.mFrameCallbackTaskPending \/ rt.vsync = "fresh"
        /\ d.mVsyncRequested <=> d.vsync # "none"
    BY <1>1, DrainedFacts
  <2>2. rt' = [d EXCEPT !.pc = "tasks"]
    BY DEF PollReturns
  <2> QED BY <2>1, <2>2 DEF Rt
<1>6. RTypes'
  BY <1>1, <1>4, <1>5 DEF RInv, RTypes
<1>7. SortedQueue(sched.queue)' /\ TodoOK(rt)'
  BY <1>4, <1>5 DEF SortedQueue, TodoOK
<1>8. PendingOK'
  <2>1. ~StartsDispatch(rt)'
    BY <1>5 DEF StartsDispatch
  <2>2. HasDispatch(sched.queue)' <=> HasDispatch(sched'.queue)
    BY DEF HasDispatch
  <2> QED BY <1>4, <1>5, <2>1, <2>2 DEF PendingOK
<1>9. SleepOK' /\ VsyncOK'
  BY <1>5 DEF SleepOK, VsyncOK
<1>10. CallbacksOK'
  BY <1>1, <1>5 DEF RInv, CallbacksOK, Callbacks
<1>11. ASSUME NEW d \in Context
       PROVE  ContextOK(d)'
  <2>1. ~Runs(d) /\ ~Runs(d)'
    BY <1>1, <1>5 DEF Runs
  <2>2. ContextOK(d)
    BY DEF RInv
  <2>3. Queued(sched.queue, d)' = Queued(sched.queue, d) /\ LastCall(sched.queue, d)'
    <3>1. Queued(sched'.queue, d) = Queued(sched.queue, d) /\ LastCall(sched'.queue, d)
      BY <1>4, <2>2 DEF ContextOK
    <3> QED BY <3>1 DEF Queued, LastCall, IsOf
  <2>4. cxt'[d] = cxt[d] /\ ui'[d] = ui[d]
    BY <1>1
  <2> QED BY <2>1, <2>2, <2>3, <2>4, ContextSame
<1> QED BY <1>6, <1>7, <1>8, <1>9, <1>10, <1>11 DEF RInv

LEMMA QueuePrimes ==
  /\ \A d : Queued(sched.queue, d)' = Queued(sched'.queue, d)
  /\ \A d : LastCall(sched.queue, d)' <=> LastCall(sched'.queue, d)
  /\ HasDispatch(sched.queue)' <=> HasDispatch(sched'.queue)
  /\ SortedQueue(sched.queue)' <=> SortedQueue(sched'.queue)
BY DEF Queued, LastCall, IsOf, HasDispatch, SortedQueue

LEMMA NextTaskKeepsRInv ==
  ASSUME RInv, NextTask
  PROVE  RInv'
<1>1. /\ rt.pc = "tasks" /\ cxt' = cxt /\ ui' = ui /\ rt \in Rt /\ sched \in Sched
      /\ sched.queue \in Seq(Task) /\ SortedQueue(sched.queue)
      /\ rt.mVsyncRequested <=> rt.vsync # "none"
      /\ rt.callbacks = {} /\ ~StartsDispatch(rt)
  BY DEF NextTask, RInv, RTypes, VsyncOK, CallbacksOK, StartsDispatch, Sched
<1>2. NextWakeup(sched) \in {Now, Delayed, LLONG_MAX}
  BY DEF NextWakeup, mRunAt
<1>3. CASE Ready(sched)
  <2> DEFINE q == sched.queue
  <2> PICK h \in Task : h = Head(q)
    BY <1>1, <1>3, HeadTailProperties DEF Ready
  <2>1. /\ sched' = [sched EXCEPT !.queue = Tail(@), !.mNextWakeup = NextWakeup(sched),
                                  !.due = @ /\ h # mFrameCallbackTask]
        /\ rt' = [rt EXCEPT !.pc = "run", !.task = h, !.todo = <<"run">>]
    BY <1>3 DEF NextTask
  <2>2. /\ Tail(q) \in Seq(Task) /\ SortedQueue(Tail(q))
        /\ HasDispatch(q) <=> HasDispatch(Tail(q)) \/ h = mFrameCallbackTask
        /\ HasDispatch(Tail(q)) => h # mFrameCallbackTask
        /\ \A d : Queued(q, d) = Queued(Tail(q), d) \cup (IF IsOf(h, d) THEN {h.op} ELSE {})
        /\ \A d : LastCall(q, d) =>
              /\ LastCall(Tail(q), d)
              /\ IsOf(h, d) /\ h.op \in Blocking => Queued(Tail(q), d) = {}
    BY <1>1, <1>3, TailFacts DEF Ready
  <2>3. /\ sched' \in Sched /\ sched'.queue = Tail(q)
        /\ rt' \in Rt /\ rt'.pc = "run" /\ rt'.task = h /\ rt'.todo = <<"run">>
        /\ rt'.callbacks = {} /\ Callbacks(rt') = Callbacks(rt)
        /\ rt'.mFrameCallbackTaskPending = rt.mFrameCallbackTaskPending
        /\ rt'.mVsyncRequested = rt.mVsyncRequested /\ rt'.vsync = rt.vsync
    BY <1>1, <1>2, <2>1, <2>2 DEF Sched, Rt, Todo, Callbacks
  <2>4. /\ SortedQueue(sched.queue)'
        /\ HasDispatch(sched.queue) <=> HasDispatch(sched.queue)' \/ h = mFrameCallbackTask
        /\ HasDispatch(sched.queue)' => h # mFrameCallbackTask
        /\ \A d : Queued(sched.queue, d)
                    = Queued(sched.queue, d)' \cup (IF IsOf(h, d) THEN {h.op} ELSE {})
        /\ \A d : LastCall(sched.queue, d) =>
              /\ LastCall(sched.queue, d)'
              /\ IsOf(h, d) /\ h.op \in Blocking => Queued(sched.queue, d)' = {}
    BY <2>2, <2>3, QueuePrimes
  <2>5. RTypes' /\ TodoOK(rt)'
    BY <1>1, <2>3 DEF RInv, RTypes, TodoOK
  <2>6. PendingOK'
    <3>1. StartsDispatch(rt)' <=> h = mFrameCallbackTask
      BY <2>3 DEF StartsDispatch
    <3> QED BY <1>1, <2>3, <2>4, <3>1 DEF RInv, PendingOK
  <2>7. SleepOK' /\ VsyncOK'
    BY <1>1, <2>3 DEF SleepOK, VsyncOK
  <2>8. CallbacksOK'
    BY <1>1, <2>3, StepListsDiffer DEF RInv, CallbacksOK, Callbacks
  <2>9. ASSUME NEW d \in Context
        PROVE  ContextOK(d)'
    <3>1. ContextOK(d) /\ ~Runs(d) /\ ~Serves(d)
      BY <1>1 DEF RInv, Runs, Serves
    <3>2. CASE ~IsOf(h, d)
      <4>1. Queued(sched.queue, d)' = Queued(sched.queue, d) /\ LastCall(sched.queue, d)'
        BY <2>4, <3>1, <3>2 DEF ContextOK
      <4>2. ~Runs(d)'
        BY <2>3, <3>2 DEF Runs, IsOf
      <4>3. cxt'[d] = cxt[d] /\ ui'[d] = ui[d]
        BY <1>1
      <4> QED BY <3>1, <4>1, <4>2, <4>3, ContextSame
    <3>3. CASE IsOf(h, d)
      <4>1. /\ h.op \in Queued(sched.queue, d)
            /\ Queued(sched.queue, d)' \subseteq Queued(sched.queue, d)
            /\ h.op \in Blocking => Queued(sched.queue, d)' = {}
            /\ LastCall(sched.queue, d)'
        BY <2>4, <3>1, <3>3 DEF ContextOK
      <4>2. Runs(d)' /\ (Serves(d)' <=> h.op \in Blocking)
        BY <2>3, <3>3, StepListsDiffer DEF Runs, Serves, IsOf
      <4>3. /\ ui[d] \notin {"none", "gone"}
            /\ Queued(sched.queue, d) \cap Blocking # {} => ui[d] = "waiting"
            /\ ui[d] = "running" => cxt[d].alive
        BY <3>1, <4>1 DEF ContextOK, WaitsOK
      <4>4. WaitsOK(d)'
        BY <1>1, <4>1, <4>2, <4>3 DEF WaitsOK
      <4>5. \A op \in Queued(sched.queue, d) : CallOK(op, cxt[d])
        BY <3>1 DEF ContextOK, AliveOK
      <4>6. AliveOK(d)'
        BY <1>1, <2>3, <4>1, <4>5 DEF AliveOK, CallOK
      <4>7. SurfaceOK(cxt[d])'
        BY <1>1, <3>1 DEF ContextOK
      <4> QED BY <4>1, <4>4, <4>6, <4>7 DEF ContextOK
    <3> QED BY <3>2, <3>3
  <2> QED BY <2>4, <2>5, <2>6, <2>7, <2>8, <2>9 DEF RInv
<1>4. CASE ~Ready(sched)
  <2>1. /\ sched' = [sched EXCEPT !.mNextWakeup = NextWakeup(sched)]
        /\ rt' = [rt EXCEPT !.pc = "after", !.nextWakeup = NextWakeup(sched)]
    BY <1>4 DEF NextTask
  <2>2. /\ sched' \in Sched /\ sched'.queue = sched.queue
        /\ sched'.mNextWakeup = NextWakeup(sched)
        /\ rt' \in Rt /\ rt'.pc = "after" /\ rt'.nextWakeup = NextWakeup(sched)
        /\ rt'.callbacks = {} /\ Callbacks(rt') = Callbacks(rt)
        /\ rt'.mFrameCallbackTaskPending = rt.mFrameCallbackTaskPending
        /\ rt'.mVsyncRequested = rt.mVsyncRequested /\ rt'.vsync = rt.vsync
    BY <1>1, <1>2, <2>1 DEF Sched, Rt, Callbacks
  <2>3. /\ SortedQueue(sched.queue)' /\ (HasDispatch(sched.queue)' <=> HasDispatch(sched.queue))
        /\ \A d : Queued(sched.queue, d)' = Queued(sched.queue, d)
        /\ \A d : LastCall(sched.queue, d)' <=> LastCall(sched.queue, d)
    BY <1>1, <2>2, QueuePrimes
  <2>4. RTypes' /\ TodoOK(rt)'
    BY <1>1, <2>2 DEF RInv, RTypes, TodoOK
  <2>5. PendingOK'
    <3>1. ~StartsDispatch(rt)'
      BY <2>2 DEF StartsDispatch
    <3> QED BY <1>1, <2>2, <2>3, <3>1 DEF RInv, PendingOK
  <2>6. NextWakeup(sched)' = NextWakeup(sched) /\ NextWakeup(sched) # Now
    BY <1>4, <2>2, TaskFacts DEF NextWakeup, Ready, Now, LLONG_MAX
  <2>7. SleepOK' /\ VsyncOK'
    BY <1>1, <2>2, <2>6 DEF SleepOK, VsyncOK
  <2>8. CallbacksOK'
    BY <1>1, <2>2 DEF RInv, CallbacksOK, Callbacks
  <2>9. ASSUME NEW d \in Context
        PROVE  ContextOK(d)'
    <3>1. ContextOK(d) /\ ~Runs(d) /\ ~Runs(d)' /\ cxt'[d] = cxt[d] /\ ui'[d] = ui[d]
      BY <1>1, <2>2 DEF RInv, Runs
    <3>2. Queued(sched.queue, d)' = Queued(sched.queue, d) /\ LastCall(sched.queue, d)'
      BY <2>3, <3>1 DEF ContextOK
    <3> QED BY <3>1, <3>2, ContextSame
  <2> QED BY <2>3, <2>4, <2>5, <2>7, <2>8, <2>9 DEF RInv
<1> QED BY <1>3, <1>4

LEMMA AfterTasksKeepsRInv ==
  ASSUME RInv, AfterTasks
  PROVE  RInv'
<1>1. /\ rt.pc = "after" /\ cxt' = cxt /\ ui' = ui /\ rt \in Rt /\ sched \in Sched
      /\ SortedQueue(sched.queue) /\ (rt.mVsyncRequested <=> rt.vsync # "none")
      /\ rt.callbacks = {} /\ ~StartsDispatch(rt)
      /\ rt.mFrameCallbackTaskPending <=> HasDispatch(sched.queue)
      /\ sched.wake \/ /\ sched.mNextWakeup = NextWakeup(sched) /\ sched.mNextWakeup # Now
                       /\ rt.nextWakeup = sched.mNextWakeup
  BY DEF AfterTasks, RInv, RTypes, VsyncOK, CallbacksOK, StartsDispatch, PendingOK, SleepOK
<1>2. PICK r \in Rt :
        /\ rt' = [Rerequested(r) EXCEPT !.pc = "poll"]
        /\ r.pc = "after" /\ r.task = rt.task /\ r.todo = rt.todo
        /\ r.callbacks = {} /\ r.nextWakeup = rt.nextWakeup
        /\ Registrations(r) = Registrations(rt)
        /\ r.mVsyncRequested <=> r.vsync # "none"
        /\ r.mPendingRegistrationFrameCallbacks # {} => r.mFrameCallbackTaskPending
        /\ r.mFrameCallbackTaskPending <=> HasDispatch(sched'.queue)
        /\ sched' \in Sched /\ SortedQueue(sched'.queue)
        /\ \A d : Queued(sched'.queue, d) = Queued(sched.queue, d)
        /\ \A d : LastCall(sched.queue, d) => LastCall(sched'.queue, d)
        /\ sched' = sched \/ sched'.wake
  <2>1. CASE rt.mPendingRegistrationFrameCallbacks # {} /\ ~rt.mFrameCallbackTaskPending
    <3>1. sched' = drainDisplayEventQueue(sched, rt)
      BY <2>1 DEF AfterTasks
    <3>2. /\ sched' \in Sched /\ SortedQueue(sched'.queue)
          /\ HasDispatch(sched'.queue) <=> rt.mFrameCallbackTaskPending \/ rt.vsync = "fresh"
          /\ \A d : Queued(sched'.queue, d) = Queued(sched.queue, d)
          /\ \A d : LastCall(sched.queue, d) => LastCall(sched'.queue, d)
          /\ sched' = sched \/ sched'.wake
      <4>1. /\ sched' \in Sched /\ SortedQueue(sched'.queue)
            /\ HasDispatch(sched'.queue) <=> rt.mFrameCallbackTaskPending \/ rt.vsync = "fresh"
        BY <1>1, <3>1, DrainFacts
      <4>2. /\ \A d : Queued(sched'.queue, d) = Queued(sched.queue, d)
            /\ \A d : LastCall(sched.queue, d) => LastCall(sched'.queue, d)
        BY <1>1, <3>1, DrainFacts
      <4>3. sched' = sched \/ sched'.wake
        <5>1. \/ sched' = sched
              \/ sched.wake \/ (sched.mNextWakeup = NextWakeup(sched) /\ sched.mNextWakeup # Now)
                 => sched'.wake
          BY <1>1, <3>1, DrainFacts
        <5>2. sched.wake \/ (sched.mNextWakeup = NextWakeup(sched) /\ sched.mNextWakeup # Now)
          BY <1>1
        <5> QED BY <5>1, <5>2
      <4> QED BY <4>1, <4>2, <4>3
    <3> PICK d \in Rt : d = Drained(rt)
      BY <1>1, DrainedFacts
    <3>3. /\ d.mVsyncRequested <=> d.vsync # "none"
          /\ d.pc = rt.pc /\ d.task = rt.task /\ d.todo = rt.todo /\ d.nextWakeup = rt.nextWakeup
          /\ d.callbacks = rt.callbacks /\ d.mFrameCallbacks = rt.mFrameCallbacks
          /\ d.mPendingRegistrationFrameCallbacks = rt.mPendingRegistrationFrameCallbacks
          /\ d.mFrameCallbackTaskPending <=> rt.mFrameCallbackTaskPending \/ rt.vsync = "fresh"
      BY <1>1, DrainedFacts
    <3> PICK e \in Rt : e = [d EXCEPT !.mFrameCallbacks = @ \cup rt.mPendingRegistrationFrameCallbacks,
                                      !.mPendingRegistrationFrameCallbacks = {}]
      BY <1>1 DEF Rt
    <3>4. /\ e.mVsyncRequested <=> e.vsync # "none"
          /\ e.pc = rt.pc /\ e.task = rt.task /\ e.todo = rt.todo /\ e.nextWakeup = rt.nextWakeup
          /\ e.callbacks = rt.callbacks
          /\ e.mFrameCallbacks = rt.mFrameCallbacks \cup rt.mPendingRegistrationFrameCallbacks
          /\ e.mPendingRegistrationFrameCallbacks = {}
          /\ e.mFrameCallbackTaskPending <=> rt.mFrameCallbackTaskPending \/ rt.vsync = "fresh"
      BY <3>3 DEF Rt
    <3> PICK r \in Rt : r = requestVsync(e)
      BY <3>4, RequestFacts
    <3>5. /\ r.mVsyncRequested /\ r.vsync # "none"
          /\ r.pc = e.pc /\ r.task = e.task /\ r.todo = e.todo /\ r.nextWakeup = e.nextWakeup
          /\ r.callbacks = e.callbacks /\ r.mFrameCallbacks = e.mFrameCallbacks
          /\ r.mPendingRegistrationFrameCallbacks = e.mPendingRegistrationFrameCallbacks
          /\ r.mFrameCallbackTaskPending = e.mFrameCallbackTaskPending
      BY <3>4, RequestFacts
    <3>6. rt' = [Rerequested(r) EXCEPT !.pc = "poll"]
      BY <2>1 DEF AfterTasks, Registered
    <3>7. Registrations(r) = Registrations(rt)
      BY <3>4, <3>5 DEF Registrations
    <3>8. /\ r.pc = "after" /\ r.task = rt.task /\ r.todo = rt.todo
          /\ r.callbacks = {} /\ r.nextWakeup = rt.nextWakeup
          /\ r.mVsyncRequested <=> r.vsync # "none"
          /\ r.mPendingRegistrationFrameCallbacks # {} => r.mFrameCallbackTaskPending
          /\ r.mFrameCallbackTaskPending <=> HasDispatch(sched'.queue)
      BY <1>1, <3>2, <3>4, <3>5
    <3> QED BY <3>2, <3>6, <3>7, <3>8
  <2>2. CASE ~(rt.mPendingRegistrationFrameCallbacks # {} /\ ~rt.mFrameCallbackTaskPending)
    <3>1. sched' = sched /\ rt' = [Rerequested(rt) EXCEPT !.pc = "poll"]
      BY <2>2 DEF AfterTasks, Registered
    <3> QED BY <1>1, <2>2, <3>1
  <2> QED BY <2>1, <2>2
<1>3. /\ rt' \in Rt /\ rt'.pc = "poll" /\ rt'.task = rt.task /\ rt'.todo = rt.todo
      /\ rt'.callbacks = {} /\ rt'.nextWakeup = rt.nextWakeup
      /\ Registrations(rt') = Registrations(rt)
      /\ rt'.mVsyncRequested <=> rt'.vsync # "none"
      /\ rt'.mPendingRegistrationFrameCallbacks # {} => rt'.mFrameCallbackTaskPending
      /\ rt'.mFrameCallbacks # {} => rt'.mFrameCallbackTaskPending \/ rt'.mVsyncRequested
      /\ rt'.mFrameCallbackTaskPending <=> HasDispatch(sched'.queue)
  <2>1. PICK s \in Rt :
          /\ rt' = [s EXCEPT !.pc = "poll"] /\ s.task = r.task /\ s.todo = r.todo
          /\ s.callbacks = r.callbacks /\ s.nextWakeup = r.nextWakeup
          /\ s.mFrameCallbacks = r.mFrameCallbacks
          /\ s.mPendingRegistrationFrameCallbacks = r.mPendingRegistrationFrameCallbacks
          /\ s.mFrameCallbackTaskPending = r.mFrameCallbackTaskPending
          /\ s.mVsyncRequested <=> s.vsync # "none"
          /\ s.mFrameCallbacks # {} => s.mFrameCallbackTaskPending \/ s.mVsyncRequested
    <3>1. CASE ~r.mFrameCallbackTaskPending /\ ~r.mVsyncRequested /\ r.mFrameCallbacks # {}
      BY <1>2, <3>1, RequestFacts DEF Rerequested
    <3>2. CASE ~(~r.mFrameCallbackTaskPending /\ ~r.mVsyncRequested /\ r.mFrameCallbacks # {})
      BY <1>2, <3>2 DEF Rerequested
    <3> QED BY <3>1, <3>2
  <2>2. /\ rt' \in Rt /\ rt'.pc = "poll" /\ rt'.task = s.task /\ rt'.todo = s.todo
        /\ rt'.callbacks = s.callbacks /\ rt'.nextWakeup = s.nextWakeup
        /\ rt'.mFrameCallbacks = s.mFrameCallbacks
        /\ rt'.mPendingRegistrationFrameCallbacks = s.mPendingRegistrationFrameCallbacks
        /\ rt'.mFrameCallbackTaskPending = s.mFrameCallbackTaskPending
        /\ rt'.mVsyncRequested = s.mVsyncRequested /\ rt'.vsync = s.vsync
    BY <2>1 DEF Rt
  <2>3. Registrations(rt') = Registrations(r)
    BY <2>1, <2>2 DEF Registrations
  <2> QED BY <1>2, <2>1, <2>2, <2>3
<1>4. RTypes' /\ TodoOK(rt)'
  BY <1>1, <1>2, <1>3 DEF RInv, RTypes, TodoOK
<1>5. SortedQueue(sched.queue)' /\ (HasDispatch(sched.queue)' <=> HasDispatch(sched'.queue))
  BY <1>2, QueuePrimes
<1>6. PendingOK'
  BY <1>3, <1>5 DEF PendingOK, StartsDispatch
<1>7. SleepOK'
  <2>1. CASE sched' = sched
    BY <1>1, <1>3, <2>1 DEF SleepOK, NextWakeup
  <2>2. CASE sched'.wake
    BY <2>2 DEF SleepOK
  <2> QED BY <1>2, <2>1, <2>2
<1>8. VsyncOK'
  BY <1>3 DEF VsyncOK
<1>9. CallbacksOK'
  BY <1>1, <1>3 DEF RInv, CallbacksOK, Callbacks, Registrations
<1>10. ASSUME NEW d \in Context
       PROVE  ContextOK(d)'
  <2>1. ContextOK(d) /\ ~Runs(d) /\ ~Runs(d)' /\ cxt'[d] = cxt[d] /\ ui'[d] = ui[d]
    BY <1>1, <1>3 DEF RInv, Runs
  <2>2. Queued(sched.queue, d)' = Queued(sched.queue, d) /\ LastCall(sched.queue, d)'
    BY <1>2, <2>1, QueuePrimes DEF ContextOK
  <2> QED BY <2>1, <2>2, ContextSame
<1> QED BY <1>4, <1>5, <1>6, <1>7, <1>8, <1>9, <1>10 DEF RInv

-----------------------------------------------------------------------------
(* The UI threads, the display and the clock *)

\* A call that is posted finds its context as the UI thread knows it, and
\* nothing in the queue that the UI thread waits for.
LEMMA CallFacts ==
  ASSUME RInv, NEW c \in Context, NEW op \in Blocking \cup Async, MayCall(c, op)
  PROVE  /\ ui[c] = "none" \/ ui[c] = "running"
         /\ ui[c] = "none" => op = "createContext"
         /\ CallOK(op, cxt[c]) /\ ~Serves(c)
         /\ Queued(sched.queue, c) \cap Blocking = {}
<1>1. ContextOK(c)
  BY DEF RInv
<1>2. CASE ui[c] = "none"
  <2>1. op = "createContext"
    BY <1>2 DEF MayCall
  <2>2. ~cxt[c].alive /\ Queued(sched.queue, c) = {} /\ ~Runs(c)
    BY <1>1, <1>2 DEF ContextOK, WaitsOK
  <2> QED BY <1>2, <2>1, <2>2 DEF CallOK, Serves
<1>3. CASE ui[c] = "running"
  <2>1. cxt[c].alive /\ ~Serves(c) /\ Queued(sched.queue, c) \cap Blocking = {}
    BY <1>1, <1>3 DEF ContextOK, WaitsOK
  <2>2. op # "createContext" /\ (op = "updateSurface" => cxt[c].mCanvas)
    BY <1>3 DEF MayCall
  <2> QED BY <1>3, <2>1, <2>2 DEF CallOK
<1> QED BY <1>2, <1>3 DEF MayCall

\* What posting the task t of context c keeps, in the queue or at its front.
LEMMA PostStep ==
  ASSUME RInv, NEW c \in Context, NEW op \in Blocking \cup Async, MayCall(c, op),
         NEW t \in Task, t = [op |-> op, c |-> c], rt' = rt, cxt' = cxt,
         sched' \in Sched, SortedQueue(sched'.queue),
         HasDispatch(sched'.queue) <=> HasDispatch(sched.queue),
         \A d : Queued(sched'.queue, d)
                  = Queued(sched.queue, d) \cup (IF IsOf(t, d) THEN {t.op} ELSE {}),
         \A d : LastCall(sched.queue, d)
                /\ (IsOf(t, d) => Queued(sched.queue, d) \cap Blocking = {})
                => LastCall(sched'.queue, d),
         ~sched'.wake => ~sched.wake /\ sched.mNextWakeup = Now,
         ui' = IF op \in Blocking THEN [ui EXCEPT ![c] = "waiting"] ELSE ui
  PROVE  RInv'
<1>1. t.op = op /\ t.c = c /\ t # mFrameCallbackTask
  BY TaskFacts DEF Blocking, Async
<1>2. /\ ui[c] = "none" \/ ui[c] = "running"
      /\ ui[c] = "none" => op = "createContext"
      /\ CallOK(op, cxt[c]) /\ ~Serves(c)
      /\ Queued(sched.queue, c) \cap Blocking = {}
  BY CallFacts
<1>3. ui \in [Context -> {"none", "running", "waiting", "gone"}]
  BY DEF RInv, RTypes
<1>4. RTypes' /\ TodoOK(rt)'
  BY <1>3 DEF RInv, RTypes, TodoOK
<1>5. SortedQueue(sched.queue)' /\ (HasDispatch(sched.queue)' <=> HasDispatch(sched.queue))
  BY QueuePrimes
<1>6. PendingOK'
  BY <1>5 DEF RInv, PendingOK, StartsDispatch
<1>7. SleepOK'
  BY DEF RInv, SleepOK
<1>8. VsyncOK' /\ CallbacksOK'
  BY DEF RInv, VsyncOK, CallbacksOK, Callbacks
<1>9. ASSUME NEW d \in Context
      PROVE  ContextOK(d)'
  <2>1. ContextOK(d) /\ (Runs(d)' <=> Runs(d)) /\ (Serves(d)' <=> Serves(d))
    BY DEF RInv, Runs, Serves, IsOf
  <2>2. CASE d # c
    <3>1. ~IsOf(t, d)
      BY <1>1, <2>2 DEF IsOf
    <3>2. Queued(sched.queue, d)' = Queued(sched.queue, d) /\ LastCall(sched.queue, d)'
      BY <2>1, <3>1, QueuePrimes DEF ContextOK
    <3>3. cxt'[d] = cxt[d] /\ ui'[d] = ui[d]
      BY <1>3, <2>2
    <3> QED BY <2>1, <3>2, <3>3, ContextSame
  <2>3. CASE d = c
    <3>1. IsOf(t, d)
      BY <1>1, <2>3 DEF IsOf
    <3>2. /\ Queued(sched.queue, d)' = Queued(sched.queue, d) \cup {op}
          /\ LastCall(sched.queue, d)'
      BY <1>1, <1>2, <2>1, <2>3, <3>1, QueuePrimes DEF ContextOK
    <3>3. op \in Blocking => ui'[d] = "waiting"
      BY <1>3, <2>3
    <3>4. op \notin Blocking => ui'[d] = "running" /\ cxt'[d].alive
      BY <1>2, <2>1, <2>3 DEF Blocking, ContextOK, WaitsOK
    <3>5. WaitsOK(d)'
      BY <1>2, <2>1, <2>3, <3>2, <3>3, <3>4 DEF WaitsOK
    <3>6. AliveOK(d)'
      BY <1>2, <2>1, <2>3, <3>2 DEF ContextOK, AliveOK, CallOK
    <3>7. SurfaceOK(cxt[d])'
      BY <2>1 DEF ContextOK
    <3> QED BY <3>2, <3>5, <3>6, <3>7 DEF ContextOK
  <2> QED BY <2>2, <2>3
<1> QED BY <1>4, <1>5, <1>6, <1>7, <1>8, <1>9 DEF RInv

LEMMA PostKeepsRInv ==
  ASSUME RInv, NEW c \in Context, NEW op \in Blocking \cup Async, Post(c, op)
  PROVE  RInv'
<1> PICK t \in Task : t = [op |-> op, c |-> c]
  BY DEF Task
<1>1. /\ MayCall(c, op) /\ op \in Blocking /\ sched' = queue(sched, t) /\ rt' = rt /\ cxt' = cxt
      /\ ui' = [ui EXCEPT ![c] = "waiting"]
  BY DEF Post
<1>2. t # mFrameCallbackTask /\ sched \in Sched /\ SortedQueue(sched.queue)
  BY TaskFacts DEF Blocking, Async, RInv, RTypes
<1>3. /\ sched' \in Sched /\ SortedQueue(sched'.queue)
      /\ HasDispatch(sched'.queue) <=> HasDispatch(sched.queue)
      /\ ~sched'.wake => ~sched.wake /\ sched.mNextWakeup = Now
  BY <1>1, <1>2, QueueFacts
<1>4. /\ \A d : Queued(sched'.queue, d)
                  = Queued(sched.queue, d) \cup (IF IsOf(t, d) THEN {t.op} ELSE {})
      /\ \A d : LastCall(sched.queue, d)
                /\ (IsOf(t, d) => Queued(sched.queue, d) \cap Blocking = {})
                => LastCall(sched'.queue, d)
  BY <1>1, <1>2, QueueFacts
<1> QED BY <1>1, <1>3, <1>4, PostStep

LEMMA PostAsyncKeepsRInv ==
  ASSUME RInv, NEW c \in Context, NEW op \in Blocking \cup Async, PostAsync(c, op)
  PROVE  RInv'
<1> PICK t \in Task : t = [op |-> op, c |-> c]
  BY DEF Task
<1>1. /\ MayCall(c, op) /\ op \in Async /\ op \notin Blocking
      /\ rt' = rt /\ cxt' = cxt /\ ui' = ui
      /\ sched' = IF op = "notifyFramePending" THEN queueAtFront(sched, t) ELSE queue(sched, t)
  BY DEF PostAsync, Async, Blocking
<1>2. /\ t # mFrameCallbackTask /\ t.op \notin Blocking
      /\ sched \in Sched /\ SortedQueue(sched.queue)
  BY <1>1, TaskFacts DEF Blocking, Async, RInv, RTypes
<1>3. /\ sched' \in Sched /\ SortedQueue(sched'.queue)
      /\ HasDispatch(sched'.queue) <=> HasDispatch(sched.queue)
      /\ ~sched'.wake => ~sched.wake /\ sched.mNextWakeup = Now
  <2>1. CASE op = "notifyFramePending"
    BY <1>1, <1>2, <2>1, FrontFacts
  <2>2. CASE op # "notifyFramePending"
    BY <1>1, <1>2, <2>2, QueueFacts
  <2> QED BY <2>1, <2>2
<1>4. /\ \A d : Queued(sched'.queue, d)
                  = Queued(sched.queue, d) \cup (IF IsOf(t, d) THEN {t.op} ELSE {})
      /\ \A d : LastCall(sched.queue, d)
                /\ (IsOf(t, d) => Queued(sched.queue, d) \cap Blocking = {})
                => LastCall(sched'.queue, d)
  <2>1. CASE op = "notifyFramePending"
    BY <1>1, <1>2, <2>1, FrontFacts
  <2>2. CASE op # "notifyFramePending"
    BY <1>1, <1>2, <2>2, QueueFacts
  <2> QED BY <2>1, <2>2
<1> QED BY <1>1, <1>3, <1>4, PostStep

LEMMA EnvironmentKeepsRInv ==
  ASSUME RInv, Vsync \/ Tick \/ UNCHANGED vars
  PROVE  RInv'
<1>1. /\ sched' \in Sched /\ sched'.queue = sched.queue /\ sched'.wake = sched.wake
      /\ sched'.mNextWakeup = sched.mNextWakeup
  BY DEF RInv, RTypes, Sched, Vsync, Tick, vars
<1>2. /\ rt' \in Rt /\ rt'.pc = rt.pc /\ rt'.task = rt.task /\ rt'.todo = rt.todo
      /\ rt'.callbacks = rt.callbacks /\ rt'.mFrameCallbacks = rt.mFrameCallbacks
      /\ rt'.mPendingRegistrationFrameCallbacks = rt.mPendingRegistrationFrameCallbacks
      /\ rt'.mFrameCallbackTaskPending = rt.mFrameCallbackTaskPending
      /\ rt'.nextWakeup = rt.nextWakeup
      /\ rt'.mVsyncRequested = rt.mVsyncRequested
      /\ rt'.mVsyncRequested <=> rt'.vsync # "none"
  BY DEF RInv, RTypes, Rt, VsyncOK, Vsync, Tick, vars
<1>3. cxt' = cxt /\ ui' = ui
  BY DEF Vsync, Tick, vars
<1>4. RTypes' /\ TodoOK(rt)'
  BY <1>1, <1>2, <1>3 DEF RInv, RTypes, TodoOK
<1>5. SortedQueue(sched.queue)' /\ (HasDispatch(sched.queue)' <=> HasDispatch(sched.queue))
  BY <1>1, QueuePrimes DEF RInv
<1>6. PendingOK'
  BY <1>2, <1>5 DEF RInv, PendingOK, StartsDispatch
<1>7. SleepOK' /\ VsyncOK' /\ CallbacksOK'
  BY <1>1, <1>2, <1>3 DEF RInv, SleepOK, NextWakeup, VsyncOK, CallbacksOK, Callbacks
<1>8. ASSUME NEW d \in Context
      PROVE  ContextOK(d)'
  <2>1. ContextOK(d) /\ (Runs(d)' <=> Runs(d)) /\ cxt'[d] = cxt[d] /\ ui'[d] = ui[d]
    BY <1>2, <1>3 DEF RInv, Runs, IsOf
  <2>2. Queued(sched.queue, d)' = Queued(sched.queue, d) /\ LastCall(sched.queue, d)'
    BY <1>1, <2>1, QueuePrimes DEF ContextOK
  <2> QED BY <1>2, <2>1, <2>2, ContextSame
<1> QED BY <1>4, <1>5, <1>6, <1>7, <1>8 DEF RInv

-----------------------------------------------------------------------------
(* The invariant and what it promises *)

LEMMA InitEstablishesRInv == Init => RInv
<1> SUFFICES ASSUME Init PROVE RInv
  OBVIOUS
<1>1. /\ sched.queue = <<>> /\ Len(sched.queue) = 0 /\ <<>> \in Seq(Task)
      /\ sched.wake = FALSE /\ sched.due = FALSE /\ sched.mNextWakeup = LLONG_MAX
  BY EmptySeq DEF Init
<1>2. /\ rt.pc = "poll" /\ rt.task = mFrameCallbackTask /\ rt.todo = <<>>
      /\ rt.nextWakeup = LLONG_MAX /\ rt.callbacks = {} /\ rt.mFrameCallbacks = {}
      /\ rt.mPendingRegistrationFrameCallbacks = {} /\ rt.mFrameCallbackTaskPending = FALSE
      /\ rt.mVsyncRequested = FALSE /\ rt.vsync = "none"
  BY DEF Init
<1>3. /\ cxt = [c \in Context |-> NoContext] /\ ui = [c \in Context |-> "none"]
      /\ NoContext \in Cxt /\ NoContext.alive = FALSE /\ NoContext.mEglSurface = FALSE
      /\ NoContext.mNativeWindow = FALSE /\ NoContext.mCanvas = FALSE
  BY DEF Init, NoContext, Cxt
<1>4. sched \in Sched /\ rt \in Rt
  BY <1>1, TaskFacts DEF Init, Sched, Rt, Todo, Task
<1>5. SortedQueue(sched.queue) /\ ~HasDispatch(sched.queue)
  BY <1>1 DEF SortedQueue, HasDispatch
<1>6. \A c : Queued(sched.queue, c) = {} /\ LastCall(sched.queue, c)
  BY <1>1 DEF Queued, LastCall
<1>7. RTypes /\ TodoOK(rt) /\ PendingOK /\ VsyncOK
  BY <1>2, <1>3, <1>4, <1>5 DEF RTypes, TodoOK, PendingOK, StartsDispatch, VsyncOK
<1>8. SleepOK
  BY <1>1, <1>2 DEF SleepOK, NextWakeup, Now, LLONG_MAX
<1>9. CallbacksOK
  BY <1>2 DEF CallbacksOK, Callbacks
<1>10. ASSUME NEW c \in Context PROVE ContextOK(c)
  <2>1. cxt[c] = NoContext /\ ui[c] = "none" /\ ~Runs(c) /\ ~Serves(c)
    BY <1>2, <1>3 DEF Runs, Serves
  <2> QED BY <1>3, <1>6, <2>1 DEF ContextOK, SurfaceOK, WaitsOK, AliveOK
<1> QED BY <1>5, <1>7, <1>8, <1>9, <1>10 DEF RInv

\* Every step keeps the invariant.
LEMMA NextKeepsRInv == RInv /\ [Next]_vars => RInv'
<1> SUFFICES ASSUME RInv, [Next]_vars PROVE RInv'
  OBVIOUS
<1>1. CASE RenderLoop
  BY <1>1, PollKeepsRInv, NextTaskKeepsRInv, AfterTasksKeepsRInv, RunTaskKeepsRInv,
     SyncKeepsRInv, DrawKeepsRInv, SignalKeepsRInv, DispatchKeepsRInv, DoFrameKeepsRInv
     DEF RenderLoop
<1>2. CASE Vsync \/ Tick \/ UNCHANGED vars
  BY <1>2, EnvironmentKeepsRInv
<1>3. ASSUME NEW c \in Context, NEW op \in Blocking \cup Async, Post(c, op) \/ PostAsync(c, op)
      PROVE  RInv'
  BY <1>3, PostKeepsRInv, PostAsyncKeepsRInv
<1> QED BY <1>1, <1>2, <1>3 DEF Next

\* The inductive invariant of the render thread, its queue and its contexts
\* (RenderThread, CanvasContext, RenderProxy), types included, for any number of
\* UI threads.
THEOREM Invariance == Spec => []RInv
<1>1. Init => RInv
  BY InitEstablishesRInv
<1>2. RInv /\ [Next]_vars => RInv'
  BY NextKeepsRInv
<1> QED BY <1>1, <1>2, PTL DEF Spec

\* RenderThread::queue wakes the looper for every task that threadLoop would
\* sleep over: what an unwoken thread sleeps on is the delayed task, for no
\* longer than its delay.
THEOREM NeverSleptOver == Spec => []NoTaskSleptOver
<1>1. RInv => NoTaskSleptOver
  <2> SUFFICES ASSUME RInv, rt.pc = "poll", ~sched.wake, sched.queue # <<>>
               PROVE  mRunAt(Head(sched.queue)) = Delayed /\ rt.nextWakeup = Delayed
    BY DEF NoTaskSleptOver
  <2>1. /\ sched.mNextWakeup = NextWakeup(sched) /\ sched.mNextWakeup # Now
        /\ rt.nextWakeup = sched.mNextWakeup
    BY DEF RInv, SleepOK
  <2> QED BY <2>1 DEF NextWakeup, mRunAt
<1> QED BY <1>1, Invariance, PTL

\* mFrameCallbackTask is in the queue at most once, and there or about to run
\* exactly while mFrameCallbackTaskPending says so.
THEOREM DispatchedOnce == Spec => []DispatchQueuedOnce
<1>1. RInv => DispatchQueuedOnce
  <2> SUFFICES ASSUME RInv PROVE DispatchQueuedOnce
    OBVIOUS
  <2> DEFINE q == sched.queue
             places == {i \in DOMAIN q : q[i] = mFrameCallbackTask}
             starts == At("run") /\ rt.task = mFrameCallbackTask
  <2>1. q \in Seq(Task) /\ Len(q) \in Nat /\ DOMAIN q = 1 .. Len(q) /\ (q # <<>> <=> Len(q) # 0)
    BY EmptyIsNil, LenProperties DEF RInv, RTypes, Sched
  <2>2. places \subseteq {Len(q)}
    BY <2>1 DEF RInv, SortedQueue
  <2>3. Cardinality(places) <= 1
    <3>1. IsFiniteSet({Len(q)}) /\ Cardinality({Len(q)}) = 1
      BY FS_Singleton
    <3> HIDE DEF places
    <3> QED BY <2>2, <3>1, FS_Subset
  <2>4. HasDispatch(q) <=> places # {}
    BY <2>1, <2>2 DEF HasDispatch
  <2>5. StartsDispatch(rt) <=> starts
    <3>1. Head(<<"run">>) = "run" /\ Head(<<"doFrame">>) = "doFrame"
      BY ShortLists
    <3> QED BY <3>1, StepListsDiffer DEF RInv, TodoOK, StartsDispatch, At
  <2>6. rt.mFrameCallbackTaskPending <=> (places # {} \/ starts)
    BY <2>4, <2>5 DEF RInv, PendingOK
  <2> QED BY <2>3, <2>6 DEF DispatchQueuedOnce
<1> QED BY <1>1, Invariance, PTL

\* A render thread that goes to sleep (threadLoop) with an animation registered
\* has the dispatch of the frame callbacks queued, or a vsync requested that the
\* display still owes it.
THEOREM AnimationsGoOn == Spec => []AnimationsKeepGoing
<1>1. RInv => AnimationsKeepGoing
  BY DEF RInv, VsyncOK, AnimationsKeepGoing
<1> QED BY <1>1, Invariance, PTL

\* No frame callback is kept and no call of RenderProxy runs on a CanvasContext
\* that is deleted or, where it draws, has lost its surface.
THEOREM ContextsAreAlive == Spec => []NoDanglingContext
<1>1. RInv => NoDanglingContext
  <2> SUFFICES ASSUME RInv PROVE NoDanglingContext
    OBVIOUS
  <2>1. ASSUME NEW c \in Callbacks(rt)
        PROVE  cxt[c].alive /\ cxt[c].mEglSurface
    <3>1. c \in Context /\ cxt[c].mEglSurface
      BY DEF RInv, RTypes, Rt, CallbacksOK, Callbacks
    <3> QED BY <3>1 DEF RInv, ContextOK, SurfaceOK
  <2>2. ASSUME rt.pc = "run", rt.task # mFrameCallbackTask
        PROVE  cxt[rt.task.c].alive \/ rt.task.op \in {"createContext", "destroyContext"}
    <3>1. rt.task \in Task
      BY DEF RInv, RTypes, Rt
    <3>2. rt.task.c \in Context
      BY <2>2, <3>1, TaskFacts
    <3>3. Runs(rt.task.c) /\ AliveOK(rt.task.c)
      BY <2>2, <3>2 DEF RInv, ContextOK, Runs, IsOf
    <3> QED BY <3>3 DEF AliveOK, CallOK
  <2>3. ASSUME At("draw")
        PROVE  cxt[rt.task.c].mCanvas /\ cxt[rt.task.c].mEglSurface
    <3>1. Runs(rt.task.c) /\ ContextOK(rt.task.c) /\ rt.todo \notin {<<"run">>, <<"signal">>}
      BY <2>3, DrawSteps, StepListsDiffer
    <3> QED BY <3>1 DEF ContextOK, AliveOK, SurfaceOK
  <2> QED BY <2>1, <2>2, <2>3 DEF NoDanglingContext, Callbacks
<1> QED BY <1>1, Invariance, PTL

\* Once ~RenderProxy has returned, destroyContext having run, the render thread
\* has no task left that this UI thread ever posted.
THEOREM FenceHolds == Spec => []DestroyIsFence
<1>1. RInv => DestroyIsFence
  <2> SUFFICES ASSUME RInv, NEW c \in Context, ui[c] = "gone"
               PROVE  /\ \A i \in DOMAIN sched.queue :
                           sched.queue[i] # mFrameCallbackTask => sched.queue[i].c # c
                      /\ rt.pc = "run" /\ rt.task # mFrameCallbackTask => rt.task.c # c
    BY DEF DestroyIsFence
  <2>1. DOMAIN sched.queue = 1 .. Len(sched.queue)
    BY LenProperties DEF RInv, RTypes, Sched
  <2>2. Queued(sched.queue, c) = {} /\ ~Runs(c)
    BY DEF RInv, ContextOK, WaitsOK
  <2> QED BY <2>1, <2>2 DEF Queued, Runs, IsOf
<1> QED BY <1>1, Invariance, PTL
=============================================================================
