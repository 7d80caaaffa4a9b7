---------------------- MODULE CommonClockService_proofs ----------------------
(***************************************************************************)
(* Proofs about CommonClockService for any number of listeners and of      *)
(* binder threads.  They rest on one fact of each lock: a thread that is   *)
(* inside a registration call holds mRegistrationLock, and the work thread *)
(* that is calling back holds mCallbackLock.                               *)
(***************************************************************************)
EXTENDS CommonClockService, TLAPS

-----------------------------------------------------------------------------
(* The inductive invariant *)

\* A call that has begun is about a listener.
AboutListeners ==
  \A t \in Binder : call[t].pc # "idle" => call[t].who \in Listener

\* Only a call that has changed the list and has not reported it yet may leave
\* the core service with the wrong answer.
ReportPending ==
  (\A t \in Binder : call[t].pc # "reevaluate") =>
    mCommonClockHasClients = (mListeners # {})

\* The listeners still to be called are in the list, which nobody shortens
\* before the work thread has called them all.
CallbacksInList ==
  /\ toNotify \subseteq mListeners
  /\ work # "calling" => toNotify = {}

LInv == LTypeOK /\ AboutListeners /\ ReportPending /\ CallbacksInList

LEMMA LInitOK == LInit => LInv
<1> SUFFICES ASSUME LInit PROVE LInv
  OBVIOUS
<1> USE DEF LInit
<1>1. Idle \in Call
  BY DEF Idle, Call
<1>2. \A t \in Binder : call[t] = Idle /\ t # NoOne
  BY NoOneAssumption DEF Thread
<1>3. NoOne # Work
  BY NoOneAssumption DEF Thread
<1>4. \A t \in Binder : call[t].pc = "idle"
  BY <1>2 DEF Idle
<1>5. LTypeOK
  BY <1>1, <1>2, <1>3, <1>4 DEF LTypeOK
<1> QED BY <1>4, <1>5 DEF LInv, AboutListeners, ReportPending, CallbacksInList

-----------------------------------------------------------------------------
(* A binder thread's steps *)

\* Thread t, and no other, goes on to another record of its call.
Moves(t, c) ==
  /\ c \in Call
  /\ c.pc # "idle" => c.who \in Listener
  /\ call' = [call EXCEPT ![t] = c]

\* What such a step does to the calls.
LEMMA MovesOK ==
  ASSUME LInv, NEW t \in Binder, NEW c, Moves(t, c)
  PROVE  /\ call' \in [Binder -> Call]
         /\ AboutListeners'
         /\ call'[t] = c
         /\ \A u \in Binder : u # t => call'[u] = call[u]
BY DEF LInv, LTypeOK, AboutListeners, Moves

\* mRegistrationLock stays that of the threads inside a call, if t takes it
\* with its first step and gives it up with its last.
LEMMA RegistrationOK ==
  ASSUME LInv, NEW t \in Binder, NEW c, Moves(t, c),
         \/ /\ c.pc \notin {"idle", "enter"} /\ mRegistrationLock' = t
            /\ mRegistrationLock \in {NoOne, t}
         \/ /\ c.pc \in {"idle", "enter"} /\ mRegistrationLock' = NoOne
            /\ mRegistrationLock = t
         \/ /\ c.pc \in {"idle", "enter"} /\ call[t].pc \in {"idle", "enter"}
            /\ mRegistrationLock' = mRegistrationLock
  PROVE  /\ mRegistrationLock' \in Thread \cup {NoOne}
         /\ \A u \in Binder :
              mRegistrationLock' = u <=> call'[u].pc \notin {"idle", "enter"}
<1>1. \A u \in Binder : u # NoOne /\ u \in Thread
  BY NoOneAssumption DEF Thread
<1>2. \A u \in Binder :
        mRegistrationLock = u <=> call[u].pc \notin {"idle", "enter"}
  BY DEF LInv, LTypeOK
<1>3. mRegistrationLock \in Thread \cup {NoOne}
  BY DEF LInv, LTypeOK
<1> QED BY <1>1, <1>2, <1>3, MovesOK

LEMMA GotoMoves ==
  ASSUME LInv, NEW t \in Binder, ~At(t, "idle"),
         NEW pc \in {"check", "add", "remove", "reevaluate", "link", "leave"},
         Goto(t, pc)
  PROVE  /\ Moves(t, [call[t] EXCEPT !.pc = pc])
         /\ [call[t] EXCEPT !.pc = pc].pc = pc
BY DEF LInv, LTypeOK, AboutListeners, At, Goto, Moves, Call

LEMMA BeginOK ==
  ASSUME LInv, NEW t \in Binder, NEW l \in Listener,
         NEW op \in {"register", "unregister", "binderDied"},
         At(t, "idle"), Begin(t, op, l),
         UNCHANGED <<locks, mListeners, mCommonClockHasClients, callbacks,
                     alive, linked>>,
         dying' \subseteq Listener, reported' \subseteq Listener
  PROVE  LInv'
<1> DEFINE c == [op |-> op, who |-> l, pc |-> "enter"]
<1>1. Moves(t, c) /\ c.pc = "enter"
  BY DEF Moves, Begin, Call
<1> HIDE DEF c
<1>2. call' \in [Binder -> Call] /\ AboutListeners'
  BY <1>1, MovesOK
<1>3. /\ mRegistrationLock' \in Thread \cup {NoOne}
      /\ \A u \in Binder :
           mRegistrationLock' = u <=> call'[u].pc \notin {"idle", "enter"}
  BY <1>1, RegistrationOK DEF At, locks
<1>4. LTypeOK'
  BY <1>2, <1>3 DEF LInv, LTypeOK, locks, callbacks
<1>5. ReportPending'
  <2>1. \A u \in Binder :
          call'[u].pc = "reevaluate" <=> call[u].pc = "reevaluate"
    BY <1>1, MovesOK DEF At
  <2> QED BY <2>1 DEF LInv, ReportPending
<1> QED BY <1>2, <1>4, <1>5 DEF LInv, CallbacksInList, callbacks

\* What holds of the calls after a step of a thread inside a registration call,
\* as nobody else is in one.
LEMMA InsideOK ==
  ASSUME LInv, NEW t \in Binder, ~At(t, "idle"), ~At(t, "enter"),
         NEW pc \in {"add", "reevaluate", "link", "leave"},
         Goto(t, pc), UNCHANGED mRegistrationLock
  PROVE  /\ call' \in [Binder -> Call] /\ AboutListeners'
         /\ mRegistrationLock' \in Thread \cup {NoOne}
         /\ \A u \in Binder :
              mRegistrationLock' = u <=> call'[u].pc \notin {"idle", "enter"}
         /\ call'[t].pc = pc
         /\ \A u \in Binder : call[u].pc = "reevaluate" => u = t
         /\ \A u \in Binder : u # t => call'[u].pc # "reevaluate"
<1> DEFINE c == [call[t] EXCEPT !.pc = pc]
<1>1. Moves(t, c) /\ c.pc = pc
  BY GotoMoves
<1> HIDE DEF c
<1>2. mRegistrationLock = t
  BY DEF LInv, LTypeOK, At
<1>3. \A u \in Binder : call[u].pc = "reevaluate" => u = t
  BY <1>2 DEF LInv, LTypeOK
<1>4. /\ mRegistrationLock' \in Thread \cup {NoOne}
      /\ \A u \in Binder :
           mRegistrationLock' = u <=> call'[u].pc \notin {"idle", "enter"}
  BY <1>1, <1>2, RegistrationOK
<1> QED BY <1>1, <1>3, <1>4, MovesOK

LEMMA LockRegistrationOK ==
  ASSUME LInv, NEW t \in Binder, LockRegistration(t)
  PROVE  LInv'
<1>1. PICK pc \in {"check", "remove"} : Goto(t, pc)
  BY DEF LockRegistration
<1> DEFINE c == [call[t] EXCEPT !.pc = pc]
<1>2. Moves(t, c) /\ c.pc = pc
  BY <1>1, GotoMoves DEF LockRegistration, At
<1> HIDE DEF c
<1>3. call' \in [Binder -> Call] /\ AboutListeners'
  BY <1>2, MovesOK
<1>4. /\ mRegistrationLock' \in Thread \cup {NoOne}
      /\ \A u \in Binder :
           mRegistrationLock' = u <=> call'[u].pc \notin {"idle", "enter"}
  BY <1>2, RegistrationOK DEF LockRegistration
<1>5. LTypeOK'
  BY <1>3, <1>4 DEF LInv, LTypeOK, LockRegistration, callbacks, deaths
<1>6. ReportPending'
  <2>1. \A u \in Binder :
          call'[u].pc = "reevaluate" <=> call[u].pc = "reevaluate"
    BY <1>2, MovesOK DEF LockRegistration, At
  <2> QED BY <2>1 DEF LInv, ReportPending, LockRegistration
<1> QED BY <1>3, <1>5, <1>6
        DEF LInv, CallbacksInList, LockRegistration, callbacks

LEMMA UnlockRegistrationOK ==
  ASSUME LInv, NEW t \in Binder, UnlockRegistration(t)
  PROVE  LInv'
<1>1. Moves(t, Idle) /\ Idle.pc = "idle"
  BY DEF UnlockRegistration, Moves, Idle, Call
<1>2. call' \in [Binder -> Call] /\ AboutListeners'
  BY <1>1, MovesOK
<1>3. mRegistrationLock = t
  BY DEF LInv, LTypeOK, UnlockRegistration, At
<1>4. /\ mRegistrationLock' \in Thread \cup {NoOne}
      /\ \A u \in Binder :
           mRegistrationLock' = u <=> call'[u].pc \notin {"idle", "enter"}
  BY <1>1, <1>3, RegistrationOK DEF UnlockRegistration
<1>5. LTypeOK'
  BY <1>2, <1>4 DEF LInv, LTypeOK, UnlockRegistration, callbacks, deaths
<1>6. ReportPending'
  <2>1. \A u \in Binder :
          call'[u].pc = "reevaluate" <=> call[u].pc = "reevaluate"
    BY <1>1, MovesOK DEF UnlockRegistration, At
  <2> QED BY <2>1 DEF LInv, ReportPending, UnlockRegistration
<1> QED BY <1>2, <1>5, <1>6
        DEF LInv, CallbacksInList, UnlockRegistration, callbacks

\* The list is compared with what the core service knows while nobody else can
\* change it.
LEMMA AdvanceOK ==
  ASSUME LInv, NEW t \in Binder, Advance(t)
  PROVE  LInv'
<1>0. CASE ~At(t, "idle") /\ call[t].who \in Listener
  <2>1. CASE CheckDuplicate(t)
    <3>1. PICK pc \in {"add", "leave"} : Goto(t, pc)
      BY <2>1 DEF CheckDuplicate
    <3>2. LTypeOK'
      BY <2>1, <3>1, InsideOK
         DEF LInv, LTypeOK, CheckDuplicate, At, locks, callbacks, deaths
    <3>3. AboutListeners' /\ ReportPending'
      BY <2>1, <3>1, InsideOK
         DEF LInv, ReportPending, CheckDuplicate, At, locks
    <3> QED BY <2>1, <3>2, <3>3
            DEF LInv, CallbacksInList, CheckDuplicate, callbacks
  <2>2. CASE AddListener(t)
    <3>1. LTypeOK'
      BY <1>0, <2>2, InsideOK
         DEF LInv, LTypeOK, AddListener, At, locks, deaths
    <3>2. AboutListeners' /\ ReportPending'
      BY <2>2, InsideOK DEF LInv, ReportPending, AddListener, At, locks
    <3> QED BY <2>2, <3>1, <3>2 DEF LInv, CallbacksInList, AddListener
  <2>3. CASE RemoveListener(t)
    <3>1. LTypeOK'
      BY <2>3, InsideOK
         DEF LInv, LTypeOK, RemoveListener, At, locks, callbacks
    <3>2. AboutListeners' /\ ReportPending'
      BY <2>3, InsideOK DEF LInv, ReportPending, RemoveListener, At, locks
    <3>3. toNotify = {}
      BY <2>3, NoOneAssumption
         DEF LInv, LTypeOK, CallbacksInList, RemoveListener, Thread
    <3> QED BY <2>3, <3>1, <3>2, <3>3
            DEF LInv, CallbacksInList, RemoveListener, callbacks
  <2>4. CASE Reevaluate(t)
    <3>1. PICK pc \in {"link", "leave"} : Goto(t, pc)
      BY <2>4 DEF Reevaluate
    <3>2. LTypeOK'
      BY <2>4, <3>1, InsideOK
         DEF LInv, LTypeOK, Reevaluate, At, locks, callbacks, deaths
    <3>3. AboutListeners' /\ ReportPending'
      BY <2>4, <3>1, InsideOK DEF LInv, ReportPending, Reevaluate, At, locks
    <3> QED BY <2>4, <3>2, <3>3
            DEF LInv, CallbacksInList, Reevaluate, callbacks
  <2>5. CASE LinkToDeath(t)
    <3>1. LTypeOK'
      BY <1>0, <2>5, InsideOK
         DEF LInv, LTypeOK, LinkToDeath, At, locks, callbacks
    <3>2. AboutListeners' /\ ReportPending'
      BY <2>5, InsideOK DEF LInv, ReportPending, LinkToDeath, At, locks
    <3> QED BY <2>5, <3>1, <3>2
            DEF LInv, CallbacksInList, LinkToDeath, callbacks
  <2> QED BY <2>1, <2>2, <2>3, <2>4, <2>5, LockRegistrationOK,
             UnlockRegistrationOK DEF Advance
<1>1. ~At(t, "idle") /\ call[t].who \in Listener
  BY DEF Advance, LockRegistration, CheckDuplicate, AddListener,
     RemoveListener, Reevaluate, LinkToDeath, UnlockRegistration, At, LInv,
     AboutListeners
<1> QED BY <1>0, <1>1

-----------------------------------------------------------------------------
(* The other steps *)

LEMMA CallOK ==
  ASSUME LInv, NEW t \in Binder, NEW l \in Listener,
         CallRegister(t, l) \/ CallUnregister(t, l) \/ CallBinderDied(t, l)
  PROVE  LInv'
<1>1. dying \subseteq Listener /\ reported \subseteq Listener
  BY DEF LInv, LTypeOK
<1>2. CASE CallRegister(t, l)
  BY <1>1, <1>2, BeginOK DEF CallRegister, deaths
<1>3. CASE CallUnregister(t, l)
  BY <1>1, <1>3, BeginOK DEF CallUnregister, deaths
<1>4. CASE CallBinderDied(t, l)
  BY <1>1, <1>4, BeginOK DEF CallBinderDied
<1> QED BY <1>2, <1>3, <1>4

\* The work thread takes and gives up mCallbackLock and mLock alone.
LEMMA WorkOK ==
  ASSUME LInv,
         WorkStep \/ WorkWakes \/ WantNotify \/ WorkBlocks
  PROVE  LInv'
<1>1. UNCHANGED Others
  BY DEF WorkStep, BeginNotify, EndNotify, OnTimelineChanged, WorkWakes,
     WantNotify, WorkBlocks
<1>2. NoOne # Work /\ Work \in Thread
  BY NoOneAssumption DEF Thread
<1>3. /\ {mCallbackLock', mLock'} \subseteq Thread \cup {NoOne}
      /\ work' \in {"blocked", "running", "notifying", "calling"}
      /\ mCallbackLock' = Work <=> work' = "calling"
      /\ CallbacksInList'
      /\ toNotify' \subseteq Listener
  BY <1>1, <1>2
     DEF WorkStep, BeginNotify, EndNotify, OnTimelineChanged, WorkWakes,
         WantNotify, WorkBlocks, LInv, LTypeOK, CallbacksInList, Others
<1>4. LTypeOK'
  BY <1>1, <1>3 DEF LInv, LTypeOK, Others, deaths
<1> QED BY <1>1, <1>3, <1>4 DEF LInv, AboutListeners, ReportPending, Others

LEMMA DieOK ==
  ASSUME LInv, NEW l \in Listener, Die(l)
  PROVE  LInv'
BY DEF Die, LInv, LTypeOK, AboutListeners, ReportPending, CallbacksInList,
   locks, callbacks

LEMMA LStepPreserves == LInv /\ [LNext]_lvars => LInv'
<1> SUFFICES ASSUME LInv, [LNext]_lvars PROVE LInv'
  OBVIOUS
<1>1. CASE UNCHANGED lvars
  BY <1>1 DEF lvars, LInv, LTypeOK, AboutListeners, ReportPending,
     CallbacksInList
<1> QED BY <1>1, AdvanceOK, CallOK, WorkOK, DieOK DEF LNext

THEOREM ListenersInvariance == LSpec => []LInv
BY LInitOK, LStepPreserves, PTL DEF LSpec

-----------------------------------------------------------------------------
(* What LInv says of the service *)

\* However many threads register, unregister and report deaths, the core
\* service knows between two calls whether there are listeners
\* (reevaluateAutoDisableState).
THEOREM ClientsCounted == LSpec => []HasClientsAccurate
<1>1. LInv => HasClientsAccurate
  BY NoOneAssumption
     DEF LInv, LTypeOK, ReportPending, HasClientsAccurate, Thread
<1> QED BY <1>1, ListenersInvariance, PTL

\* However many listeners there are, none is called back once it has been
\* removed (notifyOnTimelineChanged).
THEOREM RemovedStaySilent == LSpec => []NoCallbackAfterRemoval
<1>1. LInv => NoCallbackAfterRemoval
  BY DEF LInv, CallbacksInList, NoCallbackAfterRemoval
<1> QED BY <1>1, ListenersInvariance, PTL
=============================================================================
