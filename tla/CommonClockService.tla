------------------------- MODULE CommonClockService -------------------------
(***************************************************************************)
(* The listeners of the common clock: the binder threads that register and *)
(* unregister them and report their deaths, and the work thread of the     *)
(* CommonTimeServer, which calls them back when the timeline changes.      *)
(*                                                                         *)
(* Three locks are involved.  mRegistrationLock serializes the binder      *)
(* threads, mCallbackLock is for the list of listeners, and mLock is the   *)
(* one of the CommonTimeServer, which the work thread holds while it runs. *)
(* A critical section in which no other lock is taken is one step.         *)
(***************************************************************************)
EXTENDS FiniteSets

CONSTANTS
  Listener,   \* the listeners, each in a process of its own
  Binder,     \* the threads of the binder pool
  NoOne       \* no thread, no listener

Work == "work thread"
Thread == Binder \cup {Work}

ASSUME NoOneAssumption == NoOne \notin Listener \cup Thread

VARIABLES
  mRegistrationLock, mCallbackLock, mLock,   \* who holds it
  mListeners,
  mCommonClockHasClients,
  call,      \* call[t]: what binder thread t is doing
  work,      \* what the work thread is doing
  toNotify,  \* the listeners the work thread has yet to call back
  alive,     \* the listeners whose process is alive
  linked,    \* the listeners whose death will be reported
  dying,     \* the deaths to be reported by a call of binderDied
  reported   \* the deaths that have been reported

locks == <<mRegistrationLock, mCallbackLock, mLock>>
callbacks == <<work, toNotify>>
deaths == <<alive, linked, dying, reported>>
lvars == <<mRegistrationLock, mCallbackLock, mLock, mListeners,
           mCommonClockHasClients, call, work, toNotify, alive, linked,
           dying, reported>>

\* pc: the next step of the call.
Call == [op: {"none", "register", "unregister", "binderDied"},
         who: Listener \cup {NoOne},
         pc: {"idle", "enter", "check", "add", "remove", "reevaluate", "link",
              "leave"}]
Idle == [op |-> "none", who |-> NoOne, pc |-> "idle"]

LInit ==
  /\ mRegistrationLock = NoOne /\ mCallbackLock = NoOne /\ mLock = NoOne
  /\ mListeners = {}
  /\ mCommonClockHasClients = FALSE
  /\ call = [t \in Binder |-> Idle]
  /\ work = "blocked"
  /\ toNotify = {}
  /\ alive = Listener
  /\ linked = {} /\ dying = {} /\ reported = {}

-----------------------------------------------------------------------------
(* Binder threads *)

At(t, pc) == call[t].pc = pc
Goto(t, pc) == call' = [call EXCEPT ![t].pc = pc]
Begin(t, op, l) == call' = [call EXCEPT ![t] = [op |-> op, who |-> l,
                                               pc |-> "enter"]]

\* A living process calls, once at a time per operation.
CallRegister(t, l) ==
  /\ At(t, "idle") /\ l \in alive
  /\ Begin(t, "register", l)
  /\ UNCHANGED <<locks, mListeners, mCommonClockHasClients, callbacks, deaths>>

CallUnregister(t, l) ==
  /\ At(t, "idle") /\ l \in alive
  /\ Begin(t, "unregister", l)
  /\ UNCHANGED <<locks, mListeners, mCommonClockHasClients, callbacks, deaths>>

CallBinderDied(t, l) ==
  /\ At(t, "idle") /\ l \in dying
  /\ Begin(t, "binderDied", l)
  /\ dying' = dying \ {l}
  /\ reported' = reported \cup {l}
  /\ UNCHANGED <<locks, mListeners, mCommonClockHasClients, callbacks, alive,
                 linked>>

\* Mutant: the calls are not serialized.
Bug_NoRegistrationLock(t) ==
  /\ At(t, "enter")
  /\ Goto(t, IF call[t].op = "register" THEN "check" ELSE "remove")
  /\ UNCHANGED <<locks, mListeners, mCommonClockHasClients, callbacks, deaths>>

LockRegistration(t) ==
  /\ At(t, "enter")
  /\ mRegistrationLock = NoOne
  /\ mRegistrationLock' = t
  /\ Goto(t, IF call[t].op = "register" THEN "check" ELSE "remove")
  /\ UNCHANGED <<mCallbackLock, mLock, mListeners, mCommonClockHasClients,
                 callbacks, deaths>>

\* Mutant: a duplicate returns without giving mRegistrationLock back.
Bug_ReturnLocked(t) ==
  /\ At(t, "check")
  /\ mCallbackLock = NoOne
  /\ IF call[t].who \in mListeners
     THEN call' = [call EXCEPT ![t] = Idle] ELSE Goto(t, "add")
  /\ UNCHANGED <<locks, mListeners, mCommonClockHasClients, callbacks, deaths>>

\* Under mCallbackLock: is the listener in the list already?
CheckDuplicate(t) ==
  /\ At(t, "check")
  /\ mCallbackLock = NoOne
  /\ Goto(t, IF call[t].who \in mListeners THEN "leave" ELSE "add")
  /\ UNCHANGED <<locks, mListeners, mCommonClockHasClients, callbacks, deaths>>

\* Under mRegistrationLock alone: when the work thread is walking the list, it
\* may or may not come across the new listener.
AddListener(t) ==
  /\ At(t, "add")
  /\ mListeners' = mListeners \cup {call[t].who}
  /\ toNotify' \in {toNotify} \cup (IF work = "calling"
                                     THEN {toNotify \cup {call[t].who}} ELSE {})
  /\ Goto(t, "reevaluate")
  /\ UNCHANGED <<locks, mCommonClockHasClients, work, deaths>>

\* Mutant: the list is changed while the work thread may be walking it.
Bug_RemoveUnlocked(t) ==
  /\ At(t, "remove")
  /\ mListeners' = mListeners \ {call[t].who}
  /\ linked' = linked \ {call[t].who}
  /\ Goto(t, "reevaluate")
  /\ UNCHANGED <<locks, mCommonClockHasClients, callbacks, alive, dying,
                 reported>>

\* Under mCallbackLock: unregisterListener also gives up the death report.
RemoveListener(t) ==
  /\ At(t, "remove")
  /\ mCallbackLock = NoOne
  /\ mListeners' = mListeners \ {call[t].who}
  /\ linked' = IF call[t].op = "unregister" /\ call[t].who \in mListeners
               THEN linked \ {call[t].who} ELSE linked
  /\ Goto(t, "reevaluate")
  /\ UNCHANGED <<locks, mCommonClockHasClients, callbacks, alive, dying,
                 reported>>

\* reevaluateAutoDisableState, under mLock.
Reevaluate(t) ==
  /\ At(t, "reevaluate")
  /\ mLock = NoOne
  /\ mCommonClockHasClients' = (mListeners # {})
  /\ Goto(t, IF call[t].op = "register" THEN "link" ELSE "leave")
  /\ UNCHANGED <<locks, mListeners, callbacks, deaths>>

\* linkToDeath: it fails for a process whose death has been reported, and
\* reports at once that of a process that died unnoticed.
LinkToDeath(t) ==
  LET l == call[t].who
  IN /\ At(t, "link")
     /\ linked' = IF l \in alive THEN linked \cup {l} ELSE linked
     /\ dying' = IF l \in alive \cup reported THEN dying ELSE dying \cup {l}
     /\ Goto(t, "leave")
     /\ UNCHANGED <<locks, mListeners, mCommonClockHasClients, callbacks,
                    alive, reported>>

UnlockRegistration(t) ==
  /\ At(t, "leave")
  /\ mRegistrationLock' = NoOne
  /\ call' = [call EXCEPT ![t] = Idle]
  /\ UNCHANGED <<mCallbackLock, mLock, mListeners, mCommonClockHasClients, callbacks, deaths>>

-----------------------------------------------------------------------------
(* The work thread *)

Others == <<mRegistrationLock, mListeners, mCommonClockHasClients, call,
            deaths>>

\* It returns from poll and takes mLock.
WorkWakes ==
  /\ work = "blocked" /\ mLock = NoOne
  /\ work' = "running" /\ mLock' = Work
  /\ UNCHANGED <<Others, mCallbackLock, toNotify>>

\* In notifyOnTimelineChanged it waits for mCallbackLock, and then calls the
\* listeners one by one.
WantNotify ==
  /\ work = "running"
  /\ work' = "notifying"
  /\ UNCHANGED <<Others, mCallbackLock, mLock, toNotify>>

BeginNotify ==
  /\ work = "notifying" /\ mCallbackLock = NoOne
  /\ work' = "calling" /\ mCallbackLock' = Work
  /\ toNotify' = mListeners
  /\ UNCHANGED <<Others, mLock>>

OnTimelineChanged(l) ==
  /\ work = "calling" /\ l \in toNotify
  /\ toNotify' = toNotify \ {l}
  /\ UNCHANGED <<Others, mCallbackLock, mLock, work>>

EndNotify ==
  /\ work = "calling" /\ toNotify = {}
  /\ work' = "running" /\ mCallbackLock' = NoOne
  /\ UNCHANGED <<Others, mLock, toNotify>>

\* It lets go of mLock and blocks in poll.
WorkBlocks ==
  /\ work = "running"
  /\ work' = "blocked" /\ mLock' = NoOne
  /\ UNCHANGED <<Others, mCallbackLock, toNotify>>

\* A listener's process dies.
Die(l) ==
  /\ l \in alive
  /\ alive' = alive \ {l}
  /\ linked' = linked \ {l}
  /\ dying' = IF l \in linked THEN dying \cup {l} ELSE dying
  /\ UNCHANGED <<locks, mListeners, mCommonClockHasClients, call, callbacks,
                 reported>>

-----------------------------------------------------------------------------
Advance(t) ==
  \/ LockRegistration(t) \/ CheckDuplicate(t) \/ AddListener(t)
  \/ RemoveListener(t) \/ Reevaluate(t) \/ LinkToDeath(t)
  \/ UnlockRegistration(t)

WorkStep ==
  BeginNotify \/ EndNotify \/ \E l \in Listener : OnTimelineChanged(l)

LNext ==
  \/ \E t \in Binder :
       \/ Advance(t)
       \/ \E l \in Listener :
            CallRegister(t, l) \/ CallUnregister(t, l) \/ CallBinderDied(t, l)
  \/ WorkStep \/ WorkWakes \/ WantNotify \/ WorkBlocks
  \/ \E l \in Listener : Die(l)

LSpec == LInit /\ [][LNext]_lvars

\* Every thread is scheduled and a waiting thread gets its lock in the end;
\* callbacks return, and every pass of the work thread ends in poll.
LFairness ==
  /\ \A t \in Binder : SF_lvars(Advance(t))
  /\ SF_lvars(WorkStep)
  /\ SF_lvars(WorkBlocks)

FairLSpec == LSpec /\ LFairness

-----------------------------------------------------------------------------
(* Properties *)

\* Besides, a thread inside a registration call, and no other, holds
\* mRegistrationLock, and only a work thread calling back holds mCallbackLock.
LTypeOK ==
  /\ {mRegistrationLock, mCallbackLock, mLock} \subseteq Thread \cup {NoOne}
  /\ mListeners \subseteq Listener
  /\ mCommonClockHasClients \in BOOLEAN
  /\ call \in [Binder -> Call]
  /\ work \in {"blocked", "running", "notifying", "calling"}
  /\ {toNotify, alive, linked, dying, reported} \subseteq SUBSET Listener
  /\ \A t \in Binder :
       mRegistrationLock = t <=> call[t].pc \notin {"idle", "enter"}
  /\ mCallbackLock = Work <=> work = "calling"

\* Between two registration calls the core service knows whether there are
\* listeners, however those calls interleave: auto-disable rests on it.
HasClientsAccurate ==
  mRegistrationLock = NoOne => mCommonClockHasClients = (mListeners # {})

\* A listener is called back only while it is in the list: not once
\* unregisterListener or binderDied has removed it.
NoCallbackAfterRemoval == toNotify \subseteq mListeners

\* Every call returns: the order of the three locks admits no deadlock
\* between a registration and a callback.
CallsReturn == \A t \in Binder : call[t].pc # "idle" ~> call[t].pc = "idle"
=============================================================================
