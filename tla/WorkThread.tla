----------------------------- MODULE WorkThread -----------------------------
(***************************************************************************)
(* The work thread of one CommonTimeServer and the threads that call its   *)
(* configuration API.  The work thread holds mLock except while it blocks  *)
(* in poll; an API call changes the configuration under mLock and, if the  *)
(* thread must react, signals it through an eventfd.                       *)
(*                                                                         *)
(* The rest of the network is an environment that sends any packet a peer  *)
(* could send.  The eventfd is a flag: is there anything to read?          *)
(***************************************************************************)
EXTENDS TimeServerHandlers

CONSTANTS
  mDeviceID,  \* the device whose work thread this is
  Api         \* the API calls this instance makes

ApiCall == {"setInterfaceBinding", "setMasterElectionEndpoint",
            "setAutoDisable", "reevaluateAutoDisableState",
            "setMasterAnnounceInterval", "setClientSyncInterval",
            "forceNetworklessMasterMode", "shutdownThread"}

ASSUME SelfAssumption == mDeviceID \in Device
ASSUME ApiAssumption == Api \subseteq ApiCall

VARIABLES
  srv,          \* the state of the CommonTimeServer
  mBindIfaceValid, mBindIfaceDirty,
  mAutoDisable, mCommonClockHasClients,
  wakeupFD,     \* can mWakeupThreadFD be read?
  poll,         \* the work thread's loop, see Poll
  exitPending,  \* has requestExit been called?
  stopper       \* how far shutdownThread has got

config == <<mBindIfaceValid, mBindIfaceDirty, mAutoDisable,
            mCommonClockHasClients>>
wvars == <<srv, mBindIfaceValid, mBindIfaceDirty, mAutoDisable,
           mCommonClockHasClients, wakeupFD, poll, exitPending, stopper>>

\* at: at the top of the loop, blocked in poll, returned from it, or gone.
\* timeout and socket: is the timeout poll was called with finite, was the
\* socket among its descriptors?  Then what poll reported: rc = 0, POLLIN on
\* the eventfd, POLLIN on the socket.
Poll == [at: {"top", "blocked", "returned", "exited"},
         timeout: BOOLEAN, socket: BOOLEAN,
         timedOut: BOOLEAN, woken: BOOLEAN, packet: BOOLEAN]

shouldAutoDisable == mAutoDisable /\ ~mCommonClockHasClients

\* The ID that assignTimelineID draws, one that no peer uses yet.
freshTimelineID == mDeviceID

\* What a peer may send: of its own timeline or of the one it learnt here,
\* with the high bit of its priority set or not.
Peer == Device \ {mDeviceID}
PeerPriority == Priority \cup {prio + 128 : prio \in Priority}
FromPeer(types, timelines, prios, nak, times) ==
  [packetType: types, timelineID: timelines, deviceID: Peer,
   devicePriority: prios, nak: {nak}, time: times, to: {{mDeviceID}}]

PeerPacket ==
  LET none == {kInvalidTimelineID}
  IN FromPeer({"WHO_IS_MASTER_REQUEST"}, none, PeerPriority, FALSE, none)
     \cup FromPeer({"WHO_IS_MASTER_RESPONSE", "MASTER_ANNOUNCEMENT"}, Device,
                   PeerPriority, FALSE, none)
     \cup FromPeer({"SYNC_REQUEST"}, Device, {0}, FALSE, none)
     \cup FromPeer({"SYNC_RESPONSE"}, Device, {0}, TRUE, none)
     \cup {p \in FromPeer({"SYNC_RESPONSE"}, Device, {0}, FALSE, Device) :
             p.time = p.timelineID}

-----------------------------------------------------------------------------
(* The work thread *)

WInit ==
  /\ srv \in {Fresh(prio) : prio \in Priority}
  /\ mBindIfaceValid = FALSE
  /\ mBindIfaceDirty \in BOOLEAN    \* the constructor leaves it uninitialized
  /\ mAutoDisable = TRUE
  /\ mCommonClockHasClients = FALSE
  /\ wakeupFD = FALSE
  /\ poll = [at |-> "top", timeout |-> FALSE, socket |-> FALSE,
             timedOut |-> FALSE, woken |-> FALSE, packet |-> FALSE]
  /\ exitPending = FALSE
  /\ stopper = "none"

\* Compute the timeout, release mLock and block.
EnterPoll ==
  /\ poll.at = "top"
  /\ ~exitPending
  /\ poll' = [poll EXCEPT !.at = "blocked", !.timeout = srv.mCurTimeout,
                          !.socket = srv.mSocket]
  /\ UNCHANGED <<srv, config, wakeupFD, exitPending, stopper>>

Return(timedOut, woken, packet) ==
  /\ poll.at = "blocked"
  /\ poll' = [poll EXCEPT !.at = "returned", !.timedOut = timedOut,
                          !.woken = woken, !.packet = packet]
  /\ UNCHANGED <<srv, config, wakeupFD, exitPending, stopper>>

PollWoken ==
  /\ wakeupFD
  /\ \E packet \in {FALSE, poll.socket} : Return(FALSE, TRUE, packet)

PollPacket == poll.socket /\ ~wakeupFD /\ Return(FALSE, FALSE, TRUE)

\* poll's timeout is the earlier of mCurTimeout and the next slew change.
PollTimeout == poll.timeout /\ ~wakeupFD /\ Return(TRUE, FALSE, FALSE)
PollSlew == ~wakeupFD /\ Return(TRUE, FALSE, FALSE)

\* Mutant: the socket is left open.
Bug_LeaveSocketOpen ==
  /\ exitPending
  /\ poll.at \in {"top", "returned"}
  /\ poll' = [poll EXCEPT !.at = "exited"]
  /\ UNCHANGED <<srv, config, wakeupFD, exitPending, stopper>>

\* Leave the loop; runStateMachine_l closes the socket.
Exit ==
  /\ exitPending
  /\ poll.at \in {"top", "returned"}
  /\ poll' = [poll EXCEPT !.at = "exited"]
  /\ srv' = [srv EXCEPT !.mSocket = FALSE]
  /\ UNCHANGED <<config, wakeupFD, exitPending, stopper>>

\* What the thread does first when it has mLock back.  due: poll timed out and
\* mCurTimeout has expired, which clears it.
Expired == IF poll.timedOut /\ srv.mCurTimeout THEN BOOLEAN ELSE {FALSE}

\* Mutant: auto-disable only keeps a socket from being built.
Bug_DropWhenDirty == mBindIfaceDirty

dropsSocket == mBindIfaceDirty \/ (srv.mSocket /\ shouldAutoDisable)
AfterDrop(due) ==
  [srv EXCEPT !.mCurTimeout = @ /\ ~due, !.mSocket = @ /\ ~dropsSocket]
needsSocket ==
  (~srv.mSocket \/ dropsSocket) /\ mBindIfaceValid /\ ~shouldAutoDisable

\* One pass through the loop, which ends in the state s.
Pass(s) ==
  /\ poll.at = "returned"
  /\ ~exitPending
  /\ srv' = s
  /\ poll' = [poll EXCEPT !.at = "top"]
  /\ wakeupFD' = (wakeupFD /\ ~poll.woken)
  /\ mBindIfaceDirty' = FALSE
  /\ UNCHANGED <<mBindIfaceValid, mAutoDisable, mCommonClockHasClients,
                 exitPending, stopper>>

SetupSocket ==
  /\ needsSocket
  /\ \E due \in Expired : Pass(bindInterface(mDeviceID, AfterDrop(due)).srv)

SetupSocketFails ==
  /\ needsSocket
  /\ \E due \in Expired : Pass(bindFails(AfterDrop(due)))

GoNetworkless ==
  /\ ~needsSocket /\ dropsSocket
  /\ \E due \in Expired :
       Pass(leaveNetwork(mDeviceID, AfterDrop(due), freshTimelineID).srv)

TakeTimeout ==
  /\ ~needsSocket /\ ~dropsSocket
  /\ TRUE \in Expired
  /\ \E noGoodData \in {FALSE, srv.mState = "CLIENT"} :
       Pass(handleTimeout(mDeviceID, srv, freshTimelineID, noGoodData).srv)

TakePacket ==
  /\ ~needsSocket /\ ~dropsSocket
  /\ poll.packet /\ srv.mSocket
  /\ \E p \in PeerPacket, outcome \in {"good", "late", "no_good_data", "panic"} :
       /\ outcome = "panic" => isValid(srv)
       /\ Pass(handlePacket(mDeviceID, srv, p, outcome, 1).srv)

NothingToDo ==
  /\ ~needsSocket /\ ~dropsSocket
  /\ ~(poll.packet /\ srv.mSocket)
  /\ Pass(srv)

Loop == \/ EnterPoll \/ PollWoken \/ PollPacket \/ PollTimeout \/ PollSlew
        \/ Exit \/ SetupSocket \/ SetupSocketFails \/ GoNetworkless
        \/ TakeTimeout \/ TakePacket \/ NothingToDo

-----------------------------------------------------------------------------
(* The API, called from binder threads *)

\* The caller holds mLock: the work thread is blocked, or waits for mLock.
Call(name) == name \in Api /\ poll.at \in {"blocked", "returned"}

KeepThread == UNCHANGED <<poll, exitPending, stopper>>

\* Mutant: the work thread is not woken.
Bug_ConfigureQuietly ==
  /\ Call("setInterfaceBinding")
  /\ mBindIfaceValid' \in BOOLEAN
  /\ mBindIfaceDirty' = TRUE
  /\ UNCHANGED <<srv, mAutoDisable, mCommonClockHasClients, wakeupFD>>
  /\ KeepThread

setInterfaceBinding ==
  /\ Call("setInterfaceBinding")
  /\ mBindIfaceValid' \in BOOLEAN
  /\ mBindIfaceDirty' = TRUE
  /\ wakeupFD' = TRUE
  /\ UNCHANGED <<srv, mAutoDisable, mCommonClockHasClients>>
  /\ KeepThread

setMasterElectionEndpoint ==
  /\ Call("setMasterElectionEndpoint")
  /\ mBindIfaceDirty' = TRUE
  /\ wakeupFD' = TRUE
  /\ UNCHANGED <<srv, mBindIfaceValid, mAutoDisable, mCommonClockHasClients>>
  /\ KeepThread

setAutoDisable ==
  /\ Call("setAutoDisable")
  /\ mAutoDisable' \in BOOLEAN
  /\ wakeupFD' = TRUE
  /\ UNCHANGED <<srv, mBindIfaceValid, mBindIfaceDirty,
                 mCommonClockHasClients>>
  /\ KeepThread

\* Called by CommonClockService when its list of listeners has changed.
reevaluateAutoDisableState ==
  /\ Call("reevaluateAutoDisableState")
  /\ mCommonClockHasClients' \in BOOLEAN
  /\ wakeupFD' = \/ wakeupFD
                 \/ /\ mAutoDisable
                    /\ srv.mMasterEP # NoDevice
                    /\ mCommonClockHasClients' # mCommonClockHasClients
  /\ UNCHANGED <<srv, mBindIfaceValid, mBindIfaceDirty, mAutoDisable>>
  /\ KeepThread

\* A new interval replaces a pending timeout that is infinite or longer.
Reschedule(state) ==
  /\ srv.mState = state
  /\ srv' = [srv EXCEPT !.mCurTimeout = TRUE]
  /\ wakeupFD' = TRUE
  /\ UNCHANGED config
  /\ KeepThread

setMasterAnnounceInterval ==
  Call("setMasterAnnounceInterval") /\ Reschedule("MASTER")

setClientSyncInterval ==
  Call("setClientSyncInterval") /\ Reschedule("CLIENT")

forceNetworklessMasterMode ==
  /\ Call("forceNetworklessMasterMode")
  /\ ~srv.mSocket
  /\ srv' = becomeMaster(mDeviceID, srv, freshTimelineID).srv
  /\ UNCHANGED <<config, wakeupFD>>
  /\ KeepThread

\* shutdownThread: requestExit needs no mLock; then the thread is woken, and
\* then joined.
RequestExit ==
  /\ "shutdownThread" \in Api
  /\ stopper = "none"
  /\ stopper' = "requested"
  /\ exitPending' = TRUE
  /\ UNCHANGED <<srv, config, wakeupFD, poll>>

\* Mutant: the work thread is not woken.
Bug_JoinQuietly ==
  /\ stopper = "requested"
  /\ poll.at # "top"
  /\ stopper' = "joining"
  /\ UNCHANGED <<srv, config, wakeupFD, poll, exitPending>>

WakeForExit ==
  /\ stopper = "requested"
  /\ poll.at # "top"
  /\ stopper' = "joining"
  /\ wakeupFD' = TRUE
  /\ UNCHANGED <<srv, config, poll, exitPending>>

Join ==
  /\ stopper = "joining"
  /\ poll.at = "exited"
  /\ stopper' = "done"
  /\ UNCHANGED <<srv, config, wakeupFD, poll, exitPending>>

CallApi ==
  \/ setInterfaceBinding \/ setMasterElectionEndpoint \/ setAutoDisable
  \/ reevaluateAutoDisableState \/ setMasterAnnounceInterval
  \/ setClientSyncInterval \/ forceNetworklessMasterMode \/ RequestExit

WNext == Loop \/ CallApi \/ WakeForExit \/ Join

WSpec == WInit /\ [][WNext]_wvars

\* The work thread and the caller of shutdownThread are scheduled; time passes,
\* so that a finite poll returns and a timeout that is waited for again and
\* again expires; an interface that is there can in the end be bound to.
WFairness ==
  /\ WF_wvars(EnterPoll \/ PollWoken \/ PollTimeout \/ Exit)
  /\ WF_wvars(SetupSocket \/ SetupSocketFails \/ GoNetworkless
                \/ TakeTimeout \/ TakePacket \/ NothingToDo)
  /\ SF_wvars(SetupSocket)
  /\ SF_wvars(TakeTimeout)
  /\ WF_wvars(WakeForExit)
  /\ WF_wvars(Join)

FairWSpec == WSpec /\ WFairness

-----------------------------------------------------------------------------
(* Properties *)

\* Whatever is called while the thread blocks, with a timeout and descriptors
\* it chose before, no request is lost: when nothing is going to wake it, no
\* changed binding awaits it, it waits for the timeout that is scheduled now,
\* and as a member of a network it waits for packets and for a timeout.
NoLostWakeup ==
  poll.at = "blocked" /\ ~wakeupFD =>
    /\ mBindIfaceDirty => ~mBindIfaceValid /\ ~srv.mSocket
    /\ srv.mCurTimeout => poll.timeout
    /\ srv.mSocket => poll.timeout /\ poll.socket /\ mBindIfaceValid

\* When shutdownThread returns, the thread is gone and its socket is closed.
CleanShutdown == stopper = "done" => poll.at = "exited" /\ ~srv.mSocket

\* shutdownThread returns.
ShutdownCompletes == stopper = "requested" ~> stopper = "done"

\* A changed interface or endpoint takes effect.  (With neither interface nor
\* socket there is nothing to change, and the flag may be left from the start.)
ConfigTakesEffect ==
  (mBindIfaceDirty /\ (mBindIfaceValid \/ srv.mSocket))
    ~> (~mBindIfaceDirty \/ exitPending)

\* Auto-disable engages: a device without clients leaves the network, even
\* if it was neither client nor woken when its last client left.
AutoDisableEngages ==
  (srv.mSocket /\ shouldAutoDisable)
    ~> (~srv.mSocket \/ ~shouldAutoDisable \/ exitPending)

\* A device with a valid interface, which auto-disable does not keep off the
\* network, joins it, however often setting up the socket fails: the retry of
\* a failed attempt survives whatever else happens.
RetriesUntilBound ==
  (~srv.mSocket /\ mBindIfaceValid /\ ~shouldAutoDisable /\ srv.mCurTimeout)
    ~> (srv.mSocket \/ ~mBindIfaceValid \/ shouldAutoDisable \/ exitPending)

-----------------------------------------------------------------------------
(* What the comments of the code say, and the code does not do *)

\* A device with a valid interface and active clients, or without auto-disable,
\* joins the network.
JoinsNetwork ==
  (~srv.mSocket /\ mBindIfaceValid /\ ~shouldAutoDisable)
    ~> (srv.mSocket \/ ~mBindIfaceValid \/ shouldAutoDisable \/ exitPending)
=============================================================================
