-------------------------- MODULE WorkThread_proofs --------------------------
(***************************************************************************)
(* Proofs about WorkThread for any number of peers and of retries: the     *)
(* state of the device is as consistent as that of every CommonTimeServer, *)
(* and what the work thread does not know of the configuration, a byte in  *)
(* the eventfd will tell it.                                               *)
(***************************************************************************)
EXTENDS WorkThread, TimeServerHandlers_proofs

-----------------------------------------------------------------------------
(* The inductive invariant *)

\* There is nothing for the work thread to do about its socket.
Settled == mBindIfaceDirty => ~mBindIfaceValid /\ ~srv.mSocket

\* Only a change of the binding that has not been looked at yet takes the
\* interface from under a socket.
SocketOnInterface == srv.mSocket => mBindIfaceValid \/ mBindIfaceDirty

\* A blocked thread that nobody is about to wake waits for all it has to wait
\* for.
Waiting ==
  /\ Settled
  /\ srv.mCurTimeout => poll.timeout
  /\ srv.mSocket => poll.socket

WInv ==
  /\ DeviceOK(mDeviceID, srv) /\ Awake(srv)
  /\ {mBindIfaceValid, mBindIfaceDirty, mAutoDisable, mCommonClockHasClients,
      wakeupFD} \subseteq BOOLEAN
  /\ poll \in Poll
  /\ SocketOnInterface
  /\ poll.at = "top" => Settled
  /\ poll.at = "blocked" /\ ~wakeupFD => Waiting
  /\ poll.at = "exited" => ~srv.mSocket
  /\ stopper = "done" => poll.at = "exited"

LEMMA FreshTimelineID ==
  /\ mDeviceID \in Device
  /\ freshTimelineID \in TimelineID /\ freshTimelineID # kInvalidTimelineID
BY SelfAssumption, DeviceAssumption
   DEF freshTimelineID, TimelineID, kInvalidTimelineID

LEMMA WInitOK == WInit => WInv
<1> SUFFICES ASSUME WInit PROVE WInv
  OBVIOUS
<1>1. PICK prio \in Priority : srv = Fresh(prio)
  BY DEF WInit
<1>2. prio \in ConfiguredPriority
  BY PriorityAssumption DEF ConfiguredPriority
<1>3. DeviceOK(mDeviceID, srv) /\ Awake(srv)
  BY <1>1, <1>2, SelfAssumption, FreshOK
<1>4. ~srv.mSocket
  BY <1>1 DEF Fresh
<1>5. poll \in Poll /\ poll.at = "top"
  BY DEF WInit, Poll
<1> QED BY <1>3, <1>4, <1>5 DEF WInit, WInv, SocketOnInterface, Settled

-----------------------------------------------------------------------------
(* The loop *)

LEMMA PollOK ==
  ASSUME WInv,
         EnterPoll \/ PollWoken \/ PollPacket \/ PollTimeout \/ PollSlew \/ Exit
  PROVE  WInv'
<1> USE DEF WInv
<1>1. CASE EnterPoll
  <2>1. poll' \in Poll /\ poll'.at = "blocked"
        /\ poll'.timeout = srv.mCurTimeout /\ poll'.socket = srv.mSocket
    BY <1>1 DEF EnterPoll, Poll, DeviceOK, Server
  <2> QED BY <1>1, <2>1
          DEF EnterPoll, config, SocketOnInterface, Settled, Waiting
<1>2. ASSUME NEW t \in BOOLEAN, NEW w \in BOOLEAN, NEW p \in BOOLEAN,
             Return(t, w, p)
      PROVE  WInv'
  <2>1. poll' \in Poll /\ poll'.at = "returned" /\ poll.at = "blocked"
    BY <1>2 DEF Return, Poll
  <2> QED BY <1>2, <2>1 DEF Return, config, SocketOnInterface, Settled
<1>3. CASE PollWoken \/ PollPacket \/ PollTimeout \/ PollSlew
  <2>1. poll.socket \in BOOLEAN
    BY DEF Poll
  <2> QED BY <1>2, <1>3, <2>1 DEF PollWoken, PollPacket, PollTimeout, PollSlew
<1>4. CASE Exit
  <2>1. poll' \in Poll /\ poll'.at = "exited"
    BY <1>4 DEF Exit, Poll
  <2>2. srv' \in Server /\ ~srv'.mSocket
    BY <1>4 DEF Exit, DeviceOK, Server
  <2>3. DeviceOK(mDeviceID, srv') /\ Awake(srv')
    BY <1>4 DEF Exit, DeviceOK, Server, Role, Time, CanServe, Awake
  <2> QED BY <1>4, <2>1, <2>2, <2>3 DEF Exit, config, SocketOnInterface
<1> QED BY <1>1, <1>3, <1>4

\* A pass through the loop that leaves no socket without its interface.
LEMMA PassOK ==
  ASSUME WInv, NEW s, Pass(s), DeviceOK(mDeviceID, s), Awake(s),
         s.mSocket => mBindIfaceValid
  PROVE  WInv'
<1>1. poll' \in Poll /\ poll'.at = "top" /\ poll.at = "returned"
  BY DEF Pass, WInv, Poll
<1>2. {mBindIfaceValid', mBindIfaceDirty', mAutoDisable',
       mCommonClockHasClients', wakeupFD'} \subseteq BOOLEAN
  BY DEF Pass, WInv
<1> QED BY <1>1, <1>2 DEF Pass, WInv, SocketOnInterface, Settled

LEMMA AfterDropOK ==
  ASSUME WInv, NEW due \in BOOLEAN
  PROVE  DeviceOK(mDeviceID, AfterDrop(due))
<1>1. srv.mCurTimeout \in BOOLEAN /\ srv.mSocket \in BOOLEAN
  BY DEF WInv, DeviceOK, Server
<1>2. DEFINE c == srv.mCurTimeout /\ ~due
             k == srv.mSocket /\ ~dropsSocket
<1>3. c \in BOOLEAN /\ k \in BOOLEAN /\ (k => srv.mSocket)
  OBVIOUS
<1>4. AfterDrop(due) = [srv EXCEPT !.mCurTimeout = c, !.mSocket = k]
  BY DEF AfterDrop
<1> HIDE DEF c, k
<1> QED BY <1>3, <1>4 DEF WInv, DeviceOK, Server, Role, Time, CanServe

\* The transitions of a device without socket build none.
LEMMA NoSocketBuilt ==
  ASSUME NEW d \in Device, NEW s \in Server, ~s.mSocket,
         NEW fresh \in TimelineID
  PROVE  /\ ~becomeInitial(d, s).srv.mSocket
         /\ ~becomeMaster(d, s, fresh).srv.mSocket
<1>1. ~becomeInitial(d, s).srv.mSocket
  BY DEF becomeInitial, sendWhoIsMasterRequest, resetSyncStats, resetPosition,
     Quiet, Result, Server
<1>2. ~becomeMaster(d, s, fresh).srv.mSocket
  BY DEF becomeMaster, sendMasterAnnouncement, createTimeline, notifyClockSync,
     resetSyncStats, Quiet, Result, Server
<1> QED BY <1>1, <1>2

LEMMA LeaveNetworkClosed ==
  ASSUME NEW s \in Server
  PROVE  ~leaveNetwork(mDeviceID, s, freshTimelineID).srv.mSocket
<1> DEFINE t == [s EXCEPT !.mSocket = FALSE]
<1>1. t \in Server /\ ~t.mSocket
  BY DEF Server
<1>2. leaveNetwork(mDeviceID, s, freshTimelineID) \in
        {Quiet(mDeviceID, t), becomeInitial(mDeviceID, t),
         becomeMaster(mDeviceID, t, freshTimelineID)}
  <2> HIDE DEF t
  <2> QED BY DEF leaveNetwork, t
<1> HIDE DEF t
<1>3. Quiet(mDeviceID, t).srv = t
  BY DEF Quiet, Result
<1> QED BY <1>1, <1>2, <1>3, FreshTimelineID, NoSocketBuilt

LEMMA PeerPackets ==
  ASSUME NEW p \in PeerPacket
  PROVE  /\ p \in Packet
         /\ p.deviceID # mDeviceID
         /\ p.packetType \in {"WHO_IS_MASTER_RESPONSE", "MASTER_ANNOUNCEMENT"}
              => p.timelineID # kInvalidTimelineID
<1>1. /\ PeerPriority \subseteq DevicePriority /\ 0 \in DevicePriority
  <2>1. \A prio \in Priority : prio \in 0..255 /\ prio + 128 \in 0..255
    BY PriorityAssumption
  <2>2. {prio + 128 : prio \in Priority} \subseteq 0..255
    BY <2>1
  <2> QED BY <2>1, <2>2 DEF PeerPriority, DevicePriority
<1>2. /\ \A d \in Device : d \in TimelineID /\ d # kInvalidTimelineID
      /\ kInvalidTimelineID \in TimelineID
  BY DeviceAssumption DEF TimelineID, kInvalidTimelineID
<1>3. Peer \subseteq Device /\ {mDeviceID} \in SUBSET Device /\ mDeviceID \notin Peer
  BY SelfAssumption DEF Peer
<1>4. /\ p.packetType \in PacketType
      /\ p = [packetType |-> p.packetType, timelineID |-> p.timelineID,
              deviceID |-> p.deviceID, devicePriority |-> p.devicePriority,
              nak |-> p.nak, time |-> p.time, to |-> p.to]
      /\ p.deviceID \in Peer /\ p.nak \in BOOLEAN /\ p.to = {mDeviceID}
      /\ p.timelineID \in Device \cup {kInvalidTimelineID}
      /\ p.time \in Device \cup {kInvalidTimelineID}
      /\ p.devicePriority \in PeerPriority \cup {0}
      /\ p.packetType \in {"WHO_IS_MASTER_RESPONSE", "MASTER_ANNOUNCEMENT"}
           => p.timelineID \in Device
  BY DEF PeerPacket, FromPeer, PacketType
<1>5. p \in Packet
  BY <1>1, <1>2, <1>3, <1>4 DEF Packet
<1> QED BY <1>2, <1>3, <1>4, <1>5

LEMMA HandlePacketOK ==
  ASSUME WInv, NEW p \in PeerPacket,
         NEW outcome \in {"good", "late", "no_good_data", "panic"}
  PROVE  LET s == handlePacket(mDeviceID, srv, p, outcome, 1).srv
         IN DeviceOK(mDeviceID, s) /\ Awake(s)
<1> DEFINE res == handlePacket(mDeviceID, srv, p, outcome, 1)
<1>1. p.packetType \in PacketType
  BY PeerPackets DEF Packet
<1>2. 1 \in 1..kStartupFilterSize /\ mDeviceID \in Device
  BY RetryAssumption, SelfAssumption
<1>3. DeviceOK(mDeviceID, srv) /\ Awake(srv)
  BY DEF WInv
<1>4. ResultOK(mDeviceID, res)
  BY <1>1, <1>2, <1>3, PeerPackets, WhoIsMasterRequestOK,
     WhoIsMasterResponseOK, MasterAnnouncementOK, SyncRequestOK, SyncResponseOK
     DEF handlePacket, PacketType
<1> QED BY <1>4 DEF ResultOK

LEMMA LoopOK ==
  ASSUME WInv, Loop
  PROVE  WInv'
<1>0. /\ DeviceOK(mDeviceID, srv) /\ Awake(srv) /\ srv \in Server
      /\ mDeviceID \in Device /\ SocketOnInterface
      /\ srv.mSocket \in BOOLEAN /\ mBindIfaceDirty \in BOOLEAN
      /\ \A due \in Expired : due \in BOOLEAN
  BY SelfAssumption DEF WInv, DeviceOK, Server, Expired
<1>1. CASE SetupSocket
  <2> PICK due \in Expired : Pass(bindInterface(mDeviceID, AfterDrop(due)).srv)
    BY <1>1 DEF SetupSocket
  <2>1. ResultOK(mDeviceID, bindInterface(mDeviceID, AfterDrop(due)))
    BY <1>0, AfterDropOK, BindInterfaceOK
  <2>2. mBindIfaceValid
    BY <1>1 DEF SetupSocket, needsSocket
  <2> QED BY <2>1, <2>2, PassOK DEF ResultOK
<1>2. CASE SetupSocketFails
  <2> PICK due \in Expired : Pass(bindFails(AfterDrop(due)))
    BY <1>2 DEF SetupSocketFails
  <2>1. /\ DeviceOK(mDeviceID, bindFails(AfterDrop(due)))
        /\ Awake(bindFails(AfterDrop(due)))
    BY <1>0, AfterDropOK, BindFailsOK
  <2>2. mBindIfaceValid
    BY <1>2 DEF SetupSocketFails, needsSocket
  <2> QED BY <2>1, <2>2, PassOK
<1>3. CASE GoNetworkless
  <2> PICK due \in Expired :
        Pass(leaveNetwork(mDeviceID, AfterDrop(due), freshTimelineID).srv)
    BY <1>3 DEF GoNetworkless
  <2>1. DeviceOK(mDeviceID, AfterDrop(due)) /\ AfterDrop(due) \in Server
    BY <1>0, AfterDropOK DEF DeviceOK
  <2>2. ResultOK(mDeviceID,
                 leaveNetwork(mDeviceID, AfterDrop(due), freshTimelineID))
    BY <1>0, <2>1, FreshTimelineID, LeaveNetworkOK
  <2>3. ~leaveNetwork(mDeviceID, AfterDrop(due), freshTimelineID).srv.mSocket
    BY <2>1, LeaveNetworkClosed
  <2> QED BY <2>2, <2>3, PassOK DEF ResultOK
<1>4. CASE TakeTimeout
  <2> PICK noGoodData \in BOOLEAN :
        Pass(handleTimeout(mDeviceID, srv, freshTimelineID, noGoodData).srv)
    BY <1>4 DEF TakeTimeout
  <2>1. ResultOK(mDeviceID,
                 handleTimeout(mDeviceID, srv, freshTimelineID, noGoodData))
    BY <1>0, FreshTimelineID, TimeoutOK
  <2>2. srv.mSocket => mBindIfaceValid
    BY <1>0, <1>4 DEF TakeTimeout, dropsSocket, SocketOnInterface
  <2>3. CASE ~srv.mSocket
    <3>1. ~handleTimeout(mDeviceID, srv, freshTimelineID,
                         noGoodData).srv.mSocket
      BY <1>0, <2>3 DEF handleTimeout, Quiet, Result, Server
    <3> QED BY <2>1, <3>1, PassOK DEF ResultOK
  <2>4. CASE srv.mSocket
    BY <2>1, <2>2, <2>4, PassOK DEF ResultOK
  <2> QED BY <2>3, <2>4
<1>5. CASE TakePacket
  <2> PICK p \in PeerPacket,
           outcome \in {"good", "late", "no_good_data", "panic"} :
        Pass(handlePacket(mDeviceID, srv, p, outcome, 1).srv)
    BY <1>5 DEF TakePacket
  <2>1. mBindIfaceValid
    BY <1>0, <1>5 DEF TakePacket, dropsSocket, SocketOnInterface
  <2> QED BY <2>1, HandlePacketOK, PassOK
<1>6. CASE NothingToDo
  <2>1. srv.mSocket => mBindIfaceValid
    BY <1>0, <1>6 DEF NothingToDo, dropsSocket, SocketOnInterface
  <2> QED BY <1>0, <1>6, <2>1, PassOK DEF NothingToDo
<1> QED BY <1>1, <1>2, <1>3, <1>4, <1>5, <1>6, PollOK DEF Loop

-----------------------------------------------------------------------------
(* The API *)

\* A call that changes the configuration and wakes the thread.
LEMMA WakingCallOK ==
  ASSUME WInv, poll.at \in {"blocked", "returned"}, wakeupFD', KeepThread,
         DeviceOK(mDeviceID, srv'), Awake(srv'), SocketOnInterface',
         {mBindIfaceValid', mBindIfaceDirty', mAutoDisable',
          mCommonClockHasClients', wakeupFD'} \subseteq BOOLEAN
  PROVE  WInv'
BY DEF WInv, KeepThread

LEMMA CallApiOK ==
  ASSUME WInv, CallApi
  PROVE  WInv'
<1>0. /\ DeviceOK(mDeviceID, srv) /\ Awake(srv) /\ srv \in Server
      /\ SocketOnInterface
      /\ {mBindIfaceValid, mBindIfaceDirty, mAutoDisable,
          mCommonClockHasClients, wakeupFD} \subseteq BOOLEAN
  BY DEF WInv, DeviceOK
<1>1. CASE setInterfaceBinding
  BY <1>0, <1>1, WakingCallOK DEF setInterfaceBinding, Call, SocketOnInterface
<1>2. CASE setMasterElectionEndpoint
  BY <1>0, <1>2, WakingCallOK
     DEF setMasterElectionEndpoint, Call, SocketOnInterface
<1>3. CASE setAutoDisable
  BY <1>0, <1>3, WakingCallOK DEF setAutoDisable, Call, SocketOnInterface
<1>4. CASE reevaluateAutoDisableState
  <2>1. wakeupFD' \in BOOLEAN /\ (wakeupFD => wakeupFD')
    BY <1>4 DEF reevaluateAutoDisableState
  <2> QED BY <1>0, <1>4, <2>1
          DEF reevaluateAutoDisableState, Call, KeepThread, WInv, Settled,
              Waiting, SocketOnInterface
<1>5. CASE setMasterAnnounceInterval \/ setClientSyncInterval
  <2>1. /\ srv' = [srv EXCEPT !.mCurTimeout = TRUE]
        /\ wakeupFD' = TRUE /\ UNCHANGED config /\ KeepThread
        /\ poll.at \in {"blocked", "returned"}
    BY <1>5 DEF setMasterAnnounceInterval, setClientSyncInterval, Reschedule,
       Call
  <2>2. DeviceOK(mDeviceID, srv') /\ Awake(srv') /\ srv'.mSocket = srv.mSocket
    BY <1>0, <2>1 DEF DeviceOK, Server, Role, Time, CanServe, Awake
  <2> QED BY <1>0, <2>1, <2>2, WakingCallOK DEF config, SocketOnInterface
<1>6. CASE forceNetworklessMasterMode
  <2> DEFINE res == becomeMaster(mDeviceID, srv, freshTimelineID)
  <2>1. /\ ~srv.mSocket /\ srv' = res.srv /\ UNCHANGED <<config, wakeupFD>>
        /\ KeepThread /\ poll.at \in {"blocked", "returned"}
    BY <1>6 DEF forceNetworklessMasterMode, Call
  <2>2. ResultOK(mDeviceID, res)
    BY <1>0, <2>1, FreshTimelineID, BecomeMaster DEF DeviceOK
  <2>3. ~res.srv.mSocket
    BY <1>0, <2>1, FreshTimelineID, NoSocketBuilt
  <2>4. ~res.srv.mCurTimeout
    BY <1>0, <2>1
       DEF becomeMaster, sendMasterAnnouncement, createTimeline,
           notifyClockSync, resetSyncStats, Quiet, Result, Server
  <2> HIDE DEF res
  <2> QED BY <1>0, <2>1, <2>2, <2>3, <2>4
          DEF config, KeepThread, ResultOK, WInv, Settled, Waiting,
              SocketOnInterface
<1>7. CASE RequestExit
  BY <1>7 DEF RequestExit, config, WInv, Settled, Waiting, SocketOnInterface
<1> QED BY <1>1, <1>2, <1>3, <1>4, <1>5, <1>6, <1>7 DEF CallApi

LEMMA WStepPreserves == WInv /\ [WNext]_wvars => WInv'
<1> SUFFICES ASSUME WInv, [WNext]_wvars PROVE WInv'
  OBVIOUS
<1>1. CASE WakeForExit
  BY <1>1
     DEF WakeForExit, config, WInv, Settled, Waiting, SocketOnInterface
<1>2. CASE Join
  BY <1>2 DEF Join, config, WInv, Settled, Waiting, SocketOnInterface
<1>3. CASE UNCHANGED wvars
  BY <1>3 DEF wvars, WInv, Settled, Waiting, SocketOnInterface
<1> QED BY <1>1, <1>2, <1>3, LoopOK, CallApiOK DEF WNext

THEOREM WorkInvariance == WSpec => []WInv
BY WInitOK, WStepPreserves, PTL DEF WSpec

-----------------------------------------------------------------------------
(* What WInv says of the work thread *)

\* Whatever packets and calls come in whatever order, a thread that blocks and
\* is not about to be woken has overlooked no change of its configuration
\* (threadLoop, signalWakeup).
THEOREM NoWakeupLost == WSpec => []NoLostWakeup
<1>1. WInv => NoLostWakeup
  BY DEF WInv, Waiting, Settled, SocketOnInterface, Awake, NoLostWakeup
<1> QED BY <1>1, WorkInvariance, PTL

\* shutdownThread returns only when the thread is gone and has closed its
\* socket.
THEOREM ShutdownIsClean == WSpec => []CleanShutdown
<1>1. WInv => CleanShutdown
  BY DEF WInv, CleanShutdown
<1> QED BY <1>1, WorkInvariance, PTL
=============================================================================
