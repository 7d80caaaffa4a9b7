---------------------- MODULE TimeServerHandlers_proofs ----------------------
(***************************************************************************)
(* Proofs about the handlers of TimeServerHandlers for any number of       *)
(* devices and of retries: each takes a consistent state, in which a       *)
(* timeout is scheduled if there is a socket, to another one, and sends a  *)
(* packet a device in its state may send.  All they need to know of the    *)
(* network is that a packet is of its sender's making, which SentOK says.  *)
(* The second part says what the handlers do to the time a device tells,   *)
(* and the last one which devices may come to serve as a master, and whom  *)
(* they tell.                                                              *)
(***************************************************************************)
EXTENDS TimeServerHandlers, SequenceTheorems, TLAPS

-----------------------------------------------------------------------------
(* What holds of a device *)

Role(d, s) ==
  /\ s.mState = "INITIAL" <=> s.mTimelineID = kInvalidTimelineID
  /\ s.mState = "CLIENT" <=> s.mMasterEP # NoDevice
  /\ s.mState = "CLIENT" =>
       /\ s.mClient_MasterDeviceID = s.mMasterEP
       /\ s.mMasterEP # d
       /\ ~s.mForceLowPriority

Time(s) ==
  /\ s.mTimelineID = kInvalidTimelineID =>
       /\ s.mCommonClock = kInvalidTimelineID
       /\ s.startup = <<>>
       /\ ~s.mClockSynced
  /\ s.mClockSynced => s.toldTimeline = s.mTimelineID

CanServe(s) ==
  s.mState = "RONIN" \/ (s.mState = "MASTER" /\ s.mSocket) =>
    s.mCommonClock # kInvalidTimelineID

Awake(s) == s.mSocket => s.mCurTimeout

\* The state of device d, except that a timeout may be being handled.
DeviceOK(d, s) == s \in Server /\ Role(d, s) /\ Time(s) /\ CanServe(s)

\* A packet d may have sent: masters have a timeline, responses and
\* announcements are from masters, and who asks for one names no timeline.
SentOK(d, p) ==
  /\ p \in Packet
  /\ p.deviceID = d
  /\ p.packetType \in {"WHO_IS_MASTER_RESPONSE", "MASTER_ANNOUNCEMENT"} =>
       p.timelineID # kInvalidTimelineID
  /\ p.packetType = "WHO_IS_MASTER_REQUEST" => p.timelineID = kInvalidTimelineID

ResultOK(d, res) ==
  /\ DeviceOK(d, res.srv) /\ Awake(res.srv)
  /\ SentOK(d, res.pkt)

-----------------------------------------------------------------------------
(* Types.  The sets a field ranges over stay unexpanded below. *)

LEMMA Constants ==
  /\ NoDevice \in MasterID /\ Device \subseteq MasterID
  /\ \A d \in Device : d # NoDevice
  /\ \A id \in MasterID : id # NoDevice => id \in Device
  /\ kInvalidTimelineID \in TimelineID
  /\ <<>> \in DataPoints
  /\ 0 \in Count /\ \A n \in Count : n + 1 \in Count
  /\ 0 \in DevicePriority
  /\ ConfiguredPriority \subseteq DevicePriority
  /\ \A n \in ConfiguredPriority : n + 128 \in DevicePriority
BY DeviceAssumption DEF MasterID, NoDevice, kInvalidTimelineID, TimelineID,
   DataPoints, Count, DevicePriority, ConfiguredPriority

LEMMA States ==
  {"INITIAL", "CLIENT", "MASTER", "RONIN", "WAIT_FOR_ELECTION"} \subseteq State
BY DEF State

LEMMA EffectivePriority ==
  ASSUME NEW s \in Server
  PROVE  effectivePriority(s) \in DevicePriority
<1>1. s.mMasterPriority \in ConfiguredPriority
  BY DEF Server
<1> QED BY <1>1 DEF effectivePriority, ConfiguredPriority, DevicePriority

LEMMA MadePacket ==
  ASSUME NEW type \in PacketType, NEW d \in Device, NEW timeline \in TimelineID,
         NEW prio \in DevicePriority, NEW nak \in BOOLEAN,
         NEW time \in TimelineID, NEW to \in SUBSET Device,
         type \in {"WHO_IS_MASTER_RESPONSE", "MASTER_ANNOUNCEMENT"} =>
           timeline # kInvalidTimelineID,
         type = "WHO_IS_MASTER_REQUEST" => timeline = kInvalidTimelineID
  PROVE  SentOK(d, MakePacket(type, d, timeline, prio, nak, time, to))
BY DEF SentOK, MakePacket, Packet

LEMMA QuietOK ==
  ASSUME NEW d \in Device, NEW s, DeviceOK(d, s), Awake(s)
  PROVE  ResultOK(d, Quiet(d, s))
<1>1. "SYNC_REQUEST" \in PacketType
  BY DEF PacketType
<1>2. SentOK(d, NothingSent(d))
  BY <1>1, Constants, MadePacket DEF NothingSent
<1> QED BY <1>2 DEF ResultOK, Quiet, Result

-----------------------------------------------------------------------------
(* Sending *)

LEMMA SendWhoIsMasterRequest ==
  ASSUME NEW d \in Device, NEW s, DeviceOK(d, s)
  PROVE  ResultOK(d, sendWhoIsMasterRequest(d, s))
<1>1. CASE s.mSocket
  <2> DEFINE t == [s EXCEPT !.mCurTimeout = TRUE]
  <2>1. DeviceOK(d, t) /\ Awake(t)
    BY DEF DeviceOK, Server, Role, Time, CanServe, Awake
  <2>2. "WHO_IS_MASTER_REQUEST" \in PacketType
    BY DEF PacketType
  <2>3. effectivePriority(s) \in DevicePriority
    BY EffectivePriority DEF DeviceOK
  <2>4. SentOK(d, MakePacket("WHO_IS_MASTER_REQUEST", d, kInvalidTimelineID,
                             effectivePriority(s), FALSE, kInvalidTimelineID,
                             Device \ {d}))
    BY <2>2, <2>3, Constants, MadePacket
  <2> QED BY <1>1, <2>1, <2>4 DEF sendWhoIsMasterRequest, ResultOK, Result
<1>2. CASE ~s.mSocket
  BY <1>2, QuietOK DEF sendWhoIsMasterRequest, Awake
<1> QED BY <1>1, <1>2

LEMMA SendSyncRequest ==
  ASSUME NEW d \in Device, NEW s, DeviceOK(d, s), s.mState = "CLIENT"
  PROVE  ResultOK(d, sendSyncRequest(d, s))
<1> DEFINE t == [s EXCEPT !.mClient_SyncRequestPending = TRUE,
                          !.mCurTimeout = TRUE]
<1>1. DeviceOK(d, t) /\ Awake(t)
  BY DEF DeviceOK, Server, Role, Time, CanServe, Awake
<1>2. "SYNC_REQUEST" \in PacketType
  BY DEF PacketType
<1>3. s.mMasterEP \in Device /\ s.mTimelineID \in TimelineID
  BY Constants DEF DeviceOK, Server, Role
<1>4. SentOK(d, MakePacket("SYNC_REQUEST", d, s.mTimelineID, 0, FALSE,
                           kInvalidTimelineID, {s.mMasterEP}))
  BY <1>2, <1>3, Constants, MadePacket
<1> QED BY <1>1, <1>4 DEF sendSyncRequest, ResultOK, Result

LEMMA SendMasterAnnouncement ==
  ASSUME NEW d \in Device, NEW s, DeviceOK(d, s), s.mState = "MASTER"
  PROVE  ResultOK(d, sendMasterAnnouncement(d, s))
<1>1. CASE s.mSocket
  <2> DEFINE t == [s EXCEPT !.mCurTimeout = TRUE]
  <2>1. DeviceOK(d, t) /\ Awake(t)
    BY DEF DeviceOK, Server, Role, Time, CanServe, Awake
  <2>2. "MASTER_ANNOUNCEMENT" \in PacketType
    BY DEF PacketType
  <2>3. effectivePriority(s) \in DevicePriority
    BY EffectivePriority DEF DeviceOK
  <2>4. s.mTimelineID \in TimelineID /\ s.mTimelineID # kInvalidTimelineID
    BY DEF DeviceOK, Server, Role
  <2>5. SentOK(d, MakePacket("MASTER_ANNOUNCEMENT", d, s.mTimelineID,
                             effectivePriority(s), FALSE, kInvalidTimelineID,
                             Device \ {d}))
    BY <2>2, <2>3, <2>4, Constants, MadePacket
  <2> QED BY <1>1, <2>1, <2>5 DEF sendMasterAnnouncement, ResultOK, Result
<1>2. CASE ~s.mSocket
  <2> DEFINE t == [s EXCEPT !.mCurTimeout = FALSE]
  <2>1. DeviceOK(d, t) /\ Awake(t)
    BY <1>2 DEF DeviceOK, Server, Role, Time, CanServe, Awake
  <2> QED BY <1>2, <2>1, QuietOK DEF sendMasterAnnouncement
<1> QED BY <1>1, <1>2

-----------------------------------------------------------------------------
(* Transitions.  What each needs of the state it starts in is less than    *)
(* DeviceOK: that is what makes them safe to call from so many places.     *)

LEMMA BecomeInitial ==
  ASSUME NEW d \in Device, NEW s \in Server
  PROVE  ResultOK(d, becomeInitial(d, s))
<1> DEFINE t == [resetSyncStats(resetPosition(s)) EXCEPT
       !.mState = "INITIAL",
       !.mCurTimeout = FALSE,
       !.mMasterEP = NoDevice,
       !.mTimelineID = kInvalidTimelineID,
       !.mClockSynced = FALSE,
       !.mInitial_WhoIsMasterRequestTimeouts = 0,
       !.mClient_MasterDeviceID = NoDevice,
       !.mClient_MasterDevicePriority = 0,
       !.mRonin_WhoIsMasterRequestTimeouts = 0]
<1>1. t \in Server
  BY Constants, States DEF Server, resetSyncStats, resetPosition
<1>2. Role(d, t) /\ Time(t) /\ CanServe(t)
  BY DEF Server, resetSyncStats, resetPosition, Role, Time, CanServe
<1>3. DeviceOK(d, t)
  BY <1>1, <1>2 DEF DeviceOK
<1> QED BY <1>3, SendWhoIsMasterRequest DEF becomeInitial

LEMMA BecomeRonin ==
  ASSUME NEW d \in Device, NEW s \in Server, Time(s)
  PROVE  ResultOK(d, becomeRonin(d, s))
<1> DEFINE lost == [s EXCEPT !.mMasterEP = NoDevice]
           t == [lost EXCEPT !.mState = "RONIN",
                             !.mRonin_WhoIsMasterRequestTimeouts = 0]
<1>1. lost \in Server
  BY Constants DEF Server
<1>2. CASE isValid(s)
  <2>1. DeviceOK(d, t)
    BY <1>2, Constants, States
       DEF DeviceOK, Server, Role, Time, CanServe, isValid
  <2> QED BY <1>2, <2>1, SendWhoIsMasterRequest DEF becomeRonin
<1>3. CASE ~isValid(s)
  BY <1>1, <1>3, BecomeInitial DEF becomeRonin
<1> QED BY <1>2, <1>3

LEMMA ChangeTimeline ==
  ASSUME NEW s \in Server, Time(s), NEW timeline \in TimelineID,
         timeline # kInvalidTimelineID
  PROVE  LET t == changeTimeline(s, timeline)
         IN /\ t \in Server
            /\ t.mTimelineID = timeline
            /\ t.mClockSynced => t.toldTimeline = timeline
<1> DEFINE moved == [s EXCEPT !.mTimelineID = timeline]
           reset == resetPosition(moved)
<1>1. reset \in Server
  BY Constants DEF Server, resetPosition
<1>2. reset.mTimelineID = timeline
  BY DEF Server, resetPosition
<1>3. notifyClockSyncLoss(reset) \in Server
  BY <1>1, Constants DEF Server, notifyClockSyncLoss
<1>4. /\ notifyClockSyncLoss(reset).mTimelineID = timeline
      /\ ~notifyClockSyncLoss(reset).mClockSynced
  <2> HIDE DEF reset
  <2> QED BY <1>1, <1>2 DEF Server, notifyClockSyncLoss
<1>5. CASE s.mTimelineID = timeline
  BY <1>5 DEF changeTimeline, Time
<1>6. CASE s.mTimelineID # timeline
  BY <1>6, <1>3, <1>4 DEF changeTimeline
<1> QED BY <1>5, <1>6

LEMMA BecomeClient ==
  ASSUME NEW d \in Device, NEW s \in Server, Time(s),
         NEW p \in Packet, p.deviceID # d, p.timelineID # kInvalidTimelineID
  PROVE  ResultOK(d, becomeClient(d, s, p))
<1> DEFINE u == changeTimeline(s, p.timelineID)
           v == resetSyncStats(u)
           t == [v EXCEPT
                   !.mState = "CLIENT",
                   !.mMasterEP = p.deviceID,
                   !.mForceLowPriority = FALSE,
                   !.mClient_MasterDeviceID = p.deviceID,
                   !.mClient_MasterDevicePriority = p.devicePriority]
<1>1. /\ p.timelineID \in TimelineID
      /\ p.deviceID \in Device
      /\ p.devicePriority \in DevicePriority
  BY DEF Packet
<1>2. /\ u \in Server
      /\ u.mTimelineID = p.timelineID
      /\ u.mClockSynced => u.toldTimeline = p.timelineID
  BY <1>1, ChangeTimeline
<1> HIDE DEF u
<1>3. /\ v \in Server
      /\ v.mTimelineID = u.mTimelineID
      /\ v.mClockSynced = u.mClockSynced
      /\ v.toldTimeline = u.toldTimeline
  BY <1>2, Constants DEF Server, resetSyncStats
<1> HIDE DEF v
<1>4. t \in Server
  BY <1>1, <1>3, Constants, States DEF Server
<1>5. /\ t.mState = "CLIENT" /\ t.mMasterEP = p.deviceID
      /\ t.mClient_MasterDeviceID = p.deviceID /\ ~t.mForceLowPriority
      /\ t.mTimelineID = p.timelineID
      /\ t.mClockSynced => t.toldTimeline = t.mTimelineID
  BY <1>2, <1>3 DEF Server
<1> HIDE DEF t
<1>6. DeviceOK(d, t)
  BY <1>1, <1>4, <1>5, Constants DEF DeviceOK, Role, Time, CanServe
<1>7. becomeClient(d, s, p) = sendSyncRequest(d, t)
  BY DEF becomeClient, t, v, u
<1> QED BY <1>5, <1>6, <1>7, SendSyncRequest

LEMMA CreateTimeline ==
  ASSUME NEW s \in Server, Time(s), NEW fresh \in TimelineID,
         fresh # kInvalidTimelineID,
         s.mTimelineID # kInvalidTimelineID /\ s.mSocket => isValid(s)
  PROVE  LET t == createTimeline(s, fresh)
         IN /\ t \in Server
            /\ t.mTimelineID # kInvalidTimelineID
            /\ t.mSocket => t.mCommonClock # kInvalidTimelineID
            /\ t.mClockSynced => t.toldTimeline = t.mTimelineID
<1> DEFINE u == [s EXCEPT !.mCommonClock = fresh, !.mTimelineID = fresh]
<1>1. CASE s.mTimelineID # kInvalidTimelineID
  BY <1>1 DEF createTimeline, Time, isValid
<1>2. CASE s.mTimelineID = kInvalidTimelineID
  <2>1. u \in Server /\ ~u.mClockSynced
    BY <1>2 DEF Server, Time
  <2>2. u.mCommonClock = fresh /\ u.mTimelineID = fresh
    BY DEF Server
  <2> HIDE DEF u
  <2>3. notifyClockSync(u) \in Server
    BY <2>1, <2>2 DEF Server, notifyClockSync
  <2>4. /\ notifyClockSync(u).mCommonClock = fresh
        /\ notifyClockSync(u).mTimelineID = fresh
        /\ notifyClockSync(u).toldTimeline = fresh
    BY <2>1, <2>2 DEF Server, notifyClockSync
  <2>5. createTimeline(s, fresh) = notifyClockSync(u)
    BY <1>2 DEF createTimeline, u
  <2> QED BY <2>3, <2>4, <2>5
<1> QED BY <1>1, <1>2

LEMMA BecomeMaster ==
  ASSUME NEW d \in Device, NEW s \in Server, Time(s),
         NEW fresh \in TimelineID, fresh # kInvalidTimelineID,
         s.mTimelineID # kInvalidTimelineID /\ s.mSocket => isValid(s)
  PROVE  ResultOK(d, becomeMaster(d, s, fresh))
<1> DEFINE u == createTimeline(s, fresh)
           v == resetSyncStats(u)
           t == [v EXCEPT
                   !.mState = "MASTER",
                   !.mMasterEP = NoDevice,
                   !.mClient_MasterDeviceID = d,
                   !.mClient_MasterDevicePriority = effectivePriority(s)]
<1>1. /\ u \in Server
      /\ u.mTimelineID # kInvalidTimelineID
      /\ u.mSocket => u.mCommonClock # kInvalidTimelineID
      /\ u.mClockSynced => u.toldTimeline = u.mTimelineID
  BY CreateTimeline
<1> HIDE DEF u
<1>2. /\ v \in Server
      /\ v.mTimelineID = u.mTimelineID /\ v.mSocket = u.mSocket
      /\ v.mCommonClock = u.mCommonClock
      /\ v.mClockSynced = u.mClockSynced
      /\ v.toldTimeline = u.toldTimeline
  BY <1>1, Constants DEF Server, resetSyncStats
<1> HIDE DEF v
<1>3. effectivePriority(s) \in DevicePriority
  BY EffectivePriority
<1>4. t \in Server
  BY <1>2, <1>3, Constants, States DEF Server
<1>5. /\ t.mState = "MASTER" /\ t.mMasterEP = NoDevice
      /\ t.mTimelineID = v.mTimelineID /\ t.mSocket = v.mSocket
      /\ t.mCommonClock = v.mCommonClock
      /\ t.mClockSynced = v.mClockSynced
      /\ t.toldTimeline = v.toldTimeline
  BY <1>2 DEF Server
<1> HIDE DEF t
<1>6. DeviceOK(d, t)
  BY <1>1, <1>2, <1>4, <1>5 DEF DeviceOK, Role, Time, CanServe
<1>7. becomeMaster(d, s, fresh) = sendMasterAnnouncement(d, t)
  BY DEF becomeMaster, t, v, u
<1> QED BY <1>5, <1>6, <1>7, SendMasterAnnouncement

LEMMA BecomeWaitForElection ==
  ASSUME NEW d \in Device, NEW s, DeviceOK(d, s), s.mState = "RONIN"
  PROVE  ResultOK(d, becomeWaitForElection(d, s))
<1> DEFINE t == [s EXCEPT !.mState = "WAIT_FOR_ELECTION", !.mCurTimeout = TRUE]
<1>1. DeviceOK(d, t) /\ Awake(t)
  BY States DEF DeviceOK, Server, Role, Time, CanServe, Awake
<1> QED BY <1>1, QuietOK DEF becomeWaitForElection

-----------------------------------------------------------------------------
(* Timeouts *)

LEMMA HandleTimeoutInitial ==
  ASSUME NEW d \in Device, NEW s, DeviceOK(d, s), s.mState = "INITIAL",
         NEW fresh \in TimelineID, fresh # kInvalidTimelineID
  PROVE  ResultOK(d, handleTimeoutInitial(d, s, fresh))
<1> DEFINE n == s.mInitial_WhoIsMasterRequestTimeouts + 1
           t == [s EXCEPT !.mInitial_WhoIsMasterRequestTimeouts = n]
<1>1. n \in Count
  BY Constants DEF DeviceOK, Server
<1> HIDE DEF n
<1>2. DeviceOK(d, t) /\ t.mTimelineID = kInvalidTimelineID
  BY <1>1 DEF DeviceOK, Server, Role, Time, CanServe
<1> HIDE DEF t
<1>3. ResultOK(d, becomeMaster(d, t, fresh))
  BY <1>2, BecomeMaster DEF DeviceOK
<1>4. ResultOK(d, sendWhoIsMasterRequest(d, t))
  BY <1>2, SendWhoIsMasterRequest
<1> QED BY <1>3, <1>4 DEF handleTimeoutInitial, t, n

LEMMA HandleTimeoutRonin ==
  ASSUME NEW d \in Device, NEW s, DeviceOK(d, s), s.mState = "RONIN",
         NEW fresh \in TimelineID, fresh # kInvalidTimelineID
  PROVE  ResultOK(d, handleTimeoutRonin(d, s, fresh))
<1> DEFINE n == s.mRonin_WhoIsMasterRequestTimeouts + 1
           t == [s EXCEPT !.mRonin_WhoIsMasterRequestTimeouts = n]
<1>1. n \in Count
  BY Constants DEF DeviceOK, Server
<1> HIDE DEF n
<1>2. DeviceOK(d, t) /\ isValid(t)
  BY <1>1 DEF DeviceOK, Server, Role, Time, CanServe, isValid
<1> HIDE DEF t
<1>3. ResultOK(d, becomeMaster(d, t, fresh))
  BY <1>2, BecomeMaster DEF DeviceOK
<1>4. ResultOK(d, sendWhoIsMasterRequest(d, t))
  BY <1>2, SendWhoIsMasterRequest
<1> QED BY <1>3, <1>4 DEF handleTimeoutRonin, t, n

LEMMA HandleTimeoutClient ==
  ASSUME NEW d \in Device, NEW s, DeviceOK(d, s), s.mState = "CLIENT",
         NEW noGoodData \in BOOLEAN
  PROVE  ResultOK(d, handleTimeoutClient(d, s, noGoodData))
<1> DEFINE n == s.mClient_SyncRequestTimeouts + 1
           t == [s EXCEPT !.mClient_SyncRequestPending = FALSE,
                          !.mClient_SyncRequestTimeouts = n]
<1>1. n \in Count
  BY Constants DEF DeviceOK, Server
<1> HIDE DEF n
<1>2. DeviceOK(d, t) /\ t.mState = "CLIENT"
  BY <1>1 DEF DeviceOK, Server, Role, Time, CanServe
<1> HIDE DEF t
<1>3. ResultOK(d, becomeInitial(d, s))
  BY BecomeInitial DEF DeviceOK
<1>4. ResultOK(d, sendSyncRequest(d, s)) /\ ResultOK(d, sendSyncRequest(d, t))
  BY <1>2, SendSyncRequest
<1>5. ResultOK(d, becomeRonin(d, t))
  BY <1>2, BecomeRonin DEF DeviceOK
<1>6. s.mClient_SyncRequestPending \in BOOLEAN
  BY DEF DeviceOK, Server
<1>7. CASE noGoodData
  BY <1>3, <1>7 DEF handleTimeoutClient
<1>8. CASE ~noGoodData /\ ~s.mClient_SyncRequestPending
  BY <1>4, <1>8 DEF handleTimeoutClient
<1>9. CASE ~noGoodData /\ s.mClient_SyncRequestPending
  BY <1>4, <1>5, <1>9 DEF handleTimeoutClient, t, n
<1> QED BY <1>6, <1>7, <1>8, <1>9

LEMMA TimeoutOK ==
  ASSUME NEW d \in Device, NEW before, DeviceOK(d, before),
         NEW fresh \in TimelineID, fresh # kInvalidTimelineID,
         NEW noGoodData \in BOOLEAN
  PROVE  ResultOK(d, handleTimeout(d, before, fresh, noGoodData))
<1> DEFINE s == [before EXCEPT !.mCurTimeout = FALSE]
           res == handleTimeout(d, before, fresh, noGoodData)
<1>1. DeviceOK(d, s)
  BY DEF DeviceOK, Server, Role, Time, CanServe
<1>2. s.mSocket \in BOOLEAN /\ s.mState \in State
  BY DEF DeviceOK, Server
<1>3. res = (CASE ~s.mSocket -> Quiet(d, s)
       [] s.mSocket /\ s.mState = "INITIAL" -> handleTimeoutInitial(d, s, fresh)
       [] s.mSocket /\ s.mState = "CLIENT" ->
            handleTimeoutClient(d, s, noGoodData)
       [] s.mSocket /\ s.mState = "MASTER" -> sendMasterAnnouncement(d, s)
       [] s.mSocket /\ s.mState = "RONIN" -> handleTimeoutRonin(d, s, fresh)
       [] s.mSocket /\ s.mState = "WAIT_FOR_ELECTION" -> becomeRonin(d, s))
  BY DEF handleTimeout
<1> HIDE DEF s, res
<1>4. CASE ~s.mSocket
  <2>1. res = Quiet(d, s)
    BY <1>3, <1>4
  <2> QED BY <1>1, <1>4, <2>1, QuietOK DEF Awake, res
<1>5. CASE s.mSocket /\ s.mState = "INITIAL"
  <2>1. res = handleTimeoutInitial(d, s, fresh)
    BY <1>3, <1>5
  <2> QED BY <1>1, <1>5, <2>1, HandleTimeoutInitial DEF res
<1>6. CASE s.mSocket /\ s.mState = "CLIENT"
  <2>1. res = handleTimeoutClient(d, s, noGoodData)
    BY <1>3, <1>6
  <2> QED BY <1>1, <1>6, <2>1, HandleTimeoutClient DEF res
<1>7. CASE s.mSocket /\ s.mState = "MASTER"
  <2>1. res = sendMasterAnnouncement(d, s)
    BY <1>3, <1>7
  <2> QED BY <1>1, <1>7, <2>1, SendMasterAnnouncement DEF res
<1>8. CASE s.mSocket /\ s.mState = "RONIN"
  <2>1. res = handleTimeoutRonin(d, s, fresh)
    BY <1>3, <1>8
  <2> QED BY <1>1, <1>8, <2>1, HandleTimeoutRonin DEF res
<1>9. CASE s.mSocket /\ s.mState = "WAIT_FOR_ELECTION"
  <2>1. res = becomeRonin(d, s)
    BY <1>3, <1>9
  <2> QED BY <1>1, <2>1, BecomeRonin DEF DeviceOK, res
<1> QED BY <1>2, <1>4, <1>5, <1>6, <1>7, <1>8, <1>9 DEF State

-----------------------------------------------------------------------------
(* Packets *)

LEMMA WhoIsMasterRequestOK ==
  ASSUME NEW d \in Device, NEW s, DeviceOK(d, s), Awake(s), NEW p \in Packet
  PROVE  ResultOK(d, handleWhoIsMasterRequest(d, s, p))
<1> DEFINE res == handleWhoIsMasterRequest(d, s, p)
           response == MakePacket("WHO_IS_MASTER_RESPONSE", d, s.mTimelineID,
                                  effectivePriority(s), FALSE,
                                  kInvalidTimelineID, {p.deviceID})
           t == [s EXCEPT !.mInitial_WhoIsMasterRequestTimeouts = 0]
<1>1. \/ s.mState = "MASTER" /\ res = Result(s, response)
      \/ s.mState = "RONIN" /\ res = becomeWaitForElection(d, s)
      \/ res = Quiet(d, t)
      \/ res = Quiet(d, s)
  <2> HIDE DEF t, response
  <2> QED BY DEF handleWhoIsMasterRequest, t, response
<1> HIDE DEF res
<1>2. CASE s.mState = "MASTER" /\ res = Result(s, response)
  <2>1. /\ "WHO_IS_MASTER_RESPONSE" \in PacketType
        /\ effectivePriority(s) \in DevicePriority
        /\ s.mTimelineID \in TimelineID /\ s.mTimelineID # kInvalidTimelineID
        /\ p.deviceID \in Device
    BY <1>2, EffectivePriority DEF PacketType, DeviceOK, Server, Role, Packet
  <2>2. SentOK(d, response)
    BY <2>1, Constants, MadePacket
  <2> HIDE DEF response
  <2> QED BY <1>2, <2>2 DEF ResultOK, Result, res
<1>3. CASE s.mState = "RONIN" /\ res = becomeWaitForElection(d, s)
  BY <1>3, BecomeWaitForElection DEF res
<1>4. CASE res = Quiet(d, t)
  <2>1. DeviceOK(d, t) /\ Awake(t)
    BY Constants DEF DeviceOK, Server, Role, Time, CanServe, Awake
  <2> QED BY <1>4, <2>1, QuietOK DEF res
<1>5. CASE res = Quiet(d, s)
  BY <1>5, QuietOK DEF res
<1> QED BY <1>1, <1>2, <1>3, <1>4, <1>5

LEMMA WhoIsMasterResponseOK ==
  ASSUME NEW d \in Device, NEW s, DeviceOK(d, s), Awake(s), NEW p \in Packet,
         p.deviceID # d, p.timelineID # kInvalidTimelineID
  PROVE  ResultOK(d, handleWhoIsMasterResponse(d, s, p))
BY QuietOK, BecomeClient DEF handleWhoIsMasterResponse, DeviceOK

LEMMA MasterAnnouncementOK ==
  ASSUME NEW d \in Device, NEW s, DeviceOK(d, s), Awake(s), NEW p \in Packet,
         p.deviceID # d, p.timelineID # kInvalidTimelineID
  PROVE  ResultOK(d, handleMasterAnnouncement(d, s, p))
BY QuietOK, BecomeClient DEF handleMasterAnnouncement, DeviceOK

LEMMA SyncRequestOK ==
  ASSUME NEW d \in Device, NEW s, DeviceOK(d, s), Awake(s), NEW p \in Packet
  PROVE  ResultOK(d, handleSyncRequest(d, s, p))
<1> DEFINE serves == s.mState = "MASTER" /\ s.mTimelineID = p.timelineID
           times == MakePacket("SYNC_RESPONSE", d, s.mTimelineID, 0, FALSE,
                               s.mCommonClock, {p.deviceID})
           refusal == MakePacket("SYNC_RESPONSE", d, s.mTimelineID, 0, TRUE,
                                 kInvalidTimelineID, {p.deviceID})
           high == [s EXCEPT !.mForceLowPriority = FALSE,
                             !.mClient_MasterDevicePriority =
                                s.mMasterPriority + 128]
           res == handleSyncRequest(d, s, p)
<1>1. s.mMasterPriority + 128 \in DevicePriority
  BY Constants DEF DeviceOK, Server
<1>2. CASE serves
  <2>1. DeviceOK(d, high) /\ Awake(high)
    BY <1>1, <1>2 DEF DeviceOK, Server, Role, Time, CanServe, Awake
  <2>2. /\ "SYNC_RESPONSE" \in PacketType /\ p.deviceID \in Device
        /\ s.mTimelineID \in TimelineID /\ s.mCommonClock \in TimelineID
    BY DEF PacketType, DeviceOK, Server, Packet
  <2>3. SentOK(d, times)
    BY <2>2, Constants, MadePacket
  <2>4. res = Quiet(d, high) \/ res = Result(high, times)
    BY <1>2 DEF handleSyncRequest
  <2> HIDE DEF high, times, res
  <2>5. CASE res = Quiet(d, high)
    BY <2>1, <2>5, QuietOK DEF res
  <2>6. CASE res = Result(high, times)
    BY <2>1, <2>3, <2>6 DEF ResultOK, Result, res
  <2> QED BY <2>4, <2>5, <2>6
<1>3. CASE ~serves
  <2>1. /\ "SYNC_RESPONSE" \in PacketType /\ p.deviceID \in Device
        /\ s.mTimelineID \in TimelineID
    BY DEF PacketType, DeviceOK, Server, Packet
  <2>2. SentOK(d, refusal)
    BY <2>1, Constants, MadePacket
  <2>3. res = Result(s, refusal)
    BY <1>3 DEF handleSyncRequest
  <2> HIDE DEF refusal
  <2> QED BY <2>2, <2>3 DEF ResultOK, Result
<1> QED BY <1>2, <1>3

LEMMA PushDisciplineEvent ==
  ASSUME NEW d \in Device, NEW s, DeviceOK(d, s), s.mState = "CLIENT",
         NEW time \in TimelineID, NEW best \in 1..kStartupFilterSize
  PROVE  LET t == pushDisciplineEvent(s, time, best)
         IN DeviceOK(d, t) /\ t.mState = "CLIENT" /\ t.mCurTimeout = s.mCurTimeout
<1> DEFINE points == IF Len(s.startup) < kStartupFilterSize
                     THEN Append(s.startup, time) ELSE s.startup
           clock == IF Len(points) = kStartupFilterSize
                    THEN points[best] ELSE s.mCommonClock
           t == [s EXCEPT !.startup = points, !.mCommonClock = clock]
<1>1. s.startup \in DataPoints /\ s.mCommonClock \in TimelineID
  BY DEF DeviceOK, Server
<1>2. points \in DataPoints
  BY <1>1 DEF DataPoints
<1> HIDE DEF points
<1>3. clock \in TimelineID
  BY <1>1, <1>2 DEF DataPoints
<1>4. pushDisciplineEvent(s, time, best) \in {s, t}
  BY DEF pushDisciplineEvent, points
<1> HIDE DEF clock
<1>5. DeviceOK(d, t) /\ t.mState = "CLIENT" /\ t.mCurTimeout = s.mCurTimeout
  BY <1>2, <1>3 DEF DeviceOK, Server, Role, Time, CanServe
<1> QED BY <1>4, <1>5

LEMMA SyncResponseOK ==
  ASSUME NEW d \in Device, NEW s, DeviceOK(d, s), Awake(s), NEW p \in Packet,
         NEW outcome \in {"good", "late", "no_good_data", "panic"},
         NEW best \in 1..kStartupFilterSize
  PROVE  ResultOK(d, handleSyncResponse(d, s, p, outcome, best))
<1> DEFINE a == [s EXCEPT !.mClient_SyncRequestPending = FALSE,
                          !.mClient_SyncRequestTimeouts = 0,
                          !.gotSyncResp = TRUE,
                          !.mCurTimeout = TRUE]
           pushed == pushDisciplineEvent(a, p.time, best)
           res == handleSyncResponse(d, s, p, outcome, best)
<1>1. \/ res = Quiet(d, s)
      \/ /\ s.mState = "CLIENT"
         /\ \/ res = becomeRonin(d, s)
            \/ res = Quiet(d, a)
            \/ res = becomeInitial(d, a)
            \/ res = becomeInitial(d, notifyClockSyncLoss(a))
            \/ res = Quiet(d, notifyClockSync(pushed))
  <2> p.nak \in BOOLEAN /\ s.gotSyncResp \in BOOLEAN
    BY DEF Packet, DeviceOK, Server
  <2> HIDE DEF a
  <2> QED BY DEF handleSyncResponse, a
<1> HIDE DEF res
<1>2. CASE res = Quiet(d, s)
  BY <1>2, QuietOK DEF res
<1>3. ASSUME s.mState = "CLIENT"
      PROVE  DeviceOK(d, a) /\ a.mState = "CLIENT" /\ a.mCurTimeout
  BY <1>3, Constants DEF DeviceOK, Server, Role, Time, CanServe
<1> HIDE DEF a
<1>4. CASE s.mState = "CLIENT" /\ res = becomeRonin(d, s)
  BY <1>4, BecomeRonin DEF DeviceOK, res
<1>5. CASE s.mState = "CLIENT" /\ res = Quiet(d, a)
  BY <1>3, <1>5, QuietOK DEF Awake, res
<1>6. CASE s.mState = "CLIENT" /\ res = becomeInitial(d, a)
  BY <1>3, <1>6, BecomeInitial DEF DeviceOK, res
<1>7. CASE s.mState = "CLIENT" /\ res = becomeInitial(d, notifyClockSyncLoss(a))
  <2>1. notifyClockSyncLoss(a) \in Server
    BY <1>3, <1>7, Constants DEF DeviceOK, Server, notifyClockSyncLoss
  <2> QED BY <1>7, <2>1, BecomeInitial DEF res
<1>8. CASE s.mState = "CLIENT" /\ res = Quiet(d, notifyClockSync(pushed))
  <2>1. p.time \in TimelineID
    BY DEF Packet
  <2>2. DeviceOK(d, pushed) /\ pushed.mState = "CLIENT" /\ pushed.mCurTimeout
    BY <1>3, <1>8, <2>1, PushDisciplineEvent
  <2> HIDE DEF pushed
  <2>3. DeviceOK(d, notifyClockSync(pushed)) /\ Awake(notifyClockSync(pushed))
    BY <2>2 DEF notifyClockSync, DeviceOK, Server, Role, Time, CanServe, Awake
  <2> QED BY <1>8, <2>3, QuietOK DEF res
<1> QED BY <1>1, <1>2, <1>4, <1>5, <1>6, <1>7, <1>8

-----------------------------------------------------------------------------
(* The network interface *)

LEMMA FreshOK ==
  ASSUME NEW d \in Device, NEW prio \in ConfiguredPriority
  PROVE  DeviceOK(d, Fresh(prio)) /\ Awake(Fresh(prio))
<1>1. Fresh(prio) \in Server
  BY Constants, States DEF Fresh, Server
<1>2. /\ Role(d, Fresh(prio)) /\ Time(Fresh(prio)) /\ CanServe(Fresh(prio))
      /\ Awake(Fresh(prio))
  BY DEF Fresh, Role, Time, CanServe, Awake
<1> QED BY <1>1, <1>2 DEF DeviceOK

LEMMA BindInterfaceOK ==
  ASSUME NEW d \in Device, NEW before, DeviceOK(d, before)
  PROVE  ResultOK(d, bindInterface(d, before))
<1> DEFINE prio == IF before.mState = "MASTER" THEN before.mMasterPriority
                   ELSE before.mClient_MasterDevicePriority
           s == [before EXCEPT !.mSocket = TRUE, !.mForceLowPriority = TRUE,
                               !.mClient_MasterDevicePriority = prio]
<1>1. prio \in DevicePriority
  BY Constants DEF DeviceOK, Server
<1> HIDE DEF prio
<1>2. s \in Server /\ Time(s)
  BY <1>1 DEF DeviceOK, Server, Time
<1> HIDE DEF s
<1>3. bindInterface(d, before) \in {becomeInitial(d, s), becomeRonin(d, s)}
  BY DEF bindInterface, s, prio
<1> QED BY <1>2, <1>3, BecomeInitial, BecomeRonin

LEMMA BindFailsOK ==
  ASSUME NEW d \in Device, NEW s, DeviceOK(d, s)
  PROVE  DeviceOK(d, bindFails(s)) /\ Awake(bindFails(s))
BY DEF bindFails, DeviceOK, Server, Role, Time, CanServe, Awake

LEMMA LeaveNetworkOK ==
  ASSUME NEW d \in Device, NEW before, DeviceOK(d, before),
         NEW fresh \in TimelineID, fresh # kInvalidTimelineID
  PROVE  ResultOK(d, leaveNetwork(d, before, fresh))
<1> DEFINE s == [before EXCEPT !.mSocket = FALSE]
<1>1. DeviceOK(d, s) /\ ~s.mSocket
  BY DEF DeviceOK, Server, Role, Time, CanServe
<1> HIDE DEF s
<1>2. leaveNetwork(d, before, fresh) \in
        {Quiet(d, s), becomeInitial(d, s), becomeMaster(d, s, fresh)}
  BY DEF leaveNetwork, s
<1> QED BY <1>1, <1>2, QuietOK, BecomeInitial, BecomeMaster DEF Awake, DeviceOK

-----------------------------------------------------------------------------
(* The time a device tells: when its clock is of the timeline it follows,  *)
(* and what it may then tell the others.                                   *)

Serves(s) == s.mState = "MASTER" /\ s.mSocket

\* A response that carries times.
Answer(p) == p.packetType = "SYNC_RESPONSE" /\ ~p.nak

\* What only a master sends.
Masterly(p) ==
  p.packetType \in {"WHO_IS_MASTER_RESPONSE", "MASTER_ANNOUNCEMENT"} \/ Answer(p)

\* The basis of the clock and every startup point are of the timeline followed.
OnTimeline(s) ==
  /\ s.mCommonClock # kInvalidTimelineID => s.mCommonClock = s.mTimelineID
  /\ \A i \in 1..Len(s.startup) : s.startup[i] = s.mTimelineID

\* A packet k sent in state s is true to the timeline of s.
TrueTo(s, k) ==
  k.to # {} =>
    /\ Masterly(k) => Serves(s) /\ k.timelineID = s.mTimelineID
    /\ Answer(k) => k.time = k.timelineID
    /\ k.packetType = "SYNC_REQUEST" => k.timelineID = s.mTimelineID

TellsTime(res) == OnTimeline(res.srv) /\ TrueTo(res.srv, res.pkt)

\* From s to t a device does not come to follow another master, or the same
\* one on another timeline,
NoNewMaster(s, t) ==
  t.mState = "CLIENT" =>
    /\ s.mState = "CLIENT" /\ t.mMasterEP = s.mMasterEP
    /\ t.mTimelineID = s.mTimelineID

\* and does not come to serve another timeline.
NoNewReign(s, t) ==
  Serves(t) => Serves(s) /\ t.mTimelineID = s.mTimelineID

\* In t a device is a client of the sender of p.
Adopts(p, t) ==
  /\ t.mState = "CLIENT" /\ t.mMasterEP = p.deviceID
  /\ t.mTimelineID = p.timelineID

LEMMA QuietTells ==
  ASSUME NEW d, NEW s, OnTimeline(s)
  PROVE  /\ TellsTime(Quiet(d, s)) /\ ~Answer(Quiet(d, s).pkt)
         /\ Quiet(d, s).srv = s
BY DEF TellsTime, TrueTo, Answer, Quiet, Result, NothingSent, MakePacket

LEMMA WhoIsMasterRequestTells ==
  ASSUME NEW d, NEW s \in Server, OnTimeline(s)
  PROVE  LET res == sendWhoIsMasterRequest(d, s)
         IN /\ TellsTime(res) /\ ~Answer(res.pkt)
            /\ res.srv.mState = s.mState /\ res.srv.mSocket = s.mSocket
            /\ res.srv.mTimelineID = s.mTimelineID
            /\ res.srv.mMasterEP = s.mMasterEP
<1> DEFINE t == [s EXCEPT !.mCurTimeout = TRUE]
<1>1. /\ OnTimeline(t) /\ t.mState = s.mState /\ t.mSocket = s.mSocket
      /\ t.mTimelineID = s.mTimelineID /\ t.mMasterEP = s.mMasterEP
  BY DEF Server, OnTimeline
<1> HIDE DEF t
<1>2. CASE s.mSocket
  <2>1. sendWhoIsMasterRequest(d, s) =
          Result(t, MakePacket("WHO_IS_MASTER_REQUEST", d, kInvalidTimelineID,
                               effectivePriority(s), FALSE,
                               kInvalidTimelineID, Device \ {d}))
    BY <1>2 DEF sendWhoIsMasterRequest, t
  <2> QED BY <1>1, <2>1 DEF TellsTime, TrueTo, Masterly, Answer, Result,
                            MakePacket
<1>3. CASE ~s.mSocket
  BY <1>3, QuietTells DEF sendWhoIsMasterRequest
<1> QED BY <1>2, <1>3

LEMMA SyncRequestTells ==
  ASSUME NEW d, NEW s \in Server, OnTimeline(s)
  PROVE  LET res == sendSyncRequest(d, s)
         IN /\ TellsTime(res) /\ ~Answer(res.pkt)
            /\ res.srv.mState = s.mState /\ res.srv.mSocket = s.mSocket
            /\ res.srv.mTimelineID = s.mTimelineID
            /\ res.srv.mMasterEP = s.mMasterEP
<1> DEFINE t == [s EXCEPT !.mClient_SyncRequestPending = TRUE,
                          !.mCurTimeout = TRUE]
<1>1. /\ OnTimeline(t) /\ t.mState = s.mState /\ t.mSocket = s.mSocket
      /\ t.mTimelineID = s.mTimelineID /\ t.mMasterEP = s.mMasterEP
  BY DEF Server, OnTimeline
<1> HIDE DEF t
<1>2. sendSyncRequest(d, s) =
        Result(t, MakePacket("SYNC_REQUEST", d, s.mTimelineID, 0, FALSE,
                             kInvalidTimelineID, {s.mMasterEP}))
  BY DEF sendSyncRequest, t
<1> QED BY <1>1, <1>2 DEF TellsTime, TrueTo, Masterly, Answer, Result,
                          MakePacket

LEMMA MasterAnnouncementTells ==
  ASSUME NEW d, NEW s \in Server, OnTimeline(s), s.mState = "MASTER"
  PROVE  LET res == sendMasterAnnouncement(d, s)
         IN /\ TellsTime(res) /\ ~Answer(res.pkt)
            /\ res.srv.mState = "MASTER" /\ res.srv.mSocket = s.mSocket
            /\ res.srv.mTimelineID = s.mTimelineID
<1> DEFINE t == [s EXCEPT !.mCurTimeout = TRUE]
           u == [s EXCEPT !.mCurTimeout = FALSE]
<1>1. /\ OnTimeline(t) /\ t.mState = s.mState /\ t.mSocket = s.mSocket
      /\ t.mTimelineID = s.mTimelineID
      /\ OnTimeline(u) /\ u.mState = s.mState /\ u.mSocket = s.mSocket
      /\ u.mTimelineID = s.mTimelineID
  BY DEF Server, OnTimeline
<1> HIDE DEF t, u
<1>2. CASE s.mSocket
  <2>1. sendMasterAnnouncement(d, s) =
          Result(t, MakePacket("MASTER_ANNOUNCEMENT", d, s.mTimelineID,
                               effectivePriority(s), FALSE,
                               kInvalidTimelineID, Device \ {d}))
    BY <1>2 DEF sendMasterAnnouncement, t
  <2>2. Serves(t)
    BY <1>1, <1>2 DEF Serves
  <2> QED BY <1>1, <2>1, <2>2 DEF TellsTime, TrueTo, Masterly, Answer, Result,
                                  MakePacket
<1>3. CASE ~s.mSocket
  <2>1. sendMasterAnnouncement(d, s) = Quiet(d, u)
    BY <1>3 DEF sendMasterAnnouncement, u
  <2> QED BY <1>1, <2>1, QuietTells
<1> QED BY <1>2, <1>3

LEMMA InitialTells ==
  ASSUME NEW d, NEW s \in Server
  PROVE  LET res == becomeInitial(d, s)
         IN /\ TellsTime(res) /\ ~Answer(res.pkt)
            /\ res.srv.mState = "INITIAL"
<1> DEFINE t == [resetSyncStats(resetPosition(s)) EXCEPT
       !.mState = "INITIAL",
       !.mCurTimeout = FALSE,
       !.mMasterEP = NoDevice,
       !.mTimelineID = kInvalidTimelineID,
       !.mClockSynced = FALSE,
       !.mInitial_WhoIsMasterRequestTimeouts = 0,
       !.mClient_MasterDeviceID = NoDevice,
       !.mClient_MasterDevicePriority = 0,
       !.mRonin_WhoIsMasterRequestTimeouts = 0]
<1>1. t \in Server
  BY Constants, States DEF Server, resetSyncStats, resetPosition
<1>2. /\ t.mState = "INITIAL" /\ t.startup = <<>>
      /\ t.mCommonClock = kInvalidTimelineID
  BY DEF Server, resetSyncStats, resetPosition
<1>3. becomeInitial(d, s) = sendWhoIsMasterRequest(d, t)
  BY DEF becomeInitial
<1> HIDE DEF t
<1>4. OnTimeline(t)
  BY <1>2 DEF OnTimeline
<1> QED BY <1>1, <1>2, <1>3, <1>4, WhoIsMasterRequestTells

LEMMA RoninTells ==
  ASSUME NEW d, NEW s \in Server, OnTimeline(s)
  PROVE  LET res == becomeRonin(d, s)
         IN /\ TellsTime(res) /\ ~Answer(res.pkt)
            /\ res.srv.mState \in {"INITIAL", "RONIN"}
<1> DEFINE lost == [s EXCEPT !.mMasterEP = NoDevice]
           t == [lost EXCEPT !.mState = "RONIN",
                             !.mRonin_WhoIsMasterRequestTimeouts = 0]
<1>1. lost \in Server
  BY Constants DEF Server
<1>2. t \in Server /\ t.mState = "RONIN" /\ OnTimeline(t)
  BY Constants, States DEF Server, OnTimeline
<1>3. becomeRonin(d, s) = IF isValid(s) THEN sendWhoIsMasterRequest(d, t)
                          ELSE becomeInitial(d, lost)
  BY DEF becomeRonin
<1> HIDE DEF t, lost
<1> QED BY <1>1, <1>2, <1>3, InitialTells, WhoIsMasterRequestTells

LEMMA ClientTells ==
  ASSUME NEW d, NEW s \in Server, OnTimeline(s), Time(s), NEW p \in Packet,
         p.timelineID # kInvalidTimelineID
  PROVE  LET res == becomeClient(d, s, p)
         IN TellsTime(res) /\ ~Answer(res.pkt) /\ Adopts(p, res.srv)
<1> DEFINE u == changeTimeline(s, p.timelineID)
           v == resetSyncStats(u)
           t == [v EXCEPT
                   !.mState = "CLIENT",
                   !.mMasterEP = p.deviceID,
                   !.mForceLowPriority = FALSE,
                   !.mClient_MasterDeviceID = p.deviceID,
                   !.mClient_MasterDevicePriority = p.devicePriority]
<1>1. /\ p.timelineID \in TimelineID
      /\ p.deviceID \in Device
      /\ p.devicePriority \in DevicePriority
  BY DEF Packet
<1>2. u \in Server /\ u.mTimelineID = p.timelineID
  BY <1>1, ChangeTimeline
<1>3. OnTimeline(u)
  <2>1. CASE s.mTimelineID = p.timelineID
    BY <2>1 DEF changeTimeline
  <2>2. CASE s.mTimelineID # p.timelineID
    <3>1. u.startup = <<>> /\ u.mCommonClock = kInvalidTimelineID
      BY <2>2 DEF changeTimeline, notifyClockSyncLoss, resetPosition, Server
    <3> QED BY <3>1 DEF OnTimeline
  <2> QED BY <2>1, <2>2
<1> HIDE DEF u
<1>4. v \in Server /\ v.mTimelineID = p.timelineID /\ OnTimeline(v)
  BY <1>2, <1>3, Constants DEF Server, resetSyncStats, OnTimeline
<1> HIDE DEF v
<1>5. t \in Server
  BY <1>1, <1>4, Constants, States DEF Server
<1>6. /\ t.mState = "CLIENT" /\ t.mMasterEP = p.deviceID
      /\ t.mTimelineID = p.timelineID /\ OnTimeline(t)
  BY <1>4 DEF Server, OnTimeline
<1>7. becomeClient(d, s, p) = sendSyncRequest(d, t)
  BY DEF becomeClient, t, v, u
<1> HIDE DEF t
<1> QED BY <1>5, <1>6, <1>7, SyncRequestTells DEF Adopts

LEMMA MasterTells ==
  ASSUME NEW d \in Device, NEW s \in Server, OnTimeline(s), Time(s),
         NEW fresh \in TimelineID, fresh # kInvalidTimelineID,
         s.mTimelineID # kInvalidTimelineID /\ s.mSocket => isValid(s)
  PROVE  LET res == becomeMaster(d, s, fresh)
         IN /\ TellsTime(res) /\ ~Answer(res.pkt)
            /\ res.srv.mState = "MASTER" /\ res.srv.mSocket = s.mSocket
<1> DEFINE u == createTimeline(s, fresh)
           v == resetSyncStats(u)
           t == [v EXCEPT
                   !.mState = "MASTER",
                   !.mMasterEP = NoDevice,
                   !.mClient_MasterDeviceID = d,
                   !.mClient_MasterDevicePriority = effectivePriority(s)]
<1>1. u \in Server
  BY CreateTimeline
<1>2. OnTimeline(u) /\ u.mSocket = s.mSocket
  <2>1. CASE s.mTimelineID # kInvalidTimelineID
    BY <2>1 DEF createTimeline
  <2>2. CASE s.mTimelineID = kInvalidTimelineID
    <3>1. /\ u.startup = s.startup /\ u.mCommonClock = fresh
          /\ u.mTimelineID = fresh /\ u.mSocket = s.mSocket
      BY <2>2 DEF createTimeline, notifyClockSync, Server
    <3> QED BY <2>2, <3>1 DEF OnTimeline, Time
  <2> QED BY <2>1, <2>2
<1> HIDE DEF u
<1>3. v \in Server /\ OnTimeline(v) /\ v.mSocket = s.mSocket
  BY <1>1, <1>2, Constants DEF Server, resetSyncStats, OnTimeline
<1> HIDE DEF v
<1>4. effectivePriority(s) \in DevicePriority
  BY EffectivePriority
<1>5. t \in Server
  BY <1>3, <1>4, Constants, States DEF Server
<1>6. t.mState = "MASTER" /\ t.mSocket = s.mSocket /\ OnTimeline(t)
  BY <1>3 DEF Server, OnTimeline
<1>7. becomeMaster(d, s, fresh) = sendMasterAnnouncement(d, t)
  BY DEF becomeMaster, t, v, u
<1> HIDE DEF t
<1> QED BY <1>5, <1>6, <1>7, MasterAnnouncementTells

-----------------------------------------------------------------------------
(* The same of the handlers *)

LEMMA TimeoutTells ==
  ASSUME NEW d \in Device, NEW before, DeviceOK(d, before), OnTimeline(before),
         NEW fresh \in TimelineID, fresh # kInvalidTimelineID,
         NEW noGoodData \in BOOLEAN
  PROVE  LET res == handleTimeout(d, before, fresh, noGoodData)
         IN /\ TellsTime(res) /\ ~Answer(res.pkt)
            /\ NoNewMaster(before, res.srv)
<1> DEFINE s == [before EXCEPT !.mCurTimeout = FALSE]
           res == handleTimeout(d, before, fresh, noGoodData)
<1>1. DeviceOK(d, s)
  BY DEF DeviceOK, Server, Role, Time, CanServe
<1>2. s.mSocket \in BOOLEAN /\ s.mState \in State
  BY DEF DeviceOK, Server
<1>3. /\ OnTimeline(s) /\ s.mState = before.mState
      /\ s.mTimelineID = before.mTimelineID /\ s.mMasterEP = before.mMasterEP
  BY DEF DeviceOK, Server, OnTimeline
<1>4. res = (CASE ~s.mSocket -> Quiet(d, s)
       [] s.mSocket /\ s.mState = "INITIAL" -> handleTimeoutInitial(d, s, fresh)
       [] s.mSocket /\ s.mState = "CLIENT" ->
            handleTimeoutClient(d, s, noGoodData)
       [] s.mSocket /\ s.mState = "MASTER" -> sendMasterAnnouncement(d, s)
       [] s.mSocket /\ s.mState = "RONIN" -> handleTimeoutRonin(d, s, fresh)
       [] s.mSocket /\ s.mState = "WAIT_FOR_ELECTION" -> becomeRonin(d, s))
  BY DEF handleTimeout
<1> HIDE DEF s, res
<1>5. NoNewMaster(s, s)
  BY DEF NoNewMaster
<1>6. SUFFICES TellsTime(res) /\ ~Answer(res.pkt) /\ NoNewMaster(s, res.srv)
  BY <1>3 DEF NoNewMaster, res
<1>7. CASE ~s.mSocket
  <2>1. res = Quiet(d, s)
    BY <1>4, <1>7
  <2> QED BY <1>3, <1>5, <2>1, QuietTells
<1>8. CASE s.mSocket /\ s.mState = "INITIAL"
  <2> DEFINE n == s.mInitial_WhoIsMasterRequestTimeouts + 1
             t == [s EXCEPT !.mInitial_WhoIsMasterRequestTimeouts = n]
  <2>1. n \in Count
    BY <1>1, Constants DEF DeviceOK, Server
  <2>2. /\ t \in Server /\ Time(t) /\ OnTimeline(t)
        /\ t.mTimelineID = kInvalidTimelineID /\ t.mState = "INITIAL"
    BY <1>1, <1>3, <1>8, <2>1 DEF DeviceOK, Server, Role, Time, OnTimeline
  <2>3. res \in {becomeMaster(d, t, fresh), sendWhoIsMasterRequest(d, t)}
    BY <1>4, <1>8 DEF handleTimeoutInitial, t, n
  <2> HIDE DEF t, n
  <2>4. CASE res = becomeMaster(d, t, fresh)
    BY <2>2, <2>4, MasterTells DEF NoNewMaster
  <2>5. CASE res = sendWhoIsMasterRequest(d, t)
    BY <2>2, <2>5, WhoIsMasterRequestTells DEF NoNewMaster
  <2> QED BY <2>3, <2>4, <2>5
<1>9. CASE s.mSocket /\ s.mState = "CLIENT"
  <2> DEFINE n == s.mClient_SyncRequestTimeouts + 1
             t == [s EXCEPT !.mClient_SyncRequestPending = FALSE,
                            !.mClient_SyncRequestTimeouts = n]
  <2>1. n \in Count
    BY <1>1, Constants DEF DeviceOK, Server
  <2>2. /\ t \in Server /\ OnTimeline(t) /\ t.mState = s.mState
        /\ t.mTimelineID = s.mTimelineID /\ t.mMasterEP = s.mMasterEP
    BY <1>1, <1>3, <2>1 DEF DeviceOK, Server, OnTimeline
  <2>3. s \in Server /\ s.mClient_SyncRequestPending \in BOOLEAN
    BY <1>1 DEF DeviceOK, Server
  <2>4. res \in {becomeInitial(d, s), sendSyncRequest(d, s),
                 sendSyncRequest(d, t), becomeRonin(d, t)}
    <3>1. res = handleTimeoutClient(d, s, noGoodData)
      BY <1>4, <1>9
    <3> HIDE DEF t
    <3> QED BY <2>3, <3>1 DEF handleTimeoutClient, t, n
  <2> HIDE DEF t, n
  <2>5. CASE res = becomeInitial(d, s)
    BY <2>3, <2>5, InitialTells DEF NoNewMaster
  <2>6. CASE res = sendSyncRequest(d, s)
    BY <1>3, <1>9, <2>3, <2>6, SyncRequestTells DEF NoNewMaster
  <2>7. CASE res = sendSyncRequest(d, t)
    BY <1>9, <2>2, <2>7, SyncRequestTells DEF NoNewMaster
  <2>8. CASE res = becomeRonin(d, t)
    BY <2>2, <2>8, RoninTells DEF NoNewMaster
  <2> QED BY <2>4, <2>5, <2>6, <2>7, <2>8
<1>10. CASE s.mSocket /\ s.mState = "MASTER"
  <2>1. res = sendMasterAnnouncement(d, s) /\ s \in Server
    BY <1>1, <1>4, <1>10 DEF DeviceOK
  <2> QED BY <1>3, <1>10, <2>1, MasterAnnouncementTells DEF NoNewMaster
<1>11. CASE s.mSocket /\ s.mState = "RONIN"
  <2> DEFINE n == s.mRonin_WhoIsMasterRequestTimeouts + 1
             t == [s EXCEPT !.mRonin_WhoIsMasterRequestTimeouts = n]
  <2>1. n \in Count
    BY <1>1, Constants DEF DeviceOK, Server
  <2>2. /\ t \in Server /\ Time(t) /\ OnTimeline(t)
        /\ isValid(t) /\ t.mState = "RONIN"
    BY <1>1, <1>3, <1>11, <2>1
       DEF DeviceOK, Server, Role, Time, CanServe, OnTimeline, isValid
  <2>3. res \in {becomeMaster(d, t, fresh), sendWhoIsMasterRequest(d, t)}
    BY <1>4, <1>11 DEF handleTimeoutRonin, t, n
  <2> HIDE DEF t, n
  <2>4. CASE res = becomeMaster(d, t, fresh)
    BY <2>2, <2>4, MasterTells DEF NoNewMaster
  <2>5. CASE res = sendWhoIsMasterRequest(d, t)
    BY <2>2, <2>5, WhoIsMasterRequestTells DEF NoNewMaster
  <2> QED BY <2>3, <2>4, <2>5
<1>12. CASE s.mSocket /\ s.mState = "WAIT_FOR_ELECTION"
  <2>1. res = becomeRonin(d, s) /\ s \in Server
    BY <1>1, <1>4, <1>12 DEF DeviceOK
  <2> QED BY <1>3, <2>1, RoninTells DEF NoNewMaster
<1> QED BY <1>2, <1>7, <1>8, <1>9, <1>10, <1>11, <1>12 DEF State

LEMMA WhoIsMasterRequestHandled ==
  ASSUME NEW d \in Device, NEW s, DeviceOK(d, s), OnTimeline(s), s.mSocket,
         NEW p \in Packet
  PROVE  LET res == handleWhoIsMasterRequest(d, s, p)
         IN /\ TellsTime(res) /\ ~Answer(res.pkt)
            /\ NoNewMaster(s, res.srv) /\ NoNewReign(s, res.srv)
<1> DEFINE res == handleWhoIsMasterRequest(d, s, p)
           response == MakePacket("WHO_IS_MASTER_RESPONSE", d, s.mTimelineID,
                                  effectivePriority(s), FALSE,
                                  kInvalidTimelineID, {p.deviceID})
           t == [s EXCEPT !.mInitial_WhoIsMasterRequestTimeouts = 0]
           u == [s EXCEPT !.mState = "WAIT_FOR_ELECTION", !.mCurTimeout = TRUE]
<1>1. \/ s.mState = "MASTER" /\ res = Result(s, response)
      \/ res = Quiet(d, u)
      \/ res = Quiet(d, t)
      \/ res = Quiet(d, s)
  <2> HIDE DEF t, u, response
  <2> QED BY DEF handleWhoIsMasterRequest, becomeWaitForElection, t, u, response
<1> HIDE DEF res
<1>2. NoNewMaster(s, s) /\ NoNewReign(s, s)
  BY DEF NoNewMaster, NoNewReign
<1>3. OnTimeline(u) /\ NoNewMaster(s, u) /\ NoNewReign(s, u)
  BY DEF DeviceOK, Server, OnTimeline, NoNewMaster, NoNewReign, Serves
<1>4. OnTimeline(t) /\ NoNewMaster(s, t) /\ NoNewReign(s, t)
  BY DEF DeviceOK, Server, OnTimeline, NoNewMaster, NoNewReign, Serves
<1> HIDE DEF t, u
<1>5. CASE s.mState = "MASTER" /\ res = Result(s, response)
  <2>1. Serves(s)
    BY <1>5 DEF Serves
  <2>2. TrueTo(s, response) /\ ~Answer(response)
    BY <2>1 DEF TrueTo, Masterly, Answer, MakePacket
  <2> HIDE DEF response
  <2> QED BY <1>2, <1>5, <2>2 DEF TellsTime, Result, res
<1>6. CASE res \in {Quiet(d, u), Quiet(d, t), Quiet(d, s)}
  BY <1>2, <1>3, <1>4, <1>6, QuietTells DEF res
<1> QED BY <1>1, <1>5, <1>6

LEMMA NewsHandled ==
  ASSUME NEW d \in Device, NEW s, DeviceOK(d, s), OnTimeline(s),
         NEW p \in Packet, p.timelineID # kInvalidTimelineID,
         NEW res \in {handleWhoIsMasterResponse(d, s, p),
                      handleMasterAnnouncement(d, s, p)}
  PROVE  /\ TellsTime(res) /\ ~Answer(res.pkt)
         /\ NoNewMaster(s, res.srv) \/ Adopts(p, res.srv)
         /\ NoNewReign(s, res.srv)
<1>1. res \in {becomeClient(d, s, p), Quiet(d, s)}
  BY DEF handleWhoIsMasterResponse, handleMasterAnnouncement
<1>2. NoNewMaster(s, s) /\ NoNewReign(s, s)
  BY DEF NoNewMaster, NoNewReign
<1>3. CASE res = becomeClient(d, s, p)
  BY <1>3, ClientTells DEF DeviceOK, Adopts, NoNewReign, Serves
<1>4. CASE res = Quiet(d, s)
  BY <1>2, <1>4, QuietTells
<1> QED BY <1>1, <1>3, <1>4

\* A master answers a request that names its timeline with the time of that
\* timeline.
LEMMA SyncRequestHandled ==
  ASSUME NEW d \in Device, NEW s, DeviceOK(d, s), OnTimeline(s), s.mSocket,
         NEW p \in Packet
  PROVE  LET res == handleSyncRequest(d, s, p)
         IN /\ TellsTime(res)
            /\ Answer(res.pkt) => /\ res.pkt.to = {p.deviceID}
                                  /\ res.pkt.timelineID = p.timelineID
            /\ NoNewMaster(s, res.srv) /\ NoNewReign(s, res.srv)
            /\ res.srv.mTimelineID = s.mTimelineID
<1> DEFINE serves == s.mState = "MASTER" /\ s.mTimelineID = p.timelineID
           times == MakePacket("SYNC_RESPONSE", d, s.mTimelineID, 0, FALSE,
                               s.mCommonClock, {p.deviceID})
           refusal == MakePacket("SYNC_RESPONSE", d, s.mTimelineID, 0, TRUE,
                                 kInvalidTimelineID, {p.deviceID})
           high == [s EXCEPT !.mForceLowPriority = FALSE,
                             !.mClient_MasterDevicePriority =
                                s.mMasterPriority + 128]
           res == handleSyncRequest(d, s, p)
<1>1. NoNewMaster(s, s) /\ NoNewReign(s, s)
  BY DEF NoNewMaster, NoNewReign
<1>2. /\ OnTimeline(high) /\ NoNewMaster(s, high)
      /\ high.mState = s.mState /\ high.mSocket = s.mSocket
      /\ high.mTimelineID = s.mTimelineID
  BY DEF DeviceOK, Server, OnTimeline, NoNewMaster
<1>3. NoNewReign(s, high)
  <2> HIDE DEF high
  <2> QED BY <1>2 DEF NoNewReign, Serves
<1>4. \/ res = Result(s, refusal)
      \/ serves /\ res = Quiet(d, high)
      \/ serves /\ isValid(s) /\ res = Result(high, times)
  <2> HIDE DEF high, times, refusal
  <2> QED BY DEF handleSyncRequest, high, times, refusal
<1> HIDE DEF high, res
<1>5. CASE res = Result(s, refusal)
  <2>1. TrueTo(s, refusal) /\ ~Answer(refusal)
    BY DEF TrueTo, Masterly, Answer, MakePacket
  <2> HIDE DEF refusal
  <2> QED BY <1>1, <1>5, <2>1 DEF TellsTime, Result, res
<1>6. CASE serves /\ res = Quiet(d, high)
  BY <1>2, <1>3, <1>6, QuietTells DEF res
<1>7. CASE serves /\ isValid(s) /\ res = Result(high, times)
  <2>1. Serves(high)
    BY <1>2, <1>7 DEF Serves
  <2>2. s.mCommonClock = s.mTimelineID /\ s.mTimelineID = p.timelineID
    BY <1>7 DEF OnTimeline, isValid
  <2>3. times.timelineID = s.mTimelineID /\ times.to = {p.deviceID}
        /\ times.time = s.mCommonClock /\ times.packetType = "SYNC_RESPONSE"
    BY DEF MakePacket
  <2> HIDE DEF times
  <2>4. TrueTo(high, times)
    BY <1>2, <2>1, <2>2, <2>3 DEF TrueTo
  <2> QED BY <1>2, <1>3, <1>7, <2>2, <2>3, <2>4 DEF TellsTime, Result, res
<1> QED BY <1>4, <1>5, <1>6, <1>7

LEMMA PushedOnTimeline ==
  ASSUME NEW s \in Server, OnTimeline(s), NEW best \in 1..kStartupFilterSize
  PROVE  LET t == pushDisciplineEvent(s, s.mTimelineID, best)
         IN /\ OnTimeline(t)
            /\ t.mTimelineID = s.mTimelineID /\ t.mMasterEP = s.mMasterEP
<1> DEFINE points == IF Len(s.startup) < kStartupFilterSize
                     THEN Append(s.startup, s.mTimelineID) ELSE s.startup
           clock == IF Len(points) = kStartupFilterSize
                    THEN points[best] ELSE s.mCommonClock
           t == [s EXCEPT !.startup = points, !.mCommonClock = clock]
<1>1. s.startup \in Seq(TimelineID) /\ s.mTimelineID \in TimelineID
  BY DEF Server, DataPoints
<1>2. \A i \in 1..Len(points) : points[i] = s.mTimelineID
  <2>1. \A i \in 1..Len(s.startup) : s.startup[i] = s.mTimelineID
    BY DEF OnTimeline
  <2> QED BY <1>1, <2>1
<1> HIDE DEF points
<1>3. clock # kInvalidTimelineID => clock = s.mTimelineID
  BY <1>2 DEF OnTimeline
<1> HIDE DEF clock
<1>4. /\ t.startup = points /\ t.mCommonClock = clock
      /\ t.mTimelineID = s.mTimelineID /\ t.mMasterEP = s.mMasterEP
  BY DEF Server
<1>5. pushDisciplineEvent(s, s.mTimelineID, best) \in {s, t}
  BY DEF pushDisciplineEvent, points, clock
<1> HIDE DEF t
<1>6. OnTimeline(t)
  BY <1>2, <1>3, <1>4 DEF OnTimeline
<1> QED BY <1>4, <1>5, <1>6

\* A device whose master answers with the time of the timeline it follows
\* goes on to tell the time of that timeline.
LEMMA SyncResponseHandled ==
  ASSUME NEW d \in Device, NEW s, DeviceOK(d, s), OnTimeline(s),
         NEW p \in Packet,
         ~p.nak /\ s.mState = "CLIENT" /\ s.mMasterEP = p.deviceID =>
           p.time = s.mTimelineID,
         NEW outcome \in {"good", "late", "no_good_data", "panic"},
         NEW best \in 1..kStartupFilterSize
  PROVE  LET res == handleSyncResponse(d, s, p, outcome, best)
         IN /\ TellsTime(res) /\ ~Answer(res.pkt)
            /\ NoNewMaster(s, res.srv) /\ NoNewReign(s, res.srv)
<1> DEFINE a == [s EXCEPT !.mClient_SyncRequestPending = FALSE,
                          !.mClient_SyncRequestTimeouts = 0,
                          !.gotSyncResp = TRUE,
                          !.mCurTimeout = TRUE]
           pushed == pushDisciplineEvent(a, p.time, best)
           res == handleSyncResponse(d, s, p, outcome, best)
<1>1. \/ res = Quiet(d, s)
      \/ /\ s.mState = "CLIENT" /\ s.mMasterEP = p.deviceID
         /\ \/ res = becomeRonin(d, s)
            \/ res = Quiet(d, a)
            \/ res = becomeInitial(d, a)
            \/ res = becomeInitial(d, notifyClockSyncLoss(a))
            \/ ~p.nak /\ res = Quiet(d, notifyClockSync(pushed))
  <2> p.nak \in BOOLEAN /\ s.gotSyncResp \in BOOLEAN
    BY DEF Packet, DeviceOK, Server
  <2> HIDE DEF a
  <2> QED BY DEF handleSyncResponse, a
<1> HIDE DEF res
<1>2. /\ DeviceOK(d, s) /\ s \in Server
      /\ NoNewMaster(s, s) /\ NoNewReign(s, s)
  BY DEF DeviceOK, NoNewMaster, NoNewReign
<1>3. CASE res = Quiet(d, s)
  BY <1>2, <1>3, QuietTells DEF res
<1>4. ASSUME s.mState = "CLIENT"
      PROVE  /\ DeviceOK(d, a) /\ a.mState = "CLIENT" /\ OnTimeline(a)
             /\ a.mTimelineID = s.mTimelineID /\ a.mMasterEP = s.mMasterEP
  BY <1>4, Constants DEF DeviceOK, Server, Role, Time, CanServe, OnTimeline
<1> HIDE DEF a
<1>5. CASE s.mState = "CLIENT" /\ res = becomeRonin(d, s)
  BY <1>2, <1>5, RoninTells DEF NoNewMaster, NoNewReign, Serves, res
<1>6. CASE s.mState = "CLIENT" /\ res = Quiet(d, a)
  BY <1>4, <1>6, QuietTells DEF NoNewMaster, NoNewReign, Serves, res
<1>7. CASE s.mState = "CLIENT" /\ res = becomeInitial(d, a)
  BY <1>4, <1>7, InitialTells
     DEF DeviceOK, NoNewMaster, NoNewReign, Serves, res
<1>8. CASE s.mState = "CLIENT" /\ res = becomeInitial(d, notifyClockSyncLoss(a))
  <2>1. notifyClockSyncLoss(a) \in Server
    BY <1>4, <1>8, Constants DEF DeviceOK, Server, notifyClockSyncLoss
  <2> QED BY <1>8, <2>1, InitialTells DEF NoNewMaster, NoNewReign, Serves, res
<1>9. CASE /\ s.mState = "CLIENT" /\ s.mMasterEP = p.deviceID
           /\ ~p.nak /\ res = Quiet(d, notifyClockSync(pushed))
  <2>1. p.time \in TimelineID /\ p.time = a.mTimelineID
    BY <1>4, <1>9 DEF Packet
  <2>2. DeviceOK(d, pushed) /\ pushed.mState = "CLIENT"
    BY <1>4, <1>9, <2>1, PushDisciplineEvent
  <2>3. /\ pushed.mTimelineID = a.mTimelineID
        /\ pushed.mMasterEP = a.mMasterEP /\ OnTimeline(pushed)
    <3>1. a \in Server /\ OnTimeline(a)
      BY <1>4, <1>9 DEF DeviceOK
    <3>2. pushed = pushDisciplineEvent(a, a.mTimelineID, best)
      BY <2>1
    <3> HIDE DEF pushed
    <3> QED BY <3>1, <3>2, PushedOnTimeline
  <2> HIDE DEF pushed
  <2> DEFINE t == notifyClockSync(pushed)
  <2>4. /\ t.mState = "CLIENT" /\ t.mTimelineID = s.mTimelineID
        /\ t.mMasterEP = s.mMasterEP /\ OnTimeline(t)
    BY <1>4, <1>9, <2>2, <2>3 DEF notifyClockSync, DeviceOK, Server, OnTimeline
  <2> HIDE DEF t
  <2>5. res = Quiet(d, t)
    BY <1>9 DEF t
  <2> QED BY <1>9, <2>4, <2>5, QuietTells DEF NoNewMaster, NoNewReign, Serves,
                                              res
<1> QED BY <1>1, <1>3, <1>5, <1>6, <1>7, <1>8, <1>9

LEMMA BindInterfaceTells ==
  ASSUME NEW d \in Device, NEW before, DeviceOK(d, before), OnTimeline(before)
  PROVE  LET res == bindInterface(d, before)
         IN /\ TellsTime(res) /\ ~Answer(res.pkt)
            /\ res.srv.mState \in {"INITIAL", "RONIN"}
<1> DEFINE prio == IF before.mState = "MASTER" THEN before.mMasterPriority
                   ELSE before.mClient_MasterDevicePriority
           s == [before EXCEPT !.mSocket = TRUE, !.mForceLowPriority = TRUE,
                               !.mClient_MasterDevicePriority = prio]
<1>1. prio \in DevicePriority
  BY Constants DEF DeviceOK, Server
<1> HIDE DEF prio
<1>2. s \in Server /\ OnTimeline(s)
  BY <1>1 DEF DeviceOK, Server, OnTimeline
<1> HIDE DEF s
<1>3. bindInterface(d, before) \in {becomeInitial(d, s), becomeRonin(d, s)}
  BY DEF bindInterface, s, prio
<1> QED BY <1>2, <1>3, InitialTells, RoninTells

LEMMA LeaveNetworkTells ==
  ASSUME NEW d \in Device, NEW before, DeviceOK(d, before), OnTimeline(before),
         NEW fresh \in TimelineID, fresh # kInvalidTimelineID
  PROVE  LET res == leaveNetwork(d, before, fresh)
         IN /\ TellsTime(res) /\ ~Answer(res.pkt)
            /\ res.srv.mState # "CLIENT" /\ ~Serves(res.srv)
<1> DEFINE s == [before EXCEPT !.mSocket = FALSE]
<1>1. DeviceOK(d, s) /\ ~s.mSocket /\ OnTimeline(s) /\ s.mState = before.mState
  BY DEF DeviceOK, Server, Role, Time, CanServe, OnTimeline
<1> HIDE DEF s
<1>2. \/ /\ leaveNetwork(d, before, fresh) = Quiet(d, s)
         /\ s.mState \in {"INITIAL", "MASTER"}
      \/ leaveNetwork(d, before, fresh) = becomeInitial(d, s)
      \/ leaveNetwork(d, before, fresh) = becomeMaster(d, s, fresh)
  BY <1>1 DEF leaveNetwork, s
<1>3. CASE /\ leaveNetwork(d, before, fresh) = Quiet(d, s)
           /\ s.mState \in {"INITIAL", "MASTER"}
  BY <1>1, <1>3, QuietTells DEF Serves
<1>4. CASE leaveNetwork(d, before, fresh) = becomeInitial(d, s)
  BY <1>1, <1>4, InitialTells DEF DeviceOK, Serves
<1>5. CASE leaveNetwork(d, before, fresh) = becomeMaster(d, s, fresh)
  BY <1>1, <1>5, MasterTells DEF DeviceOK, Serves
<1> QED BY <1>2, <1>3, <1>4, <1>5

-----------------------------------------------------------------------------
(* Who may come to serve.  A device asks for a master before it becomes one, *)
(* and asks once more for every timeout in which nobody has answered.        *)

\* A device that looks for a master and has asked at a timeout.
Asking(s) ==
  /\ s.mSocket
  /\ \/ s.mState = "INITIAL" /\ s.mInitial_WhoIsMasterRequestTimeouts # 0
     \/ s.mState = "RONIN" /\ s.mRonin_WhoIsMasterRequestTimeouts # 0

Withdrawn(s) == ~Serves(s) /\ ~Asking(s)

\* A packet that tells of a master.
News(p) == p.packetType \in {"WHO_IS_MASTER_RESPONSE", "MASTER_ANNOUNCEMENT"}

\* What becomes of a device in state s that handles p: it does not begin to
\* serve, nor to ask; it sends nothing but an answer, news of itself if p asks
\* for a master and it serves; and if it goes on asking, then p was no news.
Modest(s, p, res) ==
  /\ Serves(res.srv) =>
       /\ Serves(s)
       /\ res.pkt.to \subseteq {p.deviceID}
       /\ p.packetType = "WHO_IS_MASTER_REQUEST" =>
            res.pkt.to = {p.deviceID} /\ News(res.pkt)
       /\ p.packetType # "SYNC_REQUEST" => res.pkt.to = {} \/ News(res.pkt)
  /\ Asking(res.srv) =>
       Asking(s) /\ ~News(p) /\ res.pkt.to \subseteq {p.deviceID}

\* What becomes of it at a timeout: it serves only if it did or has been
\* asking, and then tells everybody, or it goes on asking everybody.
TakesTurn(d, s, res) ==
  /\ Serves(res.srv) =>
       (Serves(s) \/ Asking(s)) /\ News(res.pkt) /\ res.pkt.to = Device \ {d}
  /\ Asking(res.srv) =>
       /\ res.pkt.packetType = "WHO_IS_MASTER_REQUEST"
       /\ res.pkt.to = Device \ {d}

LEMMA QuietIs ==
  ASSUME NEW d, NEW s
  PROVE  Quiet(d, s).srv = s /\ Quiet(d, s).pkt.to = {}
BY DEF Quiet, Result, NothingSent, MakePacket

\* Asking for a master changes nothing of who asks or serves.
LEMMA RequestAsks ==
  ASSUME NEW d, NEW s \in Server
  PROVE  LET res == sendWhoIsMasterRequest(d, s)
         IN /\ Serves(res.srv) <=> Serves(s)
            /\ Asking(res.srv) <=> Asking(s)
            /\ s.mSocket => /\ res.pkt.packetType = "WHO_IS_MASTER_REQUEST"
                            /\ res.pkt.to = Device \ {d}
<1> DEFINE t == [s EXCEPT !.mCurTimeout = TRUE]
<1>1. (Serves(t) <=> Serves(s)) /\ (Asking(t) <=> Asking(s))
  BY DEF Server, Serves, Asking
<1> HIDE DEF t
<1>2. CASE s.mSocket
  <2>1. sendWhoIsMasterRequest(d, s) =
          Result(t, MakePacket("WHO_IS_MASTER_REQUEST", d, kInvalidTimelineID,
                               effectivePriority(s), FALSE,
                               kInvalidTimelineID, Device \ {d}))
    BY <1>2 DEF sendWhoIsMasterRequest, t
  <2> QED BY <1>1, <2>1 DEF Result, MakePacket
<1>3. CASE ~s.mSocket
  BY <1>3, QuietIs DEF sendWhoIsMasterRequest
<1> QED BY <1>2, <1>3

\* A device that starts over has not asked yet,
LEMMA InitialWithdraws ==
  ASSUME NEW d, NEW s \in Server
  PROVE  Withdrawn(becomeInitial(d, s).srv)
<1> DEFINE t == [resetSyncStats(resetPosition(s)) EXCEPT
       !.mState = "INITIAL",
       !.mCurTimeout = FALSE,
       !.mMasterEP = NoDevice,
       !.mTimelineID = kInvalidTimelineID,
       !.mClockSynced = FALSE,
       !.mInitial_WhoIsMasterRequestTimeouts = 0,
       !.mClient_MasterDeviceID = NoDevice,
       !.mClient_MasterDevicePriority = 0,
       !.mRonin_WhoIsMasterRequestTimeouts = 0]
<1>1. t \in Server
  BY Constants, States DEF Server, resetSyncStats, resetPosition
<1>2. t.mState = "INITIAL" /\ t.mInitial_WhoIsMasterRequestTimeouts = 0
  BY DEF Server, resetSyncStats, resetPosition
<1>3. becomeInitial(d, s) = sendWhoIsMasterRequest(d, t)
  BY DEF becomeInitial
<1> HIDE DEF t
<1>4. Withdrawn(t)
  BY <1>2 DEF Withdrawn, Serves, Asking
<1> QED BY <1>1, <1>3, <1>4, RequestAsks DEF Withdrawn

\* nor has one that stands for election,
LEMMA RoninWithdraws ==
  ASSUME NEW d, NEW s \in Server
  PROVE  Withdrawn(becomeRonin(d, s).srv)
<1> DEFINE lost == [s EXCEPT !.mMasterEP = NoDevice]
           t == [lost EXCEPT !.mState = "RONIN",
                             !.mRonin_WhoIsMasterRequestTimeouts = 0]
<1>1. lost \in Server /\ t \in Server
  BY Constants, States DEF Server
<1>2. t.mState = "RONIN" /\ t.mRonin_WhoIsMasterRequestTimeouts = 0
  BY <1>1 DEF Server
<1>3. \/ becomeRonin(d, s) = sendWhoIsMasterRequest(d, t)
      \/ becomeRonin(d, s) = becomeInitial(d, lost)
  BY DEF becomeRonin
<1> HIDE DEF t, lost
<1>4. Withdrawn(t)
  BY <1>2 DEF Withdrawn, Serves, Asking
<1> QED BY <1>1, <1>3, <1>4, RequestAsks, InitialWithdraws DEF Withdrawn

\* and a client does not ask.
LEMMA SyncRequestWithdraws ==
  ASSUME NEW d, NEW s \in Server, s.mState = "CLIENT"
  PROVE  Withdrawn(sendSyncRequest(d, s).srv)
<1> DEFINE t == [s EXCEPT !.mClient_SyncRequestPending = TRUE,
                          !.mCurTimeout = TRUE]
<1>1. t.mState = "CLIENT"
  BY DEF Server
<1>2. sendSyncRequest(d, s).srv = t
  BY DEF sendSyncRequest, Result
<1> HIDE DEF t
<1> QED BY <1>1, <1>2 DEF Withdrawn, Serves, Asking

LEMMA ClientWithdraws ==
  ASSUME NEW d, NEW s \in Server, Time(s), NEW p \in Packet,
         p.timelineID # kInvalidTimelineID
  PROVE  Withdrawn(becomeClient(d, s, p).srv)
<1> DEFINE u == changeTimeline(s, p.timelineID)
           v == resetSyncStats(u)
           t == [v EXCEPT
                   !.mState = "CLIENT",
                   !.mMasterEP = p.deviceID,
                   !.mForceLowPriority = FALSE,
                   !.mClient_MasterDeviceID = p.deviceID,
                   !.mClient_MasterDevicePriority = p.devicePriority]
<1>1. /\ p.timelineID \in TimelineID
      /\ p.deviceID \in Device
      /\ p.devicePriority \in DevicePriority
  BY DEF Packet
<1>2. u \in Server
  BY <1>1, ChangeTimeline
<1> HIDE DEF u
<1>3. v \in Server
  BY <1>2, Constants DEF Server, resetSyncStats
<1> HIDE DEF v
<1>4. t \in Server
  BY <1>1, <1>3, Constants, States DEF Server
<1>5. t.mState = "CLIENT"
  BY <1>3 DEF Server
<1> HIDE DEF t
<1>6. becomeClient(d, s, p) = sendSyncRequest(d, t)
  BY DEF becomeClient, t, v, u
<1> QED BY <1>4, <1>5, <1>6, SyncRequestWithdraws

\* A device that becomes master tells everybody, if there is a network.
LEMMA MasterAnnounces ==
  ASSUME NEW d, NEW s \in Server, s.mState = "MASTER"
  PROVE  LET res == sendMasterAnnouncement(d, s)
         IN /\ res.srv.mSocket = s.mSocket /\ ~Asking(res.srv)
            /\ s.mSocket => News(res.pkt) /\ res.pkt.to = Device \ {d}
<1> DEFINE t == [s EXCEPT !.mCurTimeout = TRUE]
           u == [s EXCEPT !.mCurTimeout = FALSE]
<1>1. /\ t.mSocket = s.mSocket /\ t.mState = "MASTER"
      /\ u.mSocket = s.mSocket /\ u.mState = "MASTER"
  BY DEF Server
<1> HIDE DEF t, u
<1>2. ~Asking(t) /\ ~Asking(u)
  BY <1>1 DEF Asking
<1>3. CASE s.mSocket
  <2>1. sendMasterAnnouncement(d, s) =
          Result(t, MakePacket("MASTER_ANNOUNCEMENT", d, s.mTimelineID,
                               effectivePriority(s), FALSE,
                               kInvalidTimelineID, Device \ {d}))
    BY <1>3 DEF sendMasterAnnouncement, t
  <2> QED BY <1>1, <1>2, <2>1 DEF Result, MakePacket, News
<1>4. CASE ~s.mSocket
  <2>1. sendMasterAnnouncement(d, s) = Quiet(d, u)
    BY <1>4 DEF sendMasterAnnouncement, u
  <2> QED BY <1>1, <1>2, <1>4, <2>1, QuietIs
<1> QED BY <1>3, <1>4

LEMMA BecomesMaster ==
  ASSUME NEW d \in Device, NEW s \in Server, Time(s),
         NEW fresh \in TimelineID, fresh # kInvalidTimelineID,
         s.mTimelineID # kInvalidTimelineID /\ s.mSocket => isValid(s)
  PROVE  LET res == becomeMaster(d, s, fresh)
         IN /\ res.srv.mSocket = s.mSocket /\ ~Asking(res.srv)
            /\ s.mSocket => News(res.pkt) /\ res.pkt.to = Device \ {d}
<1> DEFINE u == createTimeline(s, fresh)
           v == resetSyncStats(u)
           t == [v EXCEPT
                   !.mState = "MASTER",
                   !.mMasterEP = NoDevice,
                   !.mClient_MasterDeviceID = d,
                   !.mClient_MasterDevicePriority = effectivePriority(s)]
<1>1. u \in Server
  BY CreateTimeline
<1>2. u.mSocket = s.mSocket
  BY DEF createTimeline, notifyClockSync, Server
<1> HIDE DEF u
<1>3. v \in Server /\ v.mSocket = s.mSocket
  BY <1>1, <1>2, Constants DEF Server, resetSyncStats
<1> HIDE DEF v
<1>4. effectivePriority(s) \in DevicePriority
  BY EffectivePriority
<1>5. t \in Server
  BY <1>3, <1>4, Constants, States DEF Server
<1>6. t.mState = "MASTER" /\ t.mSocket = s.mSocket
  BY <1>3 DEF Server
<1> HIDE DEF t
<1>7. becomeMaster(d, s, fresh) = sendMasterAnnouncement(d, t)
  BY DEF becomeMaster, t, v, u
<1> QED BY <1>5, <1>6, <1>7, MasterAnnounces

\* A device asks at least twice before it serves, as it does in the code.
Patient ==
  kInitial_NumWhoIsMasterRetries > 1 /\ kRonin_NumWhoIsMasterRetries > 1

LEMMA InitialTakesTurn ==
  ASSUME Patient, NEW d \in Device, NEW s, DeviceOK(d, s),
         s.mState = "INITIAL", s.mSocket,
         NEW fresh \in TimelineID, fresh # kInvalidTimelineID
  PROVE  TakesTurn(d, s, handleTimeoutInitial(d, s, fresh))
<1> DEFINE n == s.mInitial_WhoIsMasterRequestTimeouts + 1
           t == [s EXCEPT !.mInitial_WhoIsMasterRequestTimeouts = n]
           res == handleTimeoutInitial(d, s, fresh)
<1>1. n \in Count /\ (n = kInitial_NumWhoIsMasterRetries => Asking(s))
  BY DEF DeviceOK, Server, Count, Patient, Asking
<1>2. /\ res = IF n = kInitial_NumWhoIsMasterRetries
              THEN becomeMaster(d, t, fresh) ELSE sendWhoIsMasterRequest(d, t)
  BY DEF handleTimeoutInitial
<1> HIDE DEF n, res
<1>3. DeviceOK(d, t) /\ t.mTimelineID = kInvalidTimelineID
  BY <1>1 DEF DeviceOK, Server, Role, Time, CanServe
<1>4. t.mSocket /\ t.mState = "INITIAL"
  BY DEF DeviceOK, Server
<1> HIDE DEF t
<1>5. CASE n = kInitial_NumWhoIsMasterRetries
  <2>1. /\ ~Asking(becomeMaster(d, t, fresh).srv)
        /\ News(becomeMaster(d, t, fresh).pkt)
        /\ becomeMaster(d, t, fresh).pkt.to = Device \ {d}
    BY <1>3, <1>4, BecomesMaster DEF DeviceOK
  <2> QED BY <1>1, <1>2, <1>5, <2>1 DEF TakesTurn, res
<1>6. CASE n # kInitial_NumWhoIsMasterRetries
  <2>1. ~Serves(t) /\ t \in Server
    BY <1>3, <1>4 DEF Serves, DeviceOK
  <2>2. /\ ~Serves(res.srv)
        /\ res.pkt.packetType = "WHO_IS_MASTER_REQUEST"
        /\ res.pkt.to = Device \ {d}
    BY <1>2, <1>4, <1>6, <2>1, RequestAsks
  <2> QED BY <2>2 DEF TakesTurn, res
<1> QED BY <1>5, <1>6

LEMMA RoninTakesTurn ==
  ASSUME Patient, NEW d \in Device, NEW s, DeviceOK(d, s),
         s.mState = "RONIN", s.mSocket,
         NEW fresh \in TimelineID, fresh # kInvalidTimelineID
  PROVE  TakesTurn(d, s, handleTimeoutRonin(d, s, fresh))
<1> DEFINE n == s.mRonin_WhoIsMasterRequestTimeouts + 1
           t == [s EXCEPT !.mRonin_WhoIsMasterRequestTimeouts = n]
           res == handleTimeoutRonin(d, s, fresh)
<1>1. n \in Count /\ (n = kRonin_NumWhoIsMasterRetries => Asking(s))
  BY DEF DeviceOK, Server, Count, Patient, Asking
<1>2. /\ res = IF n = kRonin_NumWhoIsMasterRetries
              THEN becomeMaster(d, t, fresh) ELSE sendWhoIsMasterRequest(d, t)
  BY DEF handleTimeoutRonin
<1> HIDE DEF n, res
<1>3. DeviceOK(d, t) /\ isValid(t)
  BY <1>1 DEF DeviceOK, Server, Role, Time, CanServe, isValid
<1>4. t.mSocket /\ t.mState = "RONIN"
  BY DEF DeviceOK, Server
<1> HIDE DEF t
<1>5. CASE n = kRonin_NumWhoIsMasterRetries
  <2>1. /\ ~Asking(becomeMaster(d, t, fresh).srv)
        /\ News(becomeMaster(d, t, fresh).pkt)
        /\ becomeMaster(d, t, fresh).pkt.to = Device \ {d}
    BY <1>3, <1>4, BecomesMaster DEF DeviceOK
  <2> QED BY <1>1, <1>2, <1>5, <2>1 DEF TakesTurn, res
<1>6. CASE n # kRonin_NumWhoIsMasterRetries
  <2>1. ~Serves(t) /\ t \in Server
    BY <1>3, <1>4 DEF Serves, DeviceOK
  <2>2. /\ ~Serves(res.srv)
        /\ res.pkt.packetType = "WHO_IS_MASTER_REQUEST"
        /\ res.pkt.to = Device \ {d}
    BY <1>2, <1>4, <1>6, <2>1, RequestAsks
  <2> QED BY <2>2 DEF TakesTurn, res
<1> QED BY <1>5, <1>6

LEMMA ClientTakesTurn ==
  ASSUME NEW d \in Device, NEW s, DeviceOK(d, s), s.mState = "CLIENT",
         NEW noGoodData \in BOOLEAN
  PROVE  Withdrawn(handleTimeoutClient(d, s, noGoodData).srv)
<1> DEFINE n == s.mClient_SyncRequestTimeouts + 1
           t == [s EXCEPT !.mClient_SyncRequestPending = FALSE,
                          !.mClient_SyncRequestTimeouts = n]
           res == handleTimeoutClient(d, s, noGoodData)
<1>1. n \in Count /\ s.mClient_SyncRequestPending \in BOOLEAN /\ s \in Server
  BY Constants DEF DeviceOK, Server
<1> HIDE DEF n
<1>2. t \in Server /\ t.mState = "CLIENT"
  BY <1>1 DEF Server
<1> HIDE DEF t
<1>3. \/ noGoodData /\ res = becomeInitial(d, s)
      \/ res = sendSyncRequest(d, s)
      \/ res = sendSyncRequest(d, t)
      \/ res = becomeRonin(d, t)
  <2>1. CASE noGoodData
    BY <2>1 DEF handleTimeoutClient
  <2>2. CASE ~noGoodData /\ ~s.mClient_SyncRequestPending
    BY <2>2 DEF handleTimeoutClient
  <2>3. CASE ~noGoodData /\ s.mClient_SyncRequestPending
    BY <2>3 DEF handleTimeoutClient, t, n
  <2> QED BY <1>1, <2>1, <2>2, <2>3
<1> HIDE DEF res
<1>4. Withdrawn(res.srv)
  BY <1>1, <1>2, <1>3, InitialWithdraws, SyncRequestWithdraws, RoninWithdraws
<1> QED BY <1>4 DEF res

LEMMA TimeoutTakesTurn ==
  ASSUME Patient, NEW d \in Device, NEW before, DeviceOK(d, before),
         before.mSocket,
         NEW fresh \in TimelineID, fresh # kInvalidTimelineID,
         NEW noGoodData \in BOOLEAN
  PROVE  TakesTurn(d, before, handleTimeout(d, before, fresh, noGoodData))
<1> DEFINE s == [before EXCEPT !.mCurTimeout = FALSE]
           res == handleTimeout(d, before, fresh, noGoodData)
<1>1. DeviceOK(d, s) /\ s \in Server
  BY DEF DeviceOK, Server, Role, Time, CanServe
<1>2. s.mSocket /\ s.mState \in State
  BY DEF DeviceOK, Server
<1>3. (Serves(s) <=> Serves(before)) /\ (Asking(s) <=> Asking(before))
  BY DEF DeviceOK, Server, Serves, Asking
<1>4. res = (CASE ~s.mSocket -> Quiet(d, s)
       [] s.mSocket /\ s.mState = "INITIAL" -> handleTimeoutInitial(d, s, fresh)
       [] s.mSocket /\ s.mState = "CLIENT" ->
            handleTimeoutClient(d, s, noGoodData)
       [] s.mSocket /\ s.mState = "MASTER" -> sendMasterAnnouncement(d, s)
       [] s.mSocket /\ s.mState = "RONIN" -> handleTimeoutRonin(d, s, fresh)
       [] s.mSocket /\ s.mState = "WAIT_FOR_ELECTION" -> becomeRonin(d, s))
  BY DEF handleTimeout
<1> HIDE DEF s, res
<1>5. TakesTurn(d, s, res)
  <2>1. CASE s.mState = "INITIAL"
    BY <1>1, <1>2, <1>4, <2>1, InitialTakesTurn
  <2>2. CASE s.mState = "CLIENT"
    <3>1. res = handleTimeoutClient(d, s, noGoodData)
      BY <1>2, <1>4, <2>2
    <3> QED BY <1>1, <2>2, <3>1, ClientTakesTurn DEF TakesTurn, Withdrawn
  <2>3. CASE s.mState = "MASTER"
    <3>1. res = sendMasterAnnouncement(d, s)
      BY <1>2, <1>4, <2>3
    <3>2. Serves(s)
      BY <1>2, <2>3 DEF Serves
    <3> QED BY <1>1, <1>2, <2>3, <3>1, <3>2, MasterAnnounces DEF TakesTurn
  <2>4. CASE s.mState = "RONIN"
    BY <1>1, <1>2, <1>4, <2>4, RoninTakesTurn
  <2>5. CASE s.mState = "WAIT_FOR_ELECTION"
    <3>1. res = becomeRonin(d, s)
      BY <1>2, <1>4, <2>5
    <3> QED BY <1>1, <3>1, RoninWithdraws DEF TakesTurn, Withdrawn
  <2> QED BY <1>2, <2>1, <2>2, <2>3, <2>4, <2>5 DEF State
<1> QED BY <1>3, <1>5 DEF TakesTurn, res

LEMMA WhoIsMasterRequestModest ==
  ASSUME NEW d \in Device, NEW s, DeviceOK(d, s), NEW p \in Packet,
         p.packetType = "WHO_IS_MASTER_REQUEST",
         p.timelineID = kInvalidTimelineID
  PROVE  Modest(s, p, handleWhoIsMasterRequest(d, s, p))
<1> DEFINE res == handleWhoIsMasterRequest(d, s, p)
           response == MakePacket("WHO_IS_MASTER_RESPONSE", d, s.mTimelineID,
                                  effectivePriority(s), FALSE,
                                  kInvalidTimelineID, {p.deviceID})
           t == [s EXCEPT !.mInitial_WhoIsMasterRequestTimeouts = 0]
           w == [s EXCEPT !.mState = "WAIT_FOR_ELECTION", !.mCurTimeout = TRUE]
<1>1. \/ s.mState = "MASTER" /\ res = Result(s, response)
      \/ res = Quiet(d, w)
      \/ s.mState = "INITIAL" /\ res = Quiet(d, t)
      \/ s.mState # "MASTER" /\ res = Quiet(d, s)
  <2> HIDE DEF t, w, response
  <2> QED BY DEF handleWhoIsMasterRequest, becomeWaitForElection, t, w, response
<1>2. ~News(p)
  BY DEF News
<1>3. /\ News(response) /\ response.to = {p.deviceID}
  BY DEF News, MakePacket
<1>4. Withdrawn(w)
  BY DEF DeviceOK, Server, Withdrawn, Serves, Asking
<1>5. s.mState = "INITIAL" => Withdrawn(t)
  BY DEF DeviceOK, Server, Withdrawn, Serves, Asking
<1>6. s.mState # "MASTER" => ~Serves(s)
  BY DEF Serves
<1>7. s.mState = "MASTER" => ~Asking(s)
  BY DEF Asking
<1> HIDE DEF res, response, t, w
<1>8. CASE s.mState = "MASTER" /\ res = Result(s, response)
  <2>1. res.srv = s /\ res.pkt = response
    BY <1>8 DEF Result
  <2> QED BY <1>3, <1>7, <1>8, <2>1 DEF Modest, res
<1>9. CASE res = Quiet(d, w)
  BY <1>4, <1>9, QuietIs DEF Modest, Withdrawn, res
<1>10. CASE s.mState = "INITIAL" /\ res = Quiet(d, t)
  BY <1>5, <1>10, QuietIs DEF Modest, Withdrawn, res
<1>11. CASE s.mState # "MASTER" /\ res = Quiet(d, s)
  BY <1>2, <1>6, <1>11, QuietIs DEF Modest, res
<1> QED BY <1>1, <1>8, <1>9, <1>10, <1>11

\* Who hears of a master follows it, or has one already.
LEMMA NewsModest ==
  ASSUME NEW d \in Device, NEW s, DeviceOK(d, s), NEW p \in Packet, News(p),
         p.timelineID # kInvalidTimelineID
  PROVE  /\ Modest(s, p, handleWhoIsMasterResponse(d, s, p))
              \/ p.packetType # "WHO_IS_MASTER_RESPONSE"
         /\ Modest(s, p, handleMasterAnnouncement(d, s, p))
              \/ p.packetType # "MASTER_ANNOUNCEMENT"
<1> DEFINE response == handleWhoIsMasterResponse(d, s, p)
           announcement == handleMasterAnnouncement(d, s, p)
<1>1. Withdrawn(becomeClient(d, s, p).srv)
  BY ClientWithdraws DEF DeviceOK
<1>2. \/ response = becomeClient(d, s, p)
      \/ response = Quiet(d, s) /\ s.mState \notin {"INITIAL", "RONIN"}
  BY DEF handleWhoIsMasterResponse
<1>3. \/ announcement = becomeClient(d, s, p)
      \/ announcement = Quiet(d, s) /\ s.mState \notin {"INITIAL", "RONIN"}
  BY DEF handleMasterAnnouncement
<1>4. s.mState \notin {"INITIAL", "RONIN"} => ~Asking(s)
  BY DEF Asking
<1>5. p.packetType # "WHO_IS_MASTER_REQUEST"
  BY DEF News
<1> HIDE DEF response, announcement
<1>6. Modest(s, p, response)
  BY <1>1, <1>2, <1>4, <1>5, QuietIs DEF Modest, Withdrawn
<1>7. Modest(s, p, announcement)
  BY <1>1, <1>3, <1>4, <1>5, QuietIs DEF Modest, Withdrawn
<1> QED BY <1>6, <1>7 DEF response, announcement

LEMMA SyncRequestModest ==
  ASSUME NEW d, NEW s \in Server, NEW p \in Packet,
         p.packetType = "SYNC_REQUEST"
  PROVE  Modest(s, p, handleSyncRequest(d, s, p))
<1> DEFINE res == handleSyncRequest(d, s, p)
           high == [s EXCEPT !.mForceLowPriority = FALSE,
                             !.mClient_MasterDevicePriority =
                                s.mMasterPriority + 128]
           valid == s.mCommonClock # kInvalidTimelineID
           serves == s.mState = "MASTER" /\ s.mTimelineID = p.timelineID
<1>1. (Serves(high) <=> Serves(s)) /\ (Asking(high) <=> Asking(s))
  BY DEF Server, Serves, Asking
<1> HIDE DEF high
<1>2. /\ res.srv \in {s, high}
      /\ res.pkt.to \subseteq {p.deviceID}
  <2>1. CASE ~serves
    BY <2>1 DEF handleSyncRequest, Result, MakePacket
  <2>2. CASE serves /\ ~valid
    <3>1. res = Quiet(d, high)
      BY <2>2 DEF handleSyncRequest, isValid, high
    <3> HIDE DEF res
    <3> QED BY <3>1, QuietIs
  <2>3. CASE serves /\ valid
    BY <2>3 DEF handleSyncRequest, isValid, Result, MakePacket, high
  <2> QED BY <2>1, <2>2, <2>3
<1>3. p.packetType # "WHO_IS_MASTER_REQUEST" /\ ~News(p)
  BY DEF News
<1> HIDE DEF res
<1> QED BY <1>1, <1>2, <1>3 DEF Modest, res

LEMMA SyncResponseModest ==
  ASSUME NEW d \in Device, NEW s \in Server, NEW p \in Packet,
         p.packetType = "SYNC_RESPONSE", NEW best,
         NEW outcome \in {"good", "late", "no_good_data", "panic"}
  PROVE  Modest(s, p, handleSyncResponse(d, s, p, outcome, best))
<1> DEFINE res == handleSyncResponse(d, s, p, outcome, best)
           answered == [s EXCEPT !.mClient_SyncRequestPending = FALSE,
                                 !.mClient_SyncRequestTimeouts = 0,
                                 !.gotSyncResp = TRUE,
                                 !.mCurTimeout = TRUE]
           told == notifyClockSyncLoss(answered)
           pushed == pushDisciplineEvent(answered, p.time, best)
           synced == notifyClockSync(pushed)
<1>1. \/ res = Quiet(d, s)
      \/ s.mState = "CLIENT"
         /\ \/ res = becomeRonin(d, s)
            \/ res = Quiet(d, answered)
            \/ res = becomeInitial(d, answered)
            \/ res = becomeInitial(d, told)
            \/ res = Quiet(d, synced)
  <2>1. CASE s.mState # "CLIENT" \/ p.deviceID # s.mMasterEP
    BY <2>1 DEF handleSyncResponse
  <2> DEFINE follows == s.mState = "CLIENT" /\ p.deviceID = s.mMasterEP
  <2>2. CASE follows /\ p.nak
    BY <2>2 DEF handleSyncResponse
  <2>3. CASE follows /\ ~p.nak /\ (~s.gotSyncResp \/ outcome = "late")
    BY <2>3 DEF handleSyncResponse, answered
  <2>4. CASE follows /\ ~p.nak /\ s.gotSyncResp /\ outcome # "late"
    <3>1. outcome = "no_good_data" => res = becomeInitial(d, answered)
      BY <2>4 DEF handleSyncResponse
    <3>2. outcome = "panic" => res = becomeInitial(d, told)
      BY <2>4 DEF handleSyncResponse
    <3>3. outcome = "good" => res = Quiet(d, synced)
      BY <2>4 DEF handleSyncResponse
    <3> QED BY <2>4, <3>1, <3>2, <3>3
  <2> QED BY <2>1, <2>2, <2>3, <2>4 DEF Packet, Server
<1>2. answered \in Server /\ answered.mState = s.mState
  BY Constants DEF Server
<1> HIDE DEF answered
<1>3. told \in Server
  BY <1>2, Constants DEF notifyClockSyncLoss, Server
<1>4. pushed.mState = s.mState
  BY <1>2, Constants DEF pushDisciplineEvent, Server
<1> HIDE DEF told, pushed
<1>5. synced.mState = s.mState
  BY <1>4 DEF notifyClockSync
<1>6. p.packetType # "WHO_IS_MASTER_REQUEST" /\ ~News(p)
  BY DEF News
<1> HIDE DEF res, synced
<1>7. CASE res = Quiet(d, s)
  BY <1>6, <1>7, QuietIs DEF Modest, res
<1>8. CASE Withdrawn(res.srv)
  BY <1>8 DEF Withdrawn, Modest, res
<1>9. s.mState = "CLIENT" =>
        /\ Withdrawn(answered) /\ Withdrawn(synced)
        /\ Withdrawn(becomeRonin(d, s).srv)
        /\ Withdrawn(becomeInitial(d, answered).srv)
        /\ Withdrawn(becomeInitial(d, told).srv)
  BY <1>2, <1>3, <1>5, RoninWithdraws, InitialWithdraws
     DEF Withdrawn, Serves, Asking
<1> QED BY <1>1, <1>7, <1>8, <1>9, QuietIs

LEMMA BindInterfaceWithdraws ==
  ASSUME NEW d \in Device, NEW s, DeviceOK(d, s)
  PROVE  Withdrawn(bindInterface(d, s).srv)
<1> DEFINE res == bindInterface(d, s)
           t == [s EXCEPT !.mSocket = TRUE, !.mForceLowPriority = TRUE,
                          !.mClient_MasterDevicePriority =
                             IF s.mState = "MASTER"
                             THEN s.mMasterPriority ELSE @]
<1>1. t \in Server
  <2>1. \A n \in ConfiguredPriority : n \in DevicePriority
    BY DEF ConfiguredPriority, DevicePriority
  <2> QED BY <2>1 DEF DeviceOK, Server
<1>2. res = becomeInitial(d, t) \/ res = becomeRonin(d, t)
  BY DEF bindInterface
<1> HIDE DEF res, t
<1>3. Withdrawn(res.srv)
  BY <1>1, <1>2, InitialWithdraws, RoninWithdraws
<1> QED BY <1>3 DEF res

LEMMA LeaveNetworkWithdraws ==
  ASSUME NEW d \in Device, NEW s, DeviceOK(d, s),
         NEW fresh \in TimelineID, fresh # kInvalidTimelineID
  PROVE  Withdrawn(leaveNetwork(d, s, fresh).srv)
<1> DEFINE res == leaveNetwork(d, s, fresh)
           t == [s EXCEPT !.mSocket = FALSE]
<1>1. DeviceOK(d, t) /\ t \in Server /\ ~t.mSocket
  BY DEF DeviceOK, Server, Role, Time, CanServe
<1>2. \/ res = Quiet(d, t)
      \/ res = becomeInitial(d, t)
      \/ res = becomeMaster(d, t, fresh)
  BY DEF leaveNetwork
<1> HIDE DEF res, t
<1>3. CASE res = Quiet(d, t)
  BY <1>1, <1>3, QuietIs DEF Withdrawn, Serves, Asking, res
<1>4. CASE res = becomeInitial(d, t)
  BY <1>1, <1>4, InitialWithdraws DEF res
<1>5. CASE res = becomeMaster(d, t, fresh)
  BY <1>1, <1>5, BecomesMaster DEF Withdrawn, Serves, DeviceOK, res
<1> QED BY <1>2, <1>3, <1>4, <1>5
=============================================================================
