------------------------- MODULE TimeServerHandlers -------------------------
(***************************************************************************)
(* The handlers and state transitions of one CommonTimeServer, the work    *)
(* thread of libs/common_time: it looks for the master of a common         *)
(* timeline, follows it or becomes it.                                     *)
(*                                                                         *)
(* A device's state is one record whose fields carry the names of the C++  *)
(* members.  The handlers and the become*() transitions are operators from *)
(* a record to a Result: the new record and the packet sent, for each of   *)
(* them sends at most one.  Definitions named Bug_... are what the one     *)
(* after them would be with a plausible mistake; no module uses them.      *)
(***************************************************************************)
EXTENDS Integers, Sequences, FiniteSets

CONSTANTS
  Device,            \* device IDs (the MAC addresses of assignDeviceID)
  Priority,          \* what setMasterElectionPriority may be called with
  kInitial_NumWhoIsMasterRetries,
  kRonin_NumWhoIsMasterRetries,
  kClient_NumSyncRequestRetries,
  kStartupFilterSize

ASSUME DeviceAssumption == Device \subseteq Nat \ {0} /\ IsFiniteSet(Device)
ASSUME PriorityAssumption == Priority \subseteq 0..127 /\ Priority # {}
ASSUME RetryAssumption ==
  /\ kInitial_NumWhoIsMasterRetries \in Nat \ {0}
  /\ kRonin_NumWhoIsMasterRetries \in Nat \ {0}
  /\ kClient_NumSyncRequestRetries \in Nat \ {0}
  /\ kStartupFilterSize \in Nat \ {0}

-----------------------------------------------------------------------------
(* Data *)

NoDevice == 0
kInvalidTimelineID == 0
TimelineID == Nat
State == {"INITIAL", "CLIENT", "MASTER", "RONIN", "WAIT_FOR_ELECTION"}
MasterID == Device \cup {NoDevice}
ConfiguredPriority == 0..127
DevicePriority == 0..255
DataPoints == Seq(TimelineID)
Count == Nat

\* The state of one CommonTimeServer.  mCommonClock is the timeline whose time
\* the clock's basis was taken from (kInvalidTimelineID: not valid), startup
\* the same of each point of the startup filter.  gotSyncResp is
\* mClient_SyncRespsRXedFromCurMaster > 0, mCurTimeout whether a timeout is
\* scheduled, toldTimeline the last timeline the listeners were told of.
Server ==
  [mState: State,
   mSocket: BOOLEAN,
   mTimelineID: TimelineID,
   mCommonClock: TimelineID,
   startup: DataPoints,
   mClockSynced: BOOLEAN,
   toldTimeline: TimelineID,
   mForceLowPriority: BOOLEAN,
   mMasterPriority: ConfiguredPriority,
   mMasterEP: MasterID,
   mClient_MasterDeviceID: MasterID,
   mClient_MasterDevicePriority: DevicePriority,
   mInitial_WhoIsMasterRequestTimeouts: Count,
   mRonin_WhoIsMasterRequestTimeouts: Count,
   mClient_SyncRequestPending: BOOLEAN,
   mClient_SyncRequestTimeouts: Count,
   gotSyncResp: BOOLEAN,
   mCurTimeout: BOOLEAN]

PacketType == {"WHO_IS_MASTER_REQUEST", "WHO_IS_MASTER_RESPONSE",
               "SYNC_REQUEST", "SYNC_RESPONSE", "MASTER_ANNOUNCEMENT"}

\* One shape for the five packets; deviceID is the sender, which is its source
\* address too.  time is the timeline the common times of a SYNC_RESPONSE are
\* taken from, kInvalidTimelineID in the other packets and in a NAK.
Packet ==
  [packetType: PacketType, timelineID: TimelineID, deviceID: Device,
   devicePriority: DevicePriority, nak: BOOLEAN, time: TimelineID, to: SUBSET Device]

\* Mutant: the high bit is shifted out of the byte.
Bug_WidePriority(s) ==
  s.mMasterPriority + (IF s.mForceLowPriority THEN 0 ELSE 256)

effectivePriority(s) ==
  s.mMasterPriority + (IF s.mForceLowPriority THEN 0 ELSE 128)

\* Does the first of two candidate masters win?
arbitrateMaster(id1, prio1, id2, prio2) ==
  prio1 > prio2 \/ (prio1 = prio2 /\ id1 > id2)

MakePacket(type, d, timeline, prio, nak, time, to) ==
  [packetType |-> type, timelineID |-> timeline, deviceID |-> d,
   devicePriority |-> prio, nak |-> nak, time |-> time, to |-> to]

Result(s, p) == [srv |-> s, pkt |-> p]

\* What a handler that sends nothing leaves to transmit.
NothingSent(d) ==
  MakePacket("SYNC_REQUEST", d, kInvalidTimelineID, 0, FALSE,
             kInvalidTimelineID, {})
Quiet(d, s) == Result(s, NothingSent(d))

-----------------------------------------------------------------------------
(* Sending *)

sendWhoIsMasterRequest(d, s) ==
  IF s.mSocket
  THEN Result([s EXCEPT !.mCurTimeout = TRUE],
              MakePacket("WHO_IS_MASTER_REQUEST", d, kInvalidTimelineID,
                         effectivePriority(s), FALSE, kInvalidTimelineID,
                         Device \ {d}))
  ELSE Quiet(d, s)

sendSyncRequest(d, s) ==
  Result([s EXCEPT !.mClient_SyncRequestPending = TRUE, !.mCurTimeout = TRUE],
         MakePacket("SYNC_REQUEST", d, s.mTimelineID, 0, FALSE,
                    kInvalidTimelineID, {s.mMasterEP}))

\* Mutant: the next announcement is not scheduled.
Bug_AnnounceOnce(d, s) ==
  Result(s, MakePacket("MASTER_ANNOUNCEMENT", d, s.mTimelineID,
                       effectivePriority(s), FALSE, kInvalidTimelineID,
                       Device \ {d}))

sendMasterAnnouncement(d, s) ==
  IF s.mSocket
  THEN Result([s EXCEPT !.mCurTimeout = TRUE],
              MakePacket("MASTER_ANNOUNCEMENT", d, s.mTimelineID,
                         effectivePriority(s), FALSE, kInvalidTimelineID,
                         Device \ {d}))
  ELSE Quiet(d, [s EXCEPT !.mCurTimeout = FALSE])

-----------------------------------------------------------------------------
(* Transitions *)

\* Tell the listeners of a change, once.
notifyClockSync(s) ==
  IF s.mClockSynced THEN s
  ELSE [s EXCEPT !.mClockSynced = TRUE, !.toldTimeline = s.mTimelineID]

notifyClockSyncLoss(s) ==
  IF s.mClockSynced
  THEN [s EXCEPT !.mClockSynced = FALSE, !.toldTimeline = kInvalidTimelineID]
  ELSE s

\* mClockRecovery.reset(true, true): the clock loses its basis.  The frequency
\* half, reset(false, true), touches nothing that is modelled here.
\* Mutant: the startup filter survives.
Bug_KeepStartup(s) == [s EXCEPT !.mCommonClock = kInvalidTimelineID]

resetPosition(s) ==
  [s EXCEPT !.mCommonClock = kInvalidTimelineID, !.startup = <<>>]

resetSyncStats(s) ==
  [s EXCEPT !.mClient_SyncRequestPending = FALSE,
            !.mClient_SyncRequestTimeouts = 0,
            !.gotSyncResp = FALSE]

\* Mutant: the listeners are not told that the old timeline is gone.
Bug_SilentChange(s, timeline) ==
  IF s.mTimelineID = timeline THEN s
  ELSE resetPosition([s EXCEPT !.mTimelineID = timeline])

\* Mutant: only the frequency half of the recovery loop is reset.
Bug_KeepTime(s, timeline) ==
  notifyClockSyncLoss([s EXCEPT !.mTimelineID = timeline])

\* The first half of becomeClient: give up the time of another timeline.
changeTimeline(s, timeline) ==
  IF s.mTimelineID = timeline THEN s
  ELSE notifyClockSyncLoss(resetPosition([s EXCEPT !.mTimelineID = timeline]))

\* Follow the master that sent p.
becomeClient(d, s, p) ==
  sendSyncRequest(d,
       [resetSyncStats(changeTimeline(s, p.timelineID)) EXCEPT
          !.mState = "CLIENT",
          !.mMasterEP = p.deviceID,
          !.mForceLowPriority = FALSE,
          !.mClient_MasterDeviceID = p.deviceID,
          !.mClient_MasterDevicePriority = p.devicePriority])

\* The first half of becomeMaster: a device that has been following no
\* timeline creates the timeline `fresh`.
createTimeline(s, fresh) ==
  IF s.mTimelineID # kInvalidTimelineID THEN s
  ELSE notifyClockSync([s EXCEPT !.mCommonClock = fresh,
                                 !.mTimelineID = fresh])

\* Mutant: the old master's endpoint is kept.
Bug_KeepMaster(d, s, fresh) ==
  sendMasterAnnouncement(d,
       [resetSyncStats(createTimeline(s, fresh)) EXCEPT !.mState = "MASTER"])

becomeMaster(d, s, fresh) ==
  sendMasterAnnouncement(d,
       [resetSyncStats(createTimeline(s, fresh)) EXCEPT
          !.mState = "MASTER",
          !.mMasterEP = NoDevice,
          !.mClient_MasterDeviceID = d,
          !.mClient_MasterDevicePriority = effectivePriority(s)])

\* Start over.  mClockSynced is cleared without telling the listeners.
becomeInitial(d, s) ==
  sendWhoIsMasterRequest(d,
    [resetSyncStats(resetPosition(s)) EXCEPT
       !.mState = "INITIAL",
       !.mCurTimeout = FALSE,
       !.mMasterEP = NoDevice,
       !.mTimelineID = kInvalidTimelineID,
       !.mClockSynced = FALSE,
       !.mInitial_WhoIsMasterRequestTimeouts = 0,
       !.mClient_MasterDeviceID = NoDevice,
       !.mClient_MasterDevicePriority = 0,
       !.mRonin_WhoIsMasterRequestTimeouts = 0])

\* Mutant: any device that followed a timeline stands for election.
Bug_KnowsTimeline(s) == s.mTimelineID # kInvalidTimelineID

isValid(s) == s.mCommonClock # kInvalidTimelineID

\* Look for a new master; without the time of the old timeline, start over.
becomeRonin(d, s) ==
  LET lost == [s EXCEPT !.mMasterEP = NoDevice]
  IN IF isValid(s)
     THEN sendWhoIsMasterRequest(d,
            [lost EXCEPT !.mState = "RONIN",
                         !.mRonin_WhoIsMasterRequestTimeouts = 0])
     ELSE becomeInitial(d, lost)

becomeWaitForElection(d, s) ==
  Quiet(d, [s EXCEPT !.mState = "WAIT_FOR_ELECTION", !.mCurTimeout = TRUE])

-----------------------------------------------------------------------------
(* Timeouts.  noGoodData is the verdict of shouldPanicNotGettingGoodData. *)

handleTimeoutInitial(d, s, fresh) ==
  LET n == s.mInitial_WhoIsMasterRequestTimeouts + 1
      counted == [s EXCEPT !.mInitial_WhoIsMasterRequestTimeouts = n]
  IN IF n = kInitial_NumWhoIsMasterRetries
     THEN becomeMaster(d, counted, fresh)
     ELSE sendWhoIsMasterRequest(d, counted)

\* Mutant: the client asks a dead master for ever.
Bug_AskForEver(d, s, noGoodData) ==
  sendSyncRequest(d, [s EXCEPT !.mClient_SyncRequestPending = FALSE])

handleTimeoutClient(d, s, noGoodData) ==
  LET n == s.mClient_SyncRequestTimeouts + 1
      failed == [s EXCEPT !.mClient_SyncRequestPending = FALSE,
                          !.mClient_SyncRequestTimeouts = n]
  IN CASE noGoodData -> becomeInitial(d, s)
       [] ~noGoodData /\ ~s.mClient_SyncRequestPending -> sendSyncRequest(d, s)
       [] ~noGoodData /\ s.mClient_SyncRequestPending ->
            IF n < kClient_NumSyncRequestRetries
            THEN sendSyncRequest(d, failed)
            ELSE becomeRonin(d, failed)

handleTimeoutRonin(d, s, fresh) ==
  LET n == s.mRonin_WhoIsMasterRequestTimeouts + 1
      counted == [s EXCEPT !.mRonin_WhoIsMasterRequestTimeouts = n]
  IN IF n = kRonin_NumWhoIsMasterRetries
     THEN becomeMaster(d, counted, fresh)
     ELSE sendWhoIsMasterRequest(d, counted)

\* The work thread clears the timeout before it calls handleTimeout.
handleTimeout(d, before, fresh, noGoodData) ==
  LET s == [before EXCEPT !.mCurTimeout = FALSE]
  IN CASE ~s.mSocket -> Quiet(d, s)
       [] s.mSocket /\ s.mState = "INITIAL" -> handleTimeoutInitial(d, s, fresh)
       [] s.mSocket /\ s.mState = "CLIENT" ->
            handleTimeoutClient(d, s, noGoodData)
       [] s.mSocket /\ s.mState = "MASTER" -> sendMasterAnnouncement(d, s)
       [] s.mSocket /\ s.mState = "RONIN" -> handleTimeoutRonin(d, s, fresh)
       [] s.mSocket /\ s.mState = "WAIT_FOR_ELECTION" -> becomeRonin(d, s)

-----------------------------------------------------------------------------
(* Packets *)

\* Mutant: a master answers only devices that know its timeline.
Bug_AnswerMembers(d, s, p) ==
  IF s.mState = "MASTER" /\ p.timelineID = s.mTimelineID
  THEN Result(s, MakePacket("WHO_IS_MASTER_RESPONSE", d, s.mTimelineID,
                            effectivePriority(s), FALSE, kInvalidTimelineID,
                            {p.deviceID}))
  ELSE Quiet(d, s)

handleWhoIsMasterRequest(d, s, p) ==
  LET beaten == arbitrateMaster(p.deviceID, p.devicePriority,
                                d, effectivePriority(s))
      response == MakePacket("WHO_IS_MASTER_RESPONSE", d, s.mTimelineID,
                             effectivePriority(s), FALSE, kInvalidTimelineID,
                             {p.deviceID})
  IN CASE /\ s.mState = "MASTER"
          /\ p.timelineID \in {kInvalidTimelineID, s.mTimelineID} ->
            Result(s, response)
       [] /\ s.mState = "RONIN"
          /\ p.timelineID = s.mTimelineID
          /\ beaten -> becomeWaitForElection(d, s)
       [] /\ s.mState = "INITIAL"
          /\ p.timelineID = kInvalidTimelineID
          /\ beaten ->
            Quiet(d, [s EXCEPT !.mInitial_WhoIsMasterRequestTimeouts = 0])
       [] OTHER -> Quiet(d, s)

\* Does the sender of p, which says it is a master, beat the master followed?
BeatsMyMaster(s, p) ==
  arbitrateMaster(p.deviceID, p.devicePriority,
                  s.mClient_MasterDeviceID, s.mClient_MasterDevicePriority)

handleWhoIsMasterResponse(d, s, p) ==
  IF \/ s.mState \in {"INITIAL", "RONIN"}
     \/ s.mState = "CLIENT" /\ BeatsMyMaster(s, p)
  THEN becomeClient(d, s, p)
  ELSE Quiet(d, s)

handleMasterAnnouncement(d, s, p) ==
  IF \/ s.mState \in {"INITIAL", "RONIN", "WAIT_FOR_ELECTION"}
     \/ s.mState = "CLIENT" /\ BeatsMyMaster(s, p)
     \/ /\ s.mState = "MASTER"
        /\ arbitrateMaster(p.deviceID, p.devicePriority,
                           d, effectivePriority(s))
  THEN becomeClient(d, s, p)
  ELSE Quiet(d, s)

\* A master without a valid clock converts no time and so answers nothing.
handleSyncRequest(d, s, p) ==
  LET serves == s.mState = "MASTER" /\ s.mTimelineID = p.timelineID
      answer(nak, time) ==
        MakePacket("SYNC_RESPONSE", d, s.mTimelineID, 0, nak, time,
                   {p.deviceID})
      high == [s EXCEPT !.mForceLowPriority = FALSE,
                        !.mClient_MasterDevicePriority =
                           s.mMasterPriority + 128]
  IN CASE ~serves -> Result(s, answer(TRUE, kInvalidTimelineID))
       [] serves /\ ~isValid(s) -> Quiet(d, high)
       [] serves /\ isValid(s) ->
            Result(high, answer(FALSE, s.mCommonClock))

\* A data point taken from the timeline `time` reaches the clock recovery
\* loop.  Without a basis it goes to the startup filter, and when that is full
\* the clock takes its basis from the point with the lowest RTT, number best.
pushDisciplineEvent(s, time, best) ==
  LET points == IF Len(s.startup) < kStartupFilterSize
                THEN Append(s.startup, time) ELSE s.startup
  IN IF isValid(s) THEN s
     ELSE [s EXCEPT !.startup = points,
                    !.mCommonClock = IF Len(points) = kStartupFilterSize
                                     THEN points[best] ELSE @]

\* outcome: the RTT is fine and the error tolerable ("good"), the RTT is too
\* long ("late"), and that for too long ("no_good_data"), or the error is
\* above the panic threshold ("panic").
handleSyncResponse(d, s, p, outcome, best) ==
  LET answered == [s EXCEPT !.mClient_SyncRequestPending = FALSE,
                            !.mClient_SyncRequestTimeouts = 0,
                            !.gotSyncResp = TRUE,
                            !.mCurTimeout = TRUE]
  IN CASE s.mState # "CLIENT" \/ p.deviceID # s.mMasterEP -> Quiet(d, s)
       [] s.mState = "CLIENT" /\ p.deviceID = s.mMasterEP ->
            CASE p.nak -> becomeRonin(d, s)
              [] ~p.nak /\ (~s.gotSyncResp \/ outcome = "late") ->
                   Quiet(d, answered)
              [] ~p.nak /\ s.gotSyncResp /\ outcome = "no_good_data" ->
                   becomeInitial(d, answered)
              [] ~p.nak /\ s.gotSyncResp /\ outcome = "panic" ->
                   becomeInitial(d, notifyClockSyncLoss(answered))
              [] ~p.nak /\ s.gotSyncResp /\ outcome = "good" ->
                   Quiet(d, notifyClockSync(
                              pushDisciplineEvent(answered, p.time, best)))

\* One packet is received and dispatched on its type.
handlePacket(d, s, p, outcome, best) ==
  CASE p.packetType = "WHO_IS_MASTER_REQUEST" ->
         handleWhoIsMasterRequest(d, s, p)
    [] p.packetType = "WHO_IS_MASTER_RESPONSE" ->
         handleWhoIsMasterResponse(d, s, p)
    [] p.packetType = "SYNC_REQUEST" -> handleSyncRequest(d, s, p)
    [] p.packetType = "SYNC_RESPONSE" ->
         handleSyncResponse(d, s, p, outcome, best)
    [] p.packetType = "MASTER_ANNOUNCEMENT" ->
         handleMasterAnnouncement(d, s, p)

-----------------------------------------------------------------------------
(* The network interface comes and goes *)

\* The process has started; the work thread has entered INITIAL without socket.
Fresh(prio) ==
  [mState |-> "INITIAL", mSocket |-> FALSE,
   mTimelineID |-> kInvalidTimelineID, mCommonClock |-> kInvalidTimelineID,
   startup |-> <<>>, mClockSynced |-> FALSE,
   toldTimeline |-> kInvalidTimelineID,
   mForceLowPriority |-> FALSE, mMasterPriority |-> prio,
   mMasterEP |-> NoDevice, mClient_MasterDeviceID |-> NoDevice,
   mClient_MasterDevicePriority |-> 0,
   mInitial_WhoIsMasterRequestTimeouts |-> 0,
   mRonin_WhoIsMasterRequestTimeouts |-> 0,
   mClient_SyncRequestPending |-> FALSE, mClient_SyncRequestTimeouts |-> 0,
   gotSyncResp |-> FALSE, mCurTimeout |-> FALSE]

\* setupSocket_l succeeds: the device has joined a network, where it defers to
\* any other master until it has been accepted as a client or asked for time.
bindInterface(d, before) ==
  LET s == [before EXCEPT !.mSocket = TRUE, !.mForceLowPriority = TRUE,
                          !.mClient_MasterDevicePriority =
                             IF before.mState = "MASTER"
                             THEN before.mMasterPriority ELSE @]
  IN IF s.mState = "INITIAL" THEN becomeInitial(d, s) ELSE becomeRonin(d, s)

\* Mutant: the retry is not scheduled.
Bug_NoRetry(s) == [s EXCEPT !.mSocket = FALSE]

\* The old socket is closed and setupSocket_l fails: all that happens is that
\* a retry is scheduled.
bindFails(s) == [s EXCEPT !.mSocket = FALSE, !.mCurTimeout = TRUE]

\* The socket is dropped and none is to be built: networkless mode.
leaveNetwork(d, before, fresh) ==
  LET s == [before EXCEPT !.mSocket = FALSE]
  IN CASE s.mState \in {"INITIAL", "MASTER"} -> Quiet(d, s)
       [] /\ s.mState \notin {"INITIAL", "MASTER"}
          /\ s.mTimelineID = kInvalidTimelineID -> becomeInitial(d, s)
       [] /\ s.mState \notin {"INITIAL", "MASTER"}
          /\ s.mTimelineID # kInvalidTimelineID -> becomeMaster(d, s, fresh)
=============================================================================
