-------------------------- MODULE CommonTimeServer --------------------------
(***************************************************************************)
(* The time-synchronisation service of libs/common_time on a network: one  *)
(* CommonTimeServer per device, whose handlers are those of                *)
(* TimeServerHandlers, and the UDP packets between them.  A packet can be  *)
(* lost, delivered twice, can overflow the receive queue, and, when        *)
(* Reorder holds, can overtake another one.                                *)
(***************************************************************************)
EXTENDS TimeServerHandlers

CONSTANTS
  Reorder,           \* may a packet overtake another one on its link?
  Timely,            \* are packets always faster than the timeouts?
  Fault,             \* the kinds of disturbance this instance allows
  MaxFault,          \* bound: how many of them
  MaxTimeline,       \* bound: timelines created
  MaxQueue           \* bound: packets queued on a link; the rest overflow

FaultKind == {"bind", "bind_fails", "leave", "force", "restart", "priority",
              "lose", "duplicate", "late", "no_good_data", "panic"}

ASSUME NetworkAssumption == {Reorder, Timely} \subseteq BOOLEAN
ASSUME BoundAssumption ==
  /\ Fault \subseteq FaultKind
  /\ MaxFault \in Nat
  /\ MaxTimeline \in Nat
  /\ MaxQueue \in Nat \ {0}

VARIABLES
  srv,          \* srv[d]: the CommonTimeServer of device d
  net,          \* net[<<s, d>>]: the packets in flight from s to d
  nextTimeline, \* the next timeline ID assignTimelineID will draw
  faults        \* disturbances so far

vars == <<srv, net, nextTimeline, faults>>

Link == {l \in Device \X Device : l[1] # l[2]}

-----------------------------------------------------------------------------
(* The system *)

Init ==
  /\ srv \in [Device -> {Fresh(prio) : prio \in Priority}]
  /\ net = [l \in Link |-> <<>>]
  /\ nextTimeline = 1
  /\ faults = 0

\* Device d puts p on its links to p.to; no queue without socket, and a full
\* one overflows.
Transmit(links, d, p) ==
  [l \in Link |->
     IF /\ l[1] = d /\ l[2] \in p.to /\ srv[l[2]].mSocket
        /\ Len(links[l]) < MaxQueue
     THEN Append(links[l], p) ELSE links[l]]

\* Device d takes the result res of a handler; links is the network without
\* the packet that was handled.
Step(d, res, links) ==
  /\ res.srv.mTimelineID <= MaxTimeline
  /\ srv' = [srv EXCEPT ![d] = res.srv]
  /\ net' = Transmit(links, d, res.pkt)
  /\ nextTimeline' = IF res.srv.mTimelineID = nextTimeline
                     THEN nextTimeline + 1 ELSE nextTimeline

Disturb(kind) ==
  /\ kind \in Fault
  /\ faults < MaxFault
  /\ faults' = faults + 1

Without(q, i) == SubSeq(q, 1, i - 1) \o SubSeq(q, i + 1, Len(q))
Consume(l, i) == [net EXCEPT ![l] = Without(@, i)]

\* Which packets of link l can be the next to arrive, of the given type?
Arriving(l, type) ==
  {i \in IF Reorder THEN 1..Len(net[l]) ELSE 1..Len(net[l]) \cap {1} :
     net[l][i].packetType = type /\ srv[l[2]].mSocket}

HandleWhoIsMasterRequest(l) ==
  \E i \in Arriving(l, "WHO_IS_MASTER_REQUEST") :
    /\ Step(l[2], handleWhoIsMasterRequest(l[2], srv[l[2]], net[l][i]),
            Consume(l, i))
    /\ UNCHANGED faults

HandleWhoIsMasterResponse(l) ==
  \E i \in Arriving(l, "WHO_IS_MASTER_RESPONSE") :
    /\ Step(l[2], handleWhoIsMasterResponse(l[2], srv[l[2]], net[l][i]),
            Consume(l, i))
    /\ UNCHANGED faults

HandleMasterAnnouncement(l) ==
  \E i \in Arriving(l, "MASTER_ANNOUNCEMENT") :
    /\ Step(l[2], handleMasterAnnouncement(l[2], srv[l[2]], net[l][i]),
            Consume(l, i))
    /\ UNCHANGED faults

HandleSyncRequest(l) ==
  \E i \in Arriving(l, "SYNC_REQUEST") :
    /\ Step(l[2], handleSyncRequest(l[2], srv[l[2]], net[l][i]),
            Consume(l, i))
    /\ UNCHANGED faults

HandleSyncResponse(l) ==
  \E i \in Arriving(l, "SYNC_RESPONSE"), best \in 1..kStartupFilterSize :
    /\ Step(l[2], handleSyncResponse(l[2], srv[l[2]], net[l][i], "good", best),
            Consume(l, i))
    /\ UNCHANGED faults

\* A response that discipline cannot use; only a clock with a basis panics.
HandleBadSyncResponse(l) ==
  \E i \in Arriving(l, "SYNC_RESPONSE"),
     outcome \in {"late", "no_good_data", "panic"} :
    /\ outcome = "panic" => srv[l[2]].mCommonClock # kInvalidTimelineID
    /\ Step(l[2], handleSyncResponse(l[2], srv[l[2]], net[l][i], outcome, 1),
            Consume(l, i))
    /\ Disturb(outcome)

\* In a timely network every packet has been handled before a timeout expires.
MayTimeOut(d) ==
  /\ srv[d].mCurTimeout
  /\ Timely => \A l \in Link : net[l] = <<>>

HandleTimeout(d) ==
  /\ MayTimeOut(d)
  /\ Step(d, handleTimeout(d, srv[d], nextTimeline, FALSE), net)
  /\ UNCHANGED faults

\* A client notices that it has had no good data for too long.
HandleTimeoutNoGoodData(d) ==
  /\ MayTimeOut(d)
  /\ srv[d].mSocket /\ srv[d].mState = "CLIENT"
  /\ Step(d, handleTimeout(d, srv[d], nextTimeline, TRUE), net)
  /\ Disturb("no_good_data")

\* The work thread (re)builds its socket: it has joined a network.
BindInterface(d) ==
  /\ Step(d, bindInterface(d, srv[d]), net)
  /\ Disturb("bind")

BindFails(d) ==
  /\ srv' = [srv EXCEPT ![d] = bindFails(@)]
  /\ Disturb("bind_fails")
  /\ UNCHANGED <<net, nextTimeline>>

\* The work thread drops its socket and is not to build another one.
LeaveNetwork(d) ==
  /\ srv[d].mSocket \/ srv[d].mState \notin {"INITIAL", "MASTER"}
  /\ Step(d, leaveNetwork(d, srv[d], nextTimeline), net)
  /\ Disturb("leave")

forceNetworklessMasterMode(d) ==
  /\ ~srv[d].mSocket
  /\ Step(d, becomeMaster(d, srv[d], nextTimeline), net)
  /\ Disturb("force")

setMasterElectionPriority(d) ==
  /\ \E prio \in Priority \ {srv[d].mMasterPriority} :
       srv' = [srv EXCEPT ![d].mMasterPriority = prio]
  /\ Disturb("priority")
  /\ UNCHANGED <<net, nextTimeline>>

\* The process dies and comes back with nothing but its configuration.
Restart(d) ==
  /\ srv' = [srv EXCEPT ![d] = Fresh(srv[d].mMasterPriority)]
  /\ Disturb("restart")
  /\ UNCHANGED <<net, nextTimeline>>

\* The network loses the first packet of a link; without a socket to receive
\* it every packet is lost.
Lose(l) ==
  /\ net[l] # <<>>
  /\ net' = [net EXCEPT ![l] = Tail(@)]
  /\ IF srv[l[2]].mSocket THEN Disturb("lose") ELSE UNCHANGED faults
  /\ UNCHANGED <<srv, nextTimeline>>

\* The network delivers the first packet of a link twice.
Duplicate(l) ==
  /\ net[l] # <<>>
  /\ net' = [net EXCEPT ![l] = <<Head(@)>> \o @]
  /\ Disturb("duplicate")
  /\ UNCHANGED <<srv, nextTimeline>>

HandlePacket(l) ==
  \/ HandleWhoIsMasterRequest(l)
  \/ HandleWhoIsMasterResponse(l)
  \/ HandleMasterAnnouncement(l)
  \/ HandleSyncRequest(l)
  \/ HandleSyncResponse(l)

Next ==
  \/ \E l \in Link :
       HandlePacket(l) \/ HandleBadSyncResponse(l) \/ Lose(l) \/ Duplicate(l)
  \/ \E d \in Device :
       \/ HandleTimeout(d)
       \/ HandleTimeoutNoGoodData(d)
       \/ BindInterface(d)
       \/ BindFails(d)
       \/ LeaveNetwork(d)
       \/ forceNetworklessMasterMode(d)
       \/ setMasterElectionPriority(d)
       \/ Restart(d)

Spec == Init /\ [][Next]_vars

\* The kernel hands every packet that arrives to a socket to the work thread,
\* which polls for ever.  A timeout is an absolute time, so other devices'
\* timeouts cannot outrun it for ever: strong fairness.
Fairness ==
  /\ \A l \in Link : WF_vars(HandlePacket(l) \/ (~srv[l[2]].mSocket /\ Lose(l)))
  /\ \A d \in Device : SF_vars(HandleTimeout(d))

FairSpec == Spec /\ Fairness
-----------------------------------------------------------------------------
(* What must be true in every state *)

\* The variables have their types.
TypeOK ==
  /\ srv \in [Device -> Server]
  /\ net \in [Link -> Seq(Packet)]
  /\ nextTimeline \in Nat \ {0}
  /\ faults \in Nat

Networked(d) == srv[d].mSocket
Master(d) == srv[d].mState = "MASTER"
ClockValid(d) == srv[d].mCommonClock # kInvalidTimelineID

\* Who has the time.  A master on a network can tell the time of its timeline,
\* and so can a device that stands for election: becomeRonin sends one that
\* never learnt the time back to INITIAL, so that a better informed peer takes
\* over.  And a device that follows no timeline has no time left over from an
\* old one, nor does it claim to be synced: becomeMaster asserts that the
\* clock is not valid when it creates a timeline.
TimeFitsRole ==
  \A d \in Device :
    /\ srv[d].mState = "RONIN" \/ (Master(d) /\ Networked(d)) => ClockValid(d)
    /\ srv[d].mTimelineID = kInvalidTimelineID =>
         /\ ~ClockValid(d)
         /\ srv[d].startup = <<>>
         /\ ~srv[d].mClockSynced

\* Whatever path led there (an election, a panic, a rebind in the middle of
\* either), a device knows of a timeline in every state but INITIAL, has a
\* master exactly while it is a client, and that master is the one it records
\* for arbitration (handleSyncResponse asserts mMasterEPValid).  As a client
\* it is back at its full priority, in case its master disappears.
RoleIsConsistent ==
  \A d \in Device :
    /\ srv[d].mState = "INITIAL" <=> srv[d].mTimelineID = kInvalidTimelineID
    /\ srv[d].mState = "CLIENT" <=> srv[d].mMasterEP # NoDevice
    /\ srv[d].mState = "CLIENT" =>
         /\ srv[d].mClient_MasterDeviceID = srv[d].mMasterEP
         /\ srv[d].mMasterEP # d
         /\ ~srv[d].mForceLowPriority

\* While the service counts itself as synced, what its listeners heard last is
\* the timeline it follows now.
ListenersKnowTimeline ==
  \A d \in Device :
    srv[d].mClockSynced => srv[d].toldTimeline = srv[d].mTimelineID

\* A device on a network always has a timeout scheduled: no handler leaves it
\* waiting for packets that may never come.
NeverSleepsForEver == \A d \in Device : Networked(d) => srv[d].mCurTimeout

\* The time a device tells under a timeline ID is that timeline's time.
\* handleSyncResponse looks only at the address a response comes from, and a
\* master may return to a timeline it has served before, so this rests on
\* packets that do not outlast a timeout (Timely).
ClockFollowsTimeline ==
  \A d \in Device : ClockValid(d) => srv[d].mCommonClock = srv[d].mTimelineID

\* While no packet is lost or late, a network never has two masters, not even
\* for a moment, however devices join, leave, panic and stand for election: one
\* that begins to serve has asked at two timeouts or more, and had another one
\* served, news of it would have come in between.
SingleMaster ==
  \A d, e \in Device :
    Master(d) /\ Networked(d) /\ Master(e) /\ Networked(e) => d = e

-----------------------------------------------------------------------------
(* What must become true *)

Settled ==
  LET members == {d \in Device : Networked(d)}
  IN members = {} \/
     \E m \in members :
       /\ Master(m)
       /\ \A d \in members \ {m} :
            /\ srv[d].mState = "CLIENT" /\ srv[d].mMasterEP = m
            /\ srv[d].mTimelineID = srv[m].mTimelineID
            /\ srv[d].mCommonClock = srv[m].mCommonClock
            /\ srv[d].mClockSynced

\* Once the disturbances end, the devices of a network come to follow one
\* master, whose time every one of them has, and they keep doing so.
Converges == <>[]Settled

-----------------------------------------------------------------------------
(* What it implements: CommonTimeline, which knows no masters and packets *)

Promise == INSTANCE CommonTimeline WITH
  Timeline   <- 1..MaxTimeline,
  NoTimeline <- kInvalidTimelineID,
  created    <- 1..(nextTimeline - 1),
  timeline   <- [d \in Device |-> srv[d].mTimelineID],
  valid      <- [d \in Device |-> srv[d].mCommonClock # kInvalidTimelineID]

\* No step of any device breaks the promises of CommonTimeline: its time
\* survives an election and a networkless spell, and never a change of
\* timeline.
ImplementsCommonTimeline == Promise!CInit /\ [][Promise!CNext]_(Promise!cvars)
=============================================================================
