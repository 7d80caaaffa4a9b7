----------------------- MODULE CommonTimeServer_proofs -----------------------
(***************************************************************************)
(* Proofs about CommonTimeServer for any number of devices, any number of  *)
(* retries and any faults.  The invariant says of every device what        *)
(* TimeServerHandlers_proofs preserves, and of every packet in flight that *)
(* it is of its sender's making.                                           *)
(* A second invariant, on top of it, relates the timelines that packets in *)
(* flight name to those of the devices at both ends: with it the time that *)
(* is told is shown to be that of the timeline, in a timely network.       *)
(* A third one relates a device that serves to those that look for a       *)
(* master: a timely network without loss never has two of them.            *)
(* The last part shows that CommonTimeServer implements CommonTimeline:    *)
(* every handler does one of the things CommonTimeline allows a device to  *)
(* do, or nothing it can see, and every timeline a packet names has been   *)
(* created.                                                                *)
(***************************************************************************)
EXTENDS CommonTimeServer, TimeServerHandlers_proofs

-----------------------------------------------------------------------------
(* The inductive invariant *)

LinkOK(l, q) ==
  /\ q \in Seq(Packet)
  /\ \A i \in 1..Len(q) : SentOK(l[1], q[i])

IInv ==
  /\ srv \in [Device -> Server]
  /\ net \in [Link -> Seq(Packet)]
  /\ nextTimeline \in Nat \ {0}
  /\ faults \in Nat
  /\ \A d \in Device : DeviceOK(d, srv[d]) /\ Awake(srv[d])
  /\ \A l \in Link : LinkOK(l, net[l])

-----------------------------------------------------------------------------
(* The network *)

LEMMA WithoutOK ==
  ASSUME NEW l, NEW q, LinkOK(l, q), NEW i \in 1..Len(q)
  PROVE  /\ LinkOK(l, Without(q, i))
         /\ \A j \in 1..Len(Without(q, i)) :
              \E k \in 1..Len(q) : Without(q, i)[j] = q[k]
         /\ \A k \in 1..Len(q) : k = i \/
              \E j \in 1..Len(Without(q, i)) : Without(q, i)[j] = q[k]
<1> DEFINE a == SubSeq(q, 1, i - 1)
           b == SubSeq(q, i + 1, Len(q))
<1>1. q \in Seq(Packet) /\ Len(q) \in Nat /\ i \in Int
  BY DEF LinkOK
<1>2. \A j \in 1..Len(q) : q[j] \in Packet
  BY <1>1, ElementOfSeq
<1>3. /\ a \in Seq(Packet) /\ Len(a) = i - 1
      /\ \A j \in 1..i - 1 : a[j] = q[j]
  <2>1. \A j \in 1..i - 1 : q[j] \in Packet
    BY <1>1, <1>2
  <2>2. /\ SubSeq(q, 1, i - 1) \in Seq(Packet)
        /\ Len(SubSeq(q, 1, i - 1)) = IF 1 <= i - 1 THEN i - 1 - 1 + 1 ELSE 0
        /\ \A j \in 1..i - 1 - 1 + 1 : SubSeq(q, 1, i - 1)[j] = q[1 + j - 1]
    BY <1>1, <2>1, SubSeqProperties
  <2> QED BY <1>1, <2>2
<1>4. /\ b \in Seq(Packet) /\ Len(b) = Len(q) - i
      /\ \A j \in 1..Len(q) - i : b[j] = q[i + j]
  <2>1. \A j \in i + 1..Len(q) : q[j] \in Packet
    BY <1>1, <1>2
  <2>2. /\ b \in Seq(Packet)
        /\ Len(b) = IF i + 1 <= Len(q) THEN Len(q) - (i + 1) + 1 ELSE 0
        /\ \A j \in 1..Len(q) - (i + 1) + 1 : b[j] = q[i + 1 + j - 1]
    BY <1>1, <2>1, SubSeqProperties
  <2> QED BY <1>1, <2>2
<1> HIDE DEF a, b
<1>5. /\ a \o b \in Seq(Packet) /\ Len(a \o b) = Len(a) + Len(b)
      /\ \A j \in 1..Len(a) + Len(b) :
           (a \o b)[j] = IF j <= Len(a) THEN a[j] ELSE b[j - Len(a)]
  BY <1>3, <1>4, ConcatProperties
<1>6. ASSUME NEW j \in 1..Len(a \o b)
      PROVE  \E k \in 1..Len(q) : (a \o b)[j] = q[k]
  <2>1. CASE j <= i - 1
    <3>1. j \in 1..i - 1 /\ j \in 1..Len(q) /\ j \in 1..Len(a) + Len(b)
      BY <1>1, <1>3, <1>4, <1>5, <2>1
    <3>2. (a \o b)[j] = a[j]
      BY <1>3, <1>5, <2>1, <3>1
    <3> QED BY <1>3, <3>1, <3>2
  <2>2. CASE ~(j <= i - 1)
    <3> DEFINE k == i + (j - (i - 1))
    <3>1. (a \o b)[j] = b[j - (i - 1)] /\ j - (i - 1) \in 1..Len(q) - i
      BY <1>1, <1>3, <1>4, <1>5, <2>2
    <3>2. (a \o b)[j] = q[k]
      BY <1>4, <3>1
    <3>3. k \in 1..Len(q)
      <4> SUFFICES ASSUME NEW m \in 1..Len(q) - i PROVE i + m \in 1..Len(q)
        BY <3>1
      <4> QED BY <1>1
    <3> HIDE DEF k
    <3> QED BY <3>2, <3>3
  <2> QED BY <2>1, <2>2
<1>7. LinkOK(l, a \o b)
  BY <1>5, <1>6 DEF LinkOK
<1>8. ASSUME NEW k \in 1..Len(q), k # i
      PROVE  \E j \in 1..Len(a \o b) : (a \o b)[j] = q[k]
  <2>1. CASE k < i
    <3>1. /\ k \in 1..i - 1 /\ k <= Len(a)
          /\ k \in 1..Len(a) + Len(b)
      BY <1>1, <1>3, <1>4, <2>1
    <3>2. (a \o b)[k] = q[k]
      BY <1>3, <1>5, <3>1
    <3> QED BY <1>5, <3>1, <3>2
  <2>2. CASE k > i
    <3>1. /\ k - 1 \in 1..Len(a) + Len(b) /\ ~(k - 1 <= Len(a))
          /\ (k - 1) - Len(a) = k - i
          /\ k - i \in 1..Len(q) - i /\ i + (k - i) = k
      BY <1>1, <1>3, <1>4, <2>2
    <3>2. (a \o b)[k - 1] = b[k - i]
      BY <1>5, <3>1
    <3>3. b[k - i] = q[k]
      BY <1>4, <3>1
    <3> QED BY <1>5, <3>1, <3>2, <3>3
  <2> QED BY <1>1, <1>8, <2>1, <2>2
<1> QED BY <1>6, <1>7, <1>8 DEF Without, a, b

LEMMA ConsumeOK ==
  ASSUME IInv, NEW l \in Link, NEW i \in 1..Len(net[l])
  PROVE  /\ Consume(l, i) \in [Link -> Seq(Packet)]
         /\ \A k \in Link : LinkOK(k, Consume(l, i)[k])
<1>1. LinkOK(l, Without(net[l], i))
  BY WithoutOK DEF IInv
<1> QED BY <1>1 DEF IInv, Consume, LinkOK

LEMMA TransmitOK ==
  ASSUME NEW links \in [Link -> Seq(Packet)],
         \A k \in Link : LinkOK(k, links[k]),
         NEW d \in Device, NEW p, SentOK(d, p)
  PROVE  /\ Transmit(links, d, p) \in [Link -> Seq(Packet)]
         /\ \A k \in Link : LinkOK(k, Transmit(links, d, p)[k])
<1>1. ASSUME NEW k \in Link, k[1] = d
      PROVE  LinkOK(k, Append(links[k], p))
  BY <1>1 DEF LinkOK, SentOK
<1>2. ASSUME NEW k \in Link
      PROVE  LinkOK(k, Transmit(links, d, p)[k])
  BY <1>1, <1>2 DEF Transmit
<1> QED BY <1>2 DEF Transmit, LinkOK

\* A device takes the result of one of its handlers.
LEMMA StepOK ==
  ASSUME IInv, NEW d \in Device, NEW res, ResultOK(d, res),
         NEW links \in [Link -> Seq(Packet)],
         \A k \in Link : LinkOK(k, links[k]),
         Step(d, res, links), faults' \in Nat
  PROVE  IInv'
<1>1. srv' \in [Device -> Server]
  BY DEF Step, IInv, ResultOK, DeviceOK
<1>2. \A e \in Device : DeviceOK(e, srv'[e]) /\ Awake(srv'[e])
  BY DEF Step, IInv, ResultOK
<1>3. net' \in [Link -> Seq(Packet)] /\ \A k \in Link : LinkOK(k, net'[k])
  BY TransmitOK DEF Step, ResultOK
<1>4. nextTimeline' \in Nat \ {0}
  BY DEF Step, IInv
<1> QED BY <1>1, <1>2, <1>3, <1>4 DEF IInv

-----------------------------------------------------------------------------
(* IInv is an invariant *)

LEMMA InitOK == Init => IInv
<1> SUFFICES ASSUME Init PROVE IInv
  OBVIOUS
<1>1. \A prio \in Priority : prio \in ConfiguredPriority
  BY PriorityAssumption DEF ConfiguredPriority
<1>2. \A d \in Device : DeviceOK(d, srv[d]) /\ Awake(srv[d])
  BY <1>1, FreshOK DEF Init
<1>3. srv \in [Device -> Server]
  BY <1>2 DEF Init, DeviceOK
<1>4. net \in [Link -> Seq(Packet)] /\ \A l \in Link : LinkOK(l, net[l])
  BY DEF Init, LinkOK
<1> QED BY <1>2, <1>3, <1>4 DEF Init, IInv

\* What a handler may assume of a packet that arrives on l.
LEMMA Arrival ==
  ASSUME IInv, NEW l \in Link, NEW type, NEW i \in Arriving(l, type)
  PROVE  /\ l[1] \in Device /\ l[2] \in Device
         /\ i \in 1..Len(net[l])
         /\ net[l][i] \in Packet
         /\ net[l][i].packetType = type
         /\ net[l][i].deviceID # l[2]
         /\ type \in {"WHO_IS_MASTER_RESPONSE", "MASTER_ANNOUNCEMENT"} =>
              net[l][i].timelineID # kInvalidTimelineID
         /\ DeviceOK(l[2], srv[l[2]]) /\ Awake(srv[l[2]])
<1>1. l[1] \in Device /\ l[2] \in Device /\ l[1] # l[2]
  BY DEF Link
<1>2. i \in 1..Len(net[l]) /\ net[l][i].packetType = type
  BY DEF Arriving
<1>3. SentOK(l[1], net[l][i])
  BY <1>2 DEF IInv, LinkOK
<1>4. DeviceOK(l[2], srv[l[2]]) /\ Awake(srv[l[2]])
  BY <1>1 DEF IInv
<1> QED BY <1>1, <1>2, <1>3, <1>4 DEF SentOK

\* Taking a packet from its link and handling it.
LEMMA HandleOK ==
  ASSUME IInv, NEW l \in Link, NEW i \in 1..Len(net[l]), NEW res,
         ResultOK(l[2], res), Step(l[2], res, Consume(l, i)), faults' \in Nat
  PROVE  IInv'
<1>1. l[2] \in Device
  BY DEF Link
<1>2. /\ Consume(l, i) \in [Link -> Seq(Packet)]
      /\ \A k \in Link : LinkOK(k, Consume(l, i)[k])
  BY ConsumeOK
<1> QED BY <1>1, <1>2, StepOK

LEMMA DisturbOK ==
  ASSUME IInv, NEW kind, Disturb(kind)
  PROVE  faults' \in Nat
BY DEF IInv, Disturb

\* Only the state of one device changes.
LEMMA LocalOK ==
  ASSUME IInv, NEW d \in Device, NEW s, DeviceOK(d, s) /\ Awake(s),
         srv' = [srv EXCEPT ![d] = s], UNCHANGED <<net, nextTimeline>>,
         faults' \in Nat
  PROVE  IInv'
<1>1. srv' \in [Device -> Server]
  BY DEF IInv, DeviceOK
<1>2. \A e \in Device : DeviceOK(e, srv'[e]) /\ Awake(srv'[e])
  BY DEF IInv
<1> QED BY <1>1, <1>2 DEF IInv

\* A handler that takes no packet.
LEMMA SpontaneousOK ==
  ASSUME IInv, NEW d \in Device, NEW res, ResultOK(d, res),
         Step(d, res, net), faults' \in Nat
  PROVE  IInv'
BY StepOK DEF IInv

\* Only the packets in flight on one link change.
LEMMA LinkChangeOK ==
  ASSUME IInv, NEW l \in Link, NEW q, LinkOK(l, q),
         net' = [net EXCEPT ![l] = q], UNCHANGED <<srv, nextTimeline>>,
         faults' \in Nat
  PROVE  IInv'
<1>1. net' \in [Link -> Seq(Packet)]
  BY DEF IInv, LinkOK
<1>2. \A k \in Link : LinkOK(k, net'[k])
  BY DEF IInv
<1> QED BY <1>1, <1>2 DEF IInv

LEMMA FreshTimeline ==
  ASSUME IInv
  PROVE  nextTimeline \in TimelineID /\ nextTimeline # kInvalidTimelineID
BY DEF IInv, TimelineID, kInvalidTimelineID

LEMMA StepPreserves == IInv /\ [Next]_vars => IInv'
<1> SUFFICES ASSUME IInv, [Next]_vars PROVE IInv'
  OBVIOUS
<1>1. ASSUME NEW l \in Link, HandleWhoIsMasterRequest(l)
      PROVE  IInv'
  <2> PICK i \in Arriving(l, "WHO_IS_MASTER_REQUEST") :
        /\ Step(l[2], handleWhoIsMasterRequest(l[2], srv[l[2]], net[l][i]),
                Consume(l, i))
        /\ UNCHANGED faults
    BY <1>1 DEF HandleWhoIsMasterRequest
  <2>1. ResultOK(l[2], handleWhoIsMasterRequest(l[2], srv[l[2]], net[l][i]))
    BY Arrival, WhoIsMasterRequestOK
  <2> QED BY <2>1, Arrival, HandleOK DEF IInv
<1>2. ASSUME NEW l \in Link, HandleWhoIsMasterResponse(l)
      PROVE  IInv'
  <2> PICK i \in Arriving(l, "WHO_IS_MASTER_RESPONSE") :
        /\ Step(l[2], handleWhoIsMasterResponse(l[2], srv[l[2]], net[l][i]),
                Consume(l, i))
        /\ UNCHANGED faults
    BY <1>2 DEF HandleWhoIsMasterResponse
  <2>1. ResultOK(l[2], handleWhoIsMasterResponse(l[2], srv[l[2]], net[l][i]))
    BY Arrival, WhoIsMasterResponseOK
  <2> QED BY <2>1, Arrival, HandleOK DEF IInv
<1>3. ASSUME NEW l \in Link, HandleMasterAnnouncement(l)
      PROVE  IInv'
  <2> PICK i \in Arriving(l, "MASTER_ANNOUNCEMENT") :
        /\ Step(l[2], handleMasterAnnouncement(l[2], srv[l[2]], net[l][i]),
                Consume(l, i))
        /\ UNCHANGED faults
    BY <1>3 DEF HandleMasterAnnouncement
  <2>1. ResultOK(l[2], handleMasterAnnouncement(l[2], srv[l[2]], net[l][i]))
    BY Arrival, MasterAnnouncementOK
  <2> QED BY <2>1, Arrival, HandleOK DEF IInv
<1>4. ASSUME NEW l \in Link, HandleSyncRequest(l)
      PROVE  IInv'
  <2> PICK i \in Arriving(l, "SYNC_REQUEST") :
        /\ Step(l[2], handleSyncRequest(l[2], srv[l[2]], net[l][i]),
                Consume(l, i))
        /\ UNCHANGED faults
    BY <1>4 DEF HandleSyncRequest
  <2>1. ResultOK(l[2], handleSyncRequest(l[2], srv[l[2]], net[l][i]))
    BY Arrival, SyncRequestOK
  <2> QED BY <2>1, Arrival, HandleOK DEF IInv
<1>5. ASSUME NEW l \in Link, HandleSyncResponse(l)
      PROVE  IInv'
  <2> PICK i \in Arriving(l, "SYNC_RESPONSE"), best \in 1..kStartupFilterSize :
        /\ Step(l[2], handleSyncResponse(l[2], srv[l[2]], net[l][i],
                                         "good", best),
                Consume(l, i))
        /\ UNCHANGED faults
    BY <1>5 DEF HandleSyncResponse
  <2>1. ResultOK(l[2], handleSyncResponse(l[2], srv[l[2]], net[l][i],
                                          "good", best))
    BY Arrival, SyncResponseOK
  <2> QED BY <2>1, Arrival, HandleOK DEF IInv
<1>6. ASSUME NEW l \in Link, HandleBadSyncResponse(l)
      PROVE  IInv'
  <2> PICK i \in Arriving(l, "SYNC_RESPONSE"),
           outcome \in {"late", "no_good_data", "panic"} :
        /\ Step(l[2], handleSyncResponse(l[2], srv[l[2]], net[l][i],
                                         outcome, 1),
                Consume(l, i))
        /\ Disturb(outcome)
    BY <1>6 DEF HandleBadSyncResponse
  <2>1. 1 \in 1..kStartupFilterSize
    BY RetryAssumption
  <2>2. ResultOK(l[2], handleSyncResponse(l[2], srv[l[2]], net[l][i],
                                          outcome, 1))
    BY <2>1, Arrival, SyncResponseOK
  <2> QED BY <2>2, Arrival, DisturbOK, HandleOK
<1>7. ASSUME NEW l \in Link, Lose(l)
      PROVE  IInv'
  <2>1. LinkOK(l, net[l]) /\ net[l] # <<>> /\ net[l] \in Seq(Packet)
    BY <1>7 DEF Lose, IInv
  <2>2. /\ Tail(net[l]) \in Seq(Packet)
        /\ \A i \in 1..Len(Tail(net[l])) :
             i + 1 \in 1..Len(net[l]) /\ Tail(net[l])[i] = net[l][i + 1]
    BY <2>1, HeadTailProperties
  <2>3. LinkOK(l, Tail(net[l]))
    BY <2>1, <2>2 DEF LinkOK
  <2>4. faults' \in Nat
    BY <1>7, DisturbOK DEF Lose, IInv
  <2>5. /\ net' = [net EXCEPT ![l] = Tail(net[l])]
        /\ UNCHANGED <<srv, nextTimeline>>
    BY <1>7 DEF Lose
  <2> QED BY <2>3, <2>4, <2>5, LinkChangeOK
<1>8. ASSUME NEW l \in Link, Duplicate(l)
      PROVE  IInv'
  <2> DEFINE q == net[l]
             dup == <<Head(q)>> \o q
  <2>1. LinkOK(l, q) /\ q # <<>> /\ q \in Seq(Packet)
    BY <1>8 DEF Duplicate, IInv, LinkOK
  <2>2. Len(q) \in Nat \ {0} /\ Head(q) = q[1] /\ Head(q) \in Packet
    BY <2>1, EmptySeq, HeadTailProperties
  <2>3. <<Head(q)>> \in Seq(Packet) /\ Len(<<Head(q)>>) = 1
    BY <2>2
  <2> HIDE DEF q
  <2>4. /\ dup \in Seq(Packet) /\ Len(dup) = 1 + Len(q)
        /\ \A j \in 1..1 + Len(q) :
             dup[j] = IF j <= 1 THEN <<Head(q)>>[j] ELSE q[j - 1]
    BY <2>1, <2>3, ConcatProperties
  <2>5. ASSUME NEW j \in 1..Len(dup)
        PROVE  \E k \in 1..Len(q) : dup[j] = q[k]
    BY <2>2, <2>4
  <2>6. LinkOK(l, dup)
    BY <2>1, <2>4, <2>5 DEF LinkOK
  <2>7. net' = [net EXCEPT ![l] = dup] /\ UNCHANGED <<srv, nextTimeline>>
    BY <1>8 DEF Duplicate, q
  <2> QED BY <1>8, <2>6, <2>7, DisturbOK, LinkChangeOK DEF Duplicate
<1>9. ASSUME NEW d \in Device, HandleTimeout(d)
      PROVE  IInv'
  <2>1. ResultOK(d, handleTimeout(d, srv[d], nextTimeline, FALSE))
    BY FreshTimeline, TimeoutOK DEF IInv
  <2> QED BY <1>9, <2>1, SpontaneousOK DEF HandleTimeout, IInv
<1>10. ASSUME NEW d \in Device, HandleTimeoutNoGoodData(d)
       PROVE  IInv'
  <2>1. ResultOK(d, handleTimeout(d, srv[d], nextTimeline, TRUE))
    BY FreshTimeline, TimeoutOK DEF IInv
  <2> QED BY <1>10, <2>1, DisturbOK, SpontaneousOK DEF HandleTimeoutNoGoodData
<1>11. ASSUME NEW d \in Device, BindInterface(d)
       PROVE  IInv'
  <2>1. ResultOK(d, bindInterface(d, srv[d]))
    BY BindInterfaceOK DEF IInv
  <2> QED BY <1>11, <2>1, DisturbOK, SpontaneousOK DEF BindInterface
<1>12. ASSUME NEW d \in Device, BindFails(d)
       PROVE  IInv'
  <2>1. DeviceOK(d, bindFails(srv[d])) /\ Awake(bindFails(srv[d]))
    BY BindFailsOK DEF IInv
  <2>2. /\ srv' = [srv EXCEPT ![d] = bindFails(srv[d])]
        /\ UNCHANGED <<net, nextTimeline>> /\ Disturb("bind_fails")
    BY <1>12 DEF BindFails
  <2> QED BY <2>1, <2>2, DisturbOK, LocalOK
<1>13. ASSUME NEW d \in Device, LeaveNetwork(d)
       PROVE  IInv'
  <2>1. ResultOK(d, leaveNetwork(d, srv[d], nextTimeline))
    BY FreshTimeline, LeaveNetworkOK DEF IInv
  <2> QED BY <1>13, <2>1, DisturbOK, SpontaneousOK DEF LeaveNetwork
<1>14. ASSUME NEW d \in Device, forceNetworklessMasterMode(d)
       PROVE  IInv'
  <2>1. ResultOK(d, becomeMaster(d, srv[d], nextTimeline))
    BY <1>14, FreshTimeline, BecomeMaster
       DEF IInv, forceNetworklessMasterMode, DeviceOK
  <2> QED BY <1>14, <2>1, DisturbOK, SpontaneousOK
          DEF forceNetworklessMasterMode
<1>15. ASSUME NEW d \in Device, setMasterElectionPriority(d)
       PROVE  IInv'
  <2> PICK prio \in Priority : srv' = [srv EXCEPT ![d].mMasterPriority = prio]
    BY <1>15 DEF setMasterElectionPriority
  <2> DEFINE s == [srv[d] EXCEPT !.mMasterPriority = prio]
  <2>1. prio \in ConfiguredPriority
    BY PriorityAssumption DEF ConfiguredPriority
  <2>2. DeviceOK(d, srv[d]) /\ Awake(srv[d])
    BY DEF IInv
  <2>3. DeviceOK(d, s) /\ Awake(s)
    BY <2>1, <2>2 DEF DeviceOK, Server, Role, Time, CanServe, Awake
  <2>4. srv' = [srv EXCEPT ![d] = s]
    BY DEF IInv
  <2> HIDE DEF s
  <2> QED BY <1>15, <2>3, <2>4, DisturbOK, LocalOK
          DEF setMasterElectionPriority
<1>16. ASSUME NEW d \in Device, Restart(d)
       PROVE  IInv'
  <2>1. srv[d].mMasterPriority \in ConfiguredPriority
    BY DEF IInv, DeviceOK, Server
  <2>2. DeviceOK(d, Fresh(srv[d].mMasterPriority))
        /\ Awake(Fresh(srv[d].mMasterPriority))
    BY <2>1, FreshOK
  <2> QED BY <1>16, <2>2, DisturbOK, LocalOK DEF Restart
<1>17. CASE UNCHANGED vars
  BY <1>17 DEF vars, IInv
<1> QED BY <1>1, <1>2, <1>3, <1>4, <1>5, <1>6, <1>7, <1>8, <1>9, <1>10, <1>11,
           <1>12, <1>13, <1>14, <1>15, <1>16, <1>17 DEF Next, HandlePacket

THEOREM Invariance == Spec => []IInv
BY InitOK, StepPreserves, PTL DEF Spec

-----------------------------------------------------------------------------
(* What IInv says of the system *)

\* Every variable has its type, whatever is lost, duplicated or reordered.
THEOREM TypeCorrect == Spec => []TypeOK
<1>1. IInv => TypeOK
  BY DEF IInv, TypeOK
<1> QED BY <1>1, Invariance, PTL

\* In a network of any size, whatever happens in it, a device's role agrees
\* with the timeline and the master it records (becomeClient, becomeMaster,
\* becomeRonin and becomeInitial).
THEOREM RoleCorrect == Spec => []RoleIsConsistent
<1>1. IInv => RoleIsConsistent
  BY DEF IInv, DeviceOK, Role, RoleIsConsistent
<1> QED BY <1>1, Invariance, PTL

\* No election, panic, loss or rebind makes a device a master, or a candidate,
\* on a network without the time of its timeline; and a device that follows no
\* timeline has no time and is not synced, so that the assertion of
\* becomeMaster never fails.
THEOREM MastersServe == Spec => []TimeFitsRole
<1>1. IInv => TimeFitsRole
  BY DEF IInv, DeviceOK, CanServe, Time, Master, Networked, ClockValid,
         TimeFitsRole
<1> QED BY <1>1, Invariance, PTL

\* What the listeners heard last, while the clock is synced, is the timeline
\* that it follows.
THEOREM ListenersKnow == Spec => []ListenersKnowTimeline
<1>1. IInv => ListenersKnowTimeline
  BY DEF IInv, DeviceOK, Time, ListenersKnowTimeline
<1> QED BY <1>1, Invariance, PTL

\* No handler leaves a device that has joined a network without a timeout.
THEOREM StaysAwake == Spec => []NeverSleepsForEver
<1>1. IInv => NeverSleepsForEver
  BY DEF IInv, Awake, Networked, NeverSleepsForEver
<1> QED BY <1>1, Invariance, PTL

-----------------------------------------------------------------------------
(* The time a device tells, in a timely network *)

Packets(q) == {q[i] : i \in 1..Len(q)}

Follows(s, m) == s.mState = "CLIENT" /\ s.mMasterEP = m

\* What is true of a packet p in flight on link l: a master speaks of the
\* timeline it serves; the times of an answer are of the timeline it names; a
\* client that gets one is on that timeline; and so is one whose request for
\* the time of that timeline is going to be served.
PacketOK(l, p) ==
  /\ Masterly(p) /\ Serves(srv[l[1]]) => p.timelineID = srv[l[1]].mTimelineID
  /\ Answer(p) => p.time = p.timelineID
  /\ Answer(p) /\ Follows(srv[l[2]], l[1]) =>
       p.timelineID = srv[l[2]].mTimelineID
  /\ /\ p.packetType = "SYNC_REQUEST"
     /\ Serves(srv[l[2]]) /\ p.timelineID = srv[l[2]].mTimelineID
     /\ Follows(srv[l[1]], l[2])
     => p.timelineID = srv[l[1]].mTimelineID

\* The packets a master sent speak of one timeline.
OneVoice(q) ==
  \A p, r \in Packets(q) : Masterly(p) /\ Masterly(r) =>
    p.timelineID = r.timelineID

ClockInv ==
  /\ \A d \in Device : OnTimeline(srv[d])
  /\ \A l \in Link :
       OneVoice(net[l]) /\ \A p \in Packets(net[l]) : PacketOK(l, p)

LEMMA TransmittedPackets ==
  ASSUME IInv, NEW links \in [Link -> Seq(Packet)], NEW l \in Link,
         NEW d, NEW k, NEW p \in Packets(Transmit(links, d, k)[l])
  PROVE  p \in Packets(links[l]) \/ (p = k /\ l[1] = d /\ l[2] \in k.to)
<1>1. CASE /\ l[1] = d /\ l[2] \in k.to /\ srv[l[2]].mSocket
           /\ Len(links[l]) < MaxQueue
  <2>1. Transmit(links, d, k)[l] = Append(links[l], k)
    BY <1>1 DEF Transmit
  <2>2. PICK i \in 1..Len(links[l]) + 1 : p = Append(links[l], k)[i]
    BY <2>1 DEF Packets
  <2>3. CASE i = Len(links[l]) + 1
    BY <1>1, <2>2, <2>3
  <2>4. CASE i # Len(links[l]) + 1
    <3>1. i \in 1..Len(links[l]) /\ p = links[l][i]
      BY <2>2, <2>4
    <3> QED BY <3>1 DEF Packets
  <2> QED BY <2>3, <2>4
<1>2. CASE ~(/\ l[1] = d /\ l[2] \in k.to /\ srv[l[2]].mSocket
             /\ Len(links[l]) < MaxQueue)
  <2>1. Transmit(links, d, k)[l] = links[l]
    BY <1>2 DEF Transmit
  <2> QED BY <2>1
<1> QED BY <1>1, <1>2

\* A device goes from srv[d] to t and sends k.
LEMMA ClockStep ==
  ASSUME IInv, ClockInv, NEW d \in Device, NEW t, NEW k,
         NEW links \in [Link -> Seq(Packet)],
         \A l \in Link : Packets(links[l]) \subseteq Packets(net[l]),
         srv' = [srv EXCEPT ![d] = t], net' = Transmit(links, d, k),
         OnTimeline(t), TrueTo(t, k),
         NoNewReign(srv[d], t) \/ \A l \in Link : links[l] = <<>>,
         \/ NoNewMaster(srv[d], t)
         \/ \E m \in Device : <<m, d>> \in Link /\
              \E p \in Packets(net[<<m, d>>]) :
                p.deviceID = m /\ Masterly(p) /\ Adopts(p, t),
         Answer(k) =>
           /\ t.mTimelineID = srv[d].mTimelineID /\ NoNewReign(srv[d], t)
           /\ \A e \in k.to : <<e, d>> \in Link /\
                \E r \in Packets(net[<<e, d>>]) :
                  /\ r.packetType = "SYNC_REQUEST"
                  /\ r.timelineID = k.timelineID
  PROVE  ClockInv'
<1>1. /\ srv'[d] = t
      /\ \A e \in Device : e # d => srv'[e] = srv[e]
  BY DEF IInv
<1>2. \A e \in Device : OnTimeline(srv'[e])
  BY <1>1 DEF ClockInv
<1>3. \A l \in Link : l[1] \in Device /\ l[2] \in Device /\ l[1] # l[2]
                      /\ l = <<l[1], l[2]>>
  BY DEF Link
<1>4. ASSUME NEW l \in Link, NEW p \in Packets(net'[l])
      PROVE  \/ p \in Packets(links[l]) /\ p \in Packets(net[l])
             \/ p = k /\ l[1] = d /\ l[2] \in k.to
  BY TransmittedPackets
\* Where a packet was in flight already, no device has begun a reign.
<1>5. ASSUME NEW l \in Link, NEW p \in Packets(links[l])
      PROVE  NoNewReign(srv[d], t)
  <2>1. links[l] # <<>>
    BY DEF Packets
  <2> QED BY <2>1
\* What an old packet on a link of d meant it still means.
<1>6. ASSUME NEW l \in Link, NEW p \in Packets(net'[l]), Masterly(p),
             Serves(srv'[l[1]])
      PROVE  p.timelineID = srv'[l[1]].mTimelineID
  <2>1. CASE p \in Packets(links[l]) /\ p \in Packets(net[l])
    <3>1. PacketOK(l, p)
      BY <2>1 DEF ClockInv
    <3>2. NoNewReign(srv[d], t)
      BY <1>5, <2>1
    <3> QED BY <1>1, <1>3, <1>6, <3>1, <3>2 DEF PacketOK, NoNewReign
  <2>2. CASE p = k /\ l[1] = d /\ l[2] \in k.to
    BY <1>1, <1>6, <2>2 DEF TrueTo
  <2> QED BY <1>4, <2>1, <2>2
<1>7. ASSUME NEW l \in Link, NEW p \in Packets(net'[l]), Answer(p)
      PROVE  p.time = p.timelineID
  <2>1. CASE p \in Packets(net[l])
    BY <1>7, <2>1 DEF ClockInv, PacketOK
  <2>2. CASE p = k /\ l[1] = d /\ l[2] \in k.to
    BY <1>7, <2>2 DEF TrueTo
  <2> QED BY <1>4, <2>1, <2>2
<1>8. ASSUME NEW l \in Link, NEW p \in Packets(net'[l]), Answer(p),
             Follows(srv'[l[2]], l[1])
      PROVE  p.timelineID = srv'[l[2]].mTimelineID
  <2>1. CASE p \in Packets(links[l]) /\ p \in Packets(net[l])
    <3>1. PacketOK(l, p) /\ OneVoice(net[l])
      BY <2>1 DEF ClockInv
    <3>2. CASE l[2] # d
      BY <1>1, <1>3, <1>8, <3>1, <3>2 DEF PacketOK
    <3>3. CASE l[2] = d /\ NoNewMaster(srv[d], t)
      BY <1>1, <1>8, <3>1, <3>3 DEF PacketOK, NoNewMaster, Follows
    <3>4. CASE l[2] = d /\ ~NoNewMaster(srv[d], t)
      <4> PICK m \in Device :
            <<m, d>> \in Link /\
              \E q \in Packets(net[<<m, d>>]) :
                q.deviceID = m /\ Masterly(q) /\ Adopts(q, t)
        BY <3>4
      <4> PICK q \in Packets(net[<<m, d>>]) :
            q.deviceID = m /\ Masterly(q) /\ Adopts(q, t)
        OBVIOUS
      <4>1. m = l[1] /\ l = <<m, d>>
        BY <1>1, <1>3, <1>8, <3>4 DEF Follows, Adopts
      <4>2. q.timelineID = p.timelineID
        BY <1>8, <2>1, <3>1, <4>1 DEF OneVoice, Masterly
      <4> QED BY <1>1, <3>4, <4>2 DEF Adopts
    <3> QED BY <3>2, <3>3, <3>4
  <2>2. CASE p = k /\ l[1] = d /\ l[2] \in k.to
    <3> DEFINE e == l[2]
    <3>1. e \in Device /\ e # d
      BY <1>3, <2>2
    <3>2. PICK r \in Packets(net[<<e, d>>]) :
            <<e, d>> \in Link /\ r.packetType = "SYNC_REQUEST"
            /\ r.timelineID = k.timelineID
      BY <1>8, <2>2
    <3>3. Serves(t) /\ k.timelineID = t.mTimelineID
      BY <1>8, <2>2 DEF TrueTo, Masterly
    <3>4. Serves(srv[d]) /\ r.timelineID = srv[d].mTimelineID
      BY <1>8, <2>2, <3>2, <3>3 DEF NoNewReign
    <3>5. Follows(srv[e], d) /\ srv'[e] = srv[e]
      BY <1>1, <1>8, <2>2, <3>1
    <3>6. PacketOK(<<e, d>>, r)
      BY <3>2 DEF ClockInv
    <3>7. r.timelineID = srv[e].mTimelineID
      BY <3>2, <3>4, <3>5, <3>6 DEF PacketOK
    <3> QED BY <2>2, <3>2, <3>5, <3>7
  <2> QED BY <1>4, <2>1, <2>2
<1>9. ASSUME NEW l \in Link, NEW p \in Packets(net'[l]),
             p.packetType = "SYNC_REQUEST", Serves(srv'[l[2]]),
             p.timelineID = srv'[l[2]].mTimelineID, Follows(srv'[l[1]], l[2])
      PROVE  p.timelineID = srv'[l[1]].mTimelineID
  <2>1. CASE p \in Packets(links[l]) /\ p \in Packets(net[l])
    <3>1. PacketOK(l, p)
      BY <2>1 DEF ClockInv
    <3>2. CASE l[1] # d
      <4>1. NoNewReign(srv[d], t)
        BY <1>5, <2>1
      <4>2. Serves(srv[l[2]]) /\ srv'[l[2]].mTimelineID = srv[l[2]].mTimelineID
        BY <1>1, <1>3, <1>9, <4>1 DEF NoNewReign
      <4> QED BY <1>1, <1>3, <1>9, <3>1, <3>2, <4>2 DEF PacketOK
    <3>3. CASE l[1] = d /\ NoNewMaster(srv[d], t)
      <4>1. l[2] # d
        BY <1>3, <3>3
      <4> QED BY <1>1, <1>3, <1>9, <3>1, <3>3, <4>1
              DEF PacketOK, NoNewMaster, Follows
    <3>4. CASE l[1] = d /\ ~NoNewMaster(srv[d], t)
      <4> PICK m \in Device :
            <<m, d>> \in Link /\
              \E q \in Packets(net[<<m, d>>]) :
                q.deviceID = m /\ Masterly(q) /\ Adopts(q, t)
        BY <3>4
      <4> PICK q \in Packets(net[<<m, d>>]) :
            q.deviceID = m /\ Masterly(q) /\ Adopts(q, t)
        OBVIOUS
      <4>1. m = l[2] /\ m # d /\ srv'[m] = srv[m]
        BY <1>1, <1>3, <1>9, <3>4 DEF Follows, Adopts
      <4>2. PacketOK(<<m, d>>, q)
        BY DEF ClockInv
      <4>3. q.timelineID = srv[m].mTimelineID
        BY <1>9, <4>1, <4>2 DEF PacketOK
      <4> QED BY <1>1, <1>9, <3>4, <4>1, <4>3 DEF Adopts
    <3> QED BY <3>2, <3>3, <3>4
  <2>2. CASE p = k /\ l[1] = d /\ l[2] \in k.to
    BY <1>1, <1>9, <2>2 DEF TrueTo
  <2> QED BY <1>4, <2>1, <2>2
<1>10. ASSUME NEW l \in Link, NEW p \in Packets(net'[l]),
              NEW r \in Packets(net'[l]), Masterly(p), Masterly(r)
       PROVE  p.timelineID = r.timelineID
  <2>1. CASE p \in Packets(net[l]) /\ r \in Packets(net[l])
    BY <1>10, <2>1 DEF ClockInv, OneVoice
  <2>2. CASE l[1] = d /\ l[2] \in k.to /\ (p = k \/ r = k)
    <3>1. Serves(srv'[l[1]])
      BY <1>1, <1>10, <2>2 DEF TrueTo
    <3> QED BY <1>6, <1>10, <3>1
  <2> QED BY <1>4, <2>1, <2>2
<1>11. \A l \in Link : \A p \in Packets(net'[l]) : PacketOK(l, p)'
  BY <1>6, <1>7, <1>8, <1>9 DEF PacketOK
<1>12. \A l \in Link : OneVoice(net'[l])
  BY <1>10 DEF OneVoice
<1> QED BY <1>2, <1>11, <1>12 DEF ClockInv, OneVoice

\* Packets only disappear, or are there twice.
LEMMA FewerPackets ==
  ASSUME ClockInv, UNCHANGED srv,
         \A l \in Link : Packets(net'[l]) \subseteq Packets(net[l])
  PROVE  ClockInv'
<1>1. \A l \in Link : OneVoice(net'[l])
  BY DEF ClockInv, OneVoice
<1>2. \A l \in Link : \A p \in Packets(net'[l]) : PacketOK(l, p)'
  BY DEF ClockInv, PacketOK
<1> QED BY <1>1, <1>2 DEF ClockInv, OneVoice

\* Only the state of one device changes.
LEMMA ClockLocal ==
  ASSUME IInv, ClockInv, NEW d \in Device, NEW t,
         srv' = [srv EXCEPT ![d] = t], UNCHANGED net,
         OnTimeline(t), NoNewMaster(srv[d], t), NoNewReign(srv[d], t)
  PROVE  ClockInv'
<1>1. net \in [Link -> Seq(Packet)]
  BY DEF IInv
<1>2. NothingSent(d).to = {} /\ ~Answer(NothingSent(d))
  BY DEF NothingSent, MakePacket, Answer
<1>3. net' = Transmit(net, d, NothingSent(d))
  BY <1>1, <1>2 DEF Transmit
<1>4. TrueTo(t, NothingSent(d))
  BY <1>2 DEF TrueTo
<1> QED BY <1>1, <1>2, <1>3, <1>4, ClockStep

LEMMA ConsumedPackets ==
  ASSUME IInv, NEW l \in Link, NEW i \in 1..Len(net[l])
  PROVE  /\ Consume(l, i) \in [Link -> Seq(Packet)]
         /\ \A k \in Link : Packets(Consume(l, i)[k]) \subseteq Packets(net[k])
<1>1. Packets(Without(net[l], i)) \subseteq Packets(net[l])
  BY WithoutOK DEF IInv, Packets
<1>2. Consume(l, i) \in [Link -> Seq(Packet)]
  BY ConsumeOK
<1>3. ASSUME NEW k \in Link
      PROVE  Packets(Consume(l, i)[k]) \subseteq Packets(net[k])
  <2>1. CASE k = l
    BY <1>1, <2>1 DEF Consume, IInv
  <2>2. CASE k # l
    BY <2>2 DEF Consume, IInv
  <2> QED BY <2>1, <2>2
<1> QED BY <1>2, <1>3

\* A packet that arrives is in flight, and what ClockInv says of it is true.
LEMMA ClockArrival ==
  ASSUME IInv, ClockInv, NEW l \in Link, NEW type, NEW i \in Arriving(l, type)
  PROVE  /\ net[l][i] \in Packets(net[l]) /\ PacketOK(l, net[l][i])
         /\ net[l][i].deviceID = l[1]
         /\ OnTimeline(srv[l[2]]) /\ srv[l[2]].mSocket
         /\ l = <<l[1], l[2]>>
<1>1. i \in 1..Len(net[l]) /\ srv[l[2]].mSocket
  BY DEF Arriving
<1>2. net[l][i] \in Packets(net[l])
  BY <1>1 DEF Packets
<1>3. net[l][i].deviceID = l[1]
  BY <1>1 DEF IInv, LinkOK, SentOK
<1>4. l[2] \in Device /\ l = <<l[1], l[2]>>
  BY DEF Link
<1> QED BY <1>1, <1>2, <1>3, <1>4 DEF ClockInv

\* A handler that takes a packet and answers no request for the time.
LEMMA ClockHandled ==
  ASSUME IInv, ClockInv, NEW l \in Link, NEW type, NEW i \in Arriving(l, type),
         NEW res, Step(l[2], res, Consume(l, i)),
         TellsTime(res), ~Answer(res.pkt), NoNewReign(srv[l[2]], res.srv),
         \/ NoNewMaster(srv[l[2]], res.srv)
         \/ Masterly(net[l][i]) /\ Adopts(net[l][i], res.srv)
  PROVE  ClockInv'
<1> DEFINE d == l[2]
           p == net[l][i]
           links == Consume(l, i)
<1>1. /\ d \in Device /\ l[1] \in Device /\ l = <<l[1], d>>
      /\ i \in 1..Len(net[l])
      /\ p \in Packets(net[l]) /\ p.deviceID = l[1]
  BY Arrival, ClockArrival
<1>2. /\ links \in [Link -> Seq(Packet)]
      /\ \A k \in Link : Packets(links[k]) \subseteq Packets(net[k])
  BY <1>1, ConsumedPackets
<1>3. \/ NoNewMaster(srv[d], res.srv)
      \/ \E m \in Device : <<m, d>> \in Link /\
           \E q \in Packets(net[<<m, d>>]) :
             q.deviceID = m /\ Masterly(q) /\ Adopts(q, res.srv)
  BY <1>1
<1>4. /\ srv' = [srv EXCEPT ![d] = res.srv]
      /\ net' = Transmit(links, d, res.pkt)
  BY DEF Step
<1> HIDE DEF d, p, links
<1>5. NoNewReign(srv[d], res.srv)
  BY DEF d
<1> QED BY <1>1, <1>2, <1>3, <1>4, <1>5, ClockStep DEF TellsTime

\* A handler that takes no packet and answers none.
LEMMA ClockSpontaneous ==
  ASSUME IInv, ClockInv, NEW d \in Device, NEW res, Step(d, res, net),
         TellsTime(res), ~Answer(res.pkt), NoNewMaster(srv[d], res.srv),
         NoNewReign(srv[d], res.srv) \/ \A l \in Link : net[l] = <<>>
  PROVE  ClockInv'
<1>1. net \in [Link -> Seq(Packet)]
  BY DEF IInv
<1>2. /\ srv' = [srv EXCEPT ![d] = res.srv]
      /\ net' = Transmit(net, d, res.pkt)
  BY DEF Step
<1> QED BY <1>1, <1>2, ClockStep DEF TellsTime

LEMMA ClockInit == Init => ClockInv
<1> SUFFICES ASSUME Init PROVE ClockInv
  OBVIOUS
<1>1. \A d \in Device : OnTimeline(srv[d])
  BY DEF Init, Fresh, OnTimeline
<1>2. \A l \in Link : Packets(net[l]) = {}
  BY DEF Init, Packets
<1> QED BY <1>1, <1>2 DEF ClockInv, OneVoice

LEMMA ClockPreserved ==
  ASSUME Timely, IInv, ClockInv, [Next]_vars
  PROVE  ClockInv'
<1>1. ASSUME NEW l \in Link, HandleWhoIsMasterRequest(l)
      PROVE  ClockInv'
  <2> PICK i \in Arriving(l, "WHO_IS_MASTER_REQUEST") :
        Step(l[2], handleWhoIsMasterRequest(l[2], srv[l[2]], net[l][i]),
             Consume(l, i))
    BY <1>1 DEF HandleWhoIsMasterRequest
  <2> QED BY Arrival, ClockArrival, WhoIsMasterRequestHandled, ClockHandled
<1>2. ASSUME NEW l \in Link, HandleWhoIsMasterResponse(l)
      PROVE  ClockInv'
  <2> PICK i \in Arriving(l, "WHO_IS_MASTER_RESPONSE") :
        Step(l[2], handleWhoIsMasterResponse(l[2], srv[l[2]], net[l][i]),
             Consume(l, i))
    BY <1>2 DEF HandleWhoIsMasterResponse
  <2>1. Masterly(net[l][i])
    BY Arrival DEF Masterly
  <2> QED BY <2>1, Arrival, ClockArrival, NewsHandled, ClockHandled
<1>3. ASSUME NEW l \in Link, HandleMasterAnnouncement(l)
      PROVE  ClockInv'
  <2> PICK i \in Arriving(l, "MASTER_ANNOUNCEMENT") :
        Step(l[2], handleMasterAnnouncement(l[2], srv[l[2]], net[l][i]),
             Consume(l, i))
    BY <1>3 DEF HandleMasterAnnouncement
  <2>1. Masterly(net[l][i])
    BY Arrival DEF Masterly
  <2> QED BY <2>1, Arrival, ClockArrival, NewsHandled, ClockHandled
<1>4. ASSUME NEW l \in Link, HandleSyncRequest(l)
      PROVE  ClockInv'
  <2> DEFINE d == l[2]
  <2> PICK i \in Arriving(l, "SYNC_REQUEST") :
        Step(l[2], handleSyncRequest(l[2], srv[l[2]], net[l][i]),
             Consume(l, i))
    BY <1>4 DEF HandleSyncRequest
  <2> DEFINE p == net[l][i]
             res == handleSyncRequest(d, srv[d], p)
             links == Consume(l, i)
  <2>1. /\ d \in Device /\ l[1] \in Device /\ l = <<l[1], d>>
        /\ i \in 1..Len(net[l]) /\ DeviceOK(d, srv[d])
        /\ OnTimeline(srv[d]) /\ srv[d].mSocket
        /\ p \in Packet /\ p \in Packets(net[l]) /\ p.deviceID = l[1]
        /\ p.packetType = "SYNC_REQUEST"
    BY Arrival, ClockArrival
  <2>2. /\ links \in [Link -> Seq(Packet)]
        /\ \A k \in Link : Packets(links[k]) \subseteq Packets(net[k])
    BY <2>1, ConsumedPackets
  <2>3. /\ srv' = [srv EXCEPT ![d] = res.srv]
        /\ net' = Transmit(links, d, res.pkt)
    BY DEF Step
  <2> HIDE DEF d, p, links, res
  <2>4. /\ TellsTime(res)
        /\ Answer(res.pkt) => /\ res.pkt.to = {p.deviceID}
                              /\ res.pkt.timelineID = p.timelineID
        /\ NoNewMaster(srv[d], res.srv) /\ NoNewReign(srv[d], res.srv)
        /\ res.srv.mTimelineID = srv[d].mTimelineID
    BY <2>1, SyncRequestHandled DEF res
  <2>5. Answer(res.pkt) => \A e \in res.pkt.to : <<e, d>> \in Link /\
          \E r \in Packets(net[<<e, d>>]) :
            /\ r.packetType = "SYNC_REQUEST"
            /\ r.timelineID = res.pkt.timelineID
    BY <2>1, <2>4
  <2> QED BY <2>1, <2>2, <2>3, <2>4, <2>5, ClockStep DEF TellsTime
\* What a response is worth to a device that takes its master's for it.
<1>5. ASSUME NEW l \in Link, NEW i \in Arriving(l, "SYNC_RESPONSE")
      PROVE  LET s == srv[l[2]]  p == net[l][i]
             IN ~p.nak /\ s.mState = "CLIENT" /\ s.mMasterEP = p.deviceID =>
                  p.time = s.mTimelineID
  BY Arrival, ClockArrival DEF PacketOK, Answer, Follows
<1>6. ASSUME NEW l \in Link, HandleSyncResponse(l)
      PROVE  ClockInv'
  <2> PICK i \in Arriving(l, "SYNC_RESPONSE"), best \in 1..kStartupFilterSize :
        Step(l[2], handleSyncResponse(l[2], srv[l[2]], net[l][i], "good", best),
             Consume(l, i))
    BY <1>6 DEF HandleSyncResponse
  <2> QED BY <1>5, Arrival, ClockArrival, SyncResponseHandled, ClockHandled
<1>7. ASSUME NEW l \in Link, HandleBadSyncResponse(l)
      PROVE  ClockInv'
  <2> PICK i \in Arriving(l, "SYNC_RESPONSE"),
           outcome \in {"late", "no_good_data", "panic"} :
        Step(l[2], handleSyncResponse(l[2], srv[l[2]], net[l][i], outcome, 1),
             Consume(l, i))
    BY <1>7 DEF HandleBadSyncResponse
  <2>1. 1 \in 1..kStartupFilterSize
    BY RetryAssumption
  <2> QED BY <1>5, <2>1, Arrival, ClockArrival, SyncResponseHandled,
             ClockHandled
<1>8. ASSUME NEW l \in Link, Lose(l)
      PROVE  ClockInv'
  <2>1. net[l] # <<>> /\ net[l] \in Seq(Packet)
    BY <1>8 DEF Lose, IInv
  <2>2. \A i \in 1..Len(Tail(net[l])) :
          i + 1 \in 1..Len(net[l]) /\ Tail(net[l])[i] = net[l][i + 1]
    BY <2>1, HeadTailProperties
  <2>3. Packets(Tail(net[l])) \subseteq Packets(net[l])
    BY <2>2 DEF Packets
  <2>4. /\ net' = [net EXCEPT ![l] = Tail(net[l])]
        /\ UNCHANGED srv
    BY <1>8 DEF Lose
  <2>5. \A k \in Link : Packets(net'[k]) \subseteq Packets(net[k])
    BY <2>3, <2>4 DEF IInv
  <2> QED BY <2>4, <2>5, FewerPackets
<1>9. ASSUME NEW l \in Link, Duplicate(l)
      PROVE  ClockInv'
  <2> DEFINE q == net[l]
             dup == <<Head(q)>> \o q
  <2>1. q # <<>> /\ q \in Seq(Packet)
    BY <1>9 DEF Duplicate, IInv
  <2>2. Len(q) \in Nat \ {0} /\ Head(q) = q[1] /\ Head(q) \in Packet
    BY <2>1, EmptySeq, HeadTailProperties
  <2>3. <<Head(q)>> \in Seq(Packet) /\ Len(<<Head(q)>>) = 1
    BY <2>2
  <2>4. net' = [net EXCEPT ![l] = dup] /\ UNCHANGED srv
    BY <1>9 DEF Duplicate
  <2> HIDE DEF q
  <2>5. /\ Len(dup) = 1 + Len(q)
        /\ \A j \in 1..1 + Len(q) :
             dup[j] = IF j <= 1 THEN <<Head(q)>>[j] ELSE q[j - 1]
    BY <2>1, <2>3, ConcatProperties
  <2>6. ASSUME NEW j \in 1..Len(dup)
        PROVE  \E k \in 1..Len(q) : dup[j] = q[k]
    BY <2>2, <2>5
  <2> HIDE DEF dup
  <2>7. Packets(dup) \subseteq Packets(q)
    BY <2>6 DEF Packets
  <2>8. \A k \in Link : Packets(net'[k]) \subseteq Packets(net[k])
    BY <2>4, <2>7 DEF IInv, q
  <2> QED BY <2>4, <2>8, FewerPackets
<1>10. ASSUME NEW d \in Device, NEW noGoodData \in BOOLEAN, MayTimeOut(d),
              Step(d, handleTimeout(d, srv[d], nextTimeline, noGoodData), net)
       PROVE  ClockInv'
  <2>1. DeviceOK(d, srv[d]) /\ OnTimeline(srv[d])
    BY DEF IInv, ClockInv
  <2>2. \A l \in Link : net[l] = <<>>
    BY <1>10 DEF MayTimeOut
  <2> QED BY <1>10, <2>1, <2>2, FreshTimeline, TimeoutTells, ClockSpontaneous
<1>11. ASSUME NEW d \in Device, BindInterface(d)
       PROVE  ClockInv'
  <2> DEFINE res == bindInterface(d, srv[d])
  <2>1. DeviceOK(d, srv[d]) /\ OnTimeline(srv[d])
    BY DEF IInv, ClockInv
  <2>2. /\ TellsTime(res) /\ ~Answer(res.pkt)
        /\ res.srv.mState \in {"INITIAL", "RONIN"}
    BY <2>1, BindInterfaceTells
  <2>3. Step(d, res, net)
    BY <1>11 DEF BindInterface
  <2> HIDE DEF res
  <2> QED BY <2>2, <2>3, ClockSpontaneous DEF NoNewMaster, NoNewReign, Serves
<1>12. ASSUME NEW d \in Device, BindFails(d)
       PROVE  ClockInv'
  <2> DEFINE t == bindFails(srv[d])
  <2>1. DeviceOK(d, srv[d]) /\ OnTimeline(srv[d])
    BY DEF IInv, ClockInv
  <2>2. OnTimeline(t) /\ NoNewMaster(srv[d], t) /\ ~t.mSocket
    BY <2>1 DEF bindFails, DeviceOK, Server, OnTimeline, NoNewMaster
  <2>3. srv' = [srv EXCEPT ![d] = t] /\ UNCHANGED net
    BY <1>12 DEF BindFails
  <2> HIDE DEF t
  <2> QED BY <2>2, <2>3, ClockLocal DEF NoNewReign, Serves
<1>13. ASSUME NEW d \in Device, LeaveNetwork(d)
       PROVE  ClockInv'
  <2> DEFINE res == leaveNetwork(d, srv[d], nextTimeline)
  <2>1. DeviceOK(d, srv[d]) /\ OnTimeline(srv[d])
    BY DEF IInv, ClockInv
  <2>2. /\ TellsTime(res) /\ ~Answer(res.pkt)
        /\ res.srv.mState # "CLIENT" /\ ~Serves(res.srv)
    BY <2>1, FreshTimeline, LeaveNetworkTells
  <2>3. Step(d, res, net)
    BY <1>13 DEF LeaveNetwork
  <2> HIDE DEF res
  <2> QED BY <2>2, <2>3, ClockSpontaneous DEF NoNewMaster, NoNewReign
<1>14. ASSUME NEW d \in Device, forceNetworklessMasterMode(d)
       PROVE  ClockInv'
  <2> DEFINE res == becomeMaster(d, srv[d], nextTimeline)
  <2>1. DeviceOK(d, srv[d]) /\ OnTimeline(srv[d])
    BY DEF IInv, ClockInv
  <2>2. ~srv[d].mSocket /\ Step(d, res, net)
    BY <1>14 DEF forceNetworklessMasterMode
  <2>3. /\ TellsTime(res) /\ ~Answer(res.pkt)
        /\ res.srv.mState = "MASTER" /\ ~res.srv.mSocket
    BY <2>1, <2>2, FreshTimeline, MasterTells DEF DeviceOK
  <2> HIDE DEF res
  <2> QED BY <2>2, <2>3, ClockSpontaneous DEF NoNewMaster, NoNewReign, Serves
<1>15. ASSUME NEW d \in Device, setMasterElectionPriority(d)
       PROVE  ClockInv'
  <2> PICK prio \in Priority : srv' = [srv EXCEPT ![d].mMasterPriority = prio]
    BY <1>15 DEF setMasterElectionPriority
  <2> DEFINE t == [srv[d] EXCEPT !.mMasterPriority = prio]
  <2>1. DeviceOK(d, srv[d]) /\ OnTimeline(srv[d])
    BY DEF IInv, ClockInv
  <2>2. /\ OnTimeline(t) /\ NoNewMaster(srv[d], t)
        /\ t.mState = srv[d].mState /\ t.mSocket = srv[d].mSocket
        /\ t.mTimelineID = srv[d].mTimelineID
    BY <2>1 DEF DeviceOK, Server, OnTimeline, NoNewMaster
  <2>3. srv' = [srv EXCEPT ![d] = t] /\ UNCHANGED net
    BY <1>15 DEF setMasterElectionPriority
  <2> HIDE DEF t
  <2>4. NoNewReign(srv[d], t)
    BY <2>2 DEF NoNewReign, Serves
  <2> QED BY <2>2, <2>3, <2>4, ClockLocal
<1>16. ASSUME NEW d \in Device, Restart(d)
       PROVE  ClockInv'
  <2> DEFINE t == Fresh(srv[d].mMasterPriority)
  <2>1. /\ OnTimeline(t) /\ NoNewMaster(srv[d], t)
        /\ NoNewReign(srv[d], t)
    BY DEF Fresh, OnTimeline, NoNewMaster, NoNewReign, Serves
  <2>2. srv' = [srv EXCEPT ![d] = t] /\ UNCHANGED net
    BY <1>16 DEF Restart
  <2> HIDE DEF t
  <2> QED BY <2>1, <2>2, ClockLocal
<1>17. CASE UNCHANGED vars
  BY <1>17, FewerPackets DEF vars
<1>18. ASSUME NEW d \in Device, HandleTimeout(d) \/ HandleTimeoutNoGoodData(d)
       PROVE  ClockInv'
  BY <1>10, <1>18 DEF HandleTimeout, HandleTimeoutNoGoodData
<1> QED BY <1>1, <1>2, <1>3, <1>4, <1>6, <1>7, <1>8, <1>9, <1>11, <1>12, <1>13,
           <1>14, <1>15, <1>16, <1>17, <1>18 DEF Next, HandlePacket

\* In a network that delivers before the timeouts expire, whatever it loses,
\* duplicates or reorders and whatever its devices do, the time that a device
\* tells under a timeline ID is the time of that timeline.
THEOREM ClockIsTrue ==
  ASSUME Timely
  PROVE  Spec => []ClockFollowsTimeline
<1>1. IInv /\ ClockInv /\ [Next]_vars => ClockInv'
  BY ClockPreserved
<1>2. ClockInv => ClockFollowsTimeline
  BY DEF ClockInv, OnTimeline, ClockValid, ClockFollowsTimeline
<1> QED BY <1>1, <1>2, ClockInit, Invariance, PTL DEF Spec

-----------------------------------------------------------------------------
(* One master: the invariant *)

\* Device d may still hear of master m: a packet of m is under way to d, or
\* d's request to m; and all that m sends d is news of itself, for d has not
\* asked it for the time.
Hope(d, m) ==
  \/ Packets(net[<<m, d>>]) # {}
  \/ \E p \in Packets(net[<<d, m>>]) : p.packetType = "WHO_IS_MASTER_REQUEST"

Clean(d, m) ==
  /\ \A p \in Packets(net[<<d, m>>]) : p.packetType # "SYNC_REQUEST"
  /\ \A p \in Packets(net[<<m, d>>]) : News(p)

AskersHear ==
  \A m, d \in Device :
    m # d /\ Serves(srv[m]) /\ Asking(srv[d]) => Hope(d, m) /\ Clean(d, m)

\* SingleMaster.
OneServes == \A m, d \in Device : Serves(srv[m]) /\ Serves(srv[d]) => m = d

MasterInv == OneServes /\ AskersHear

-----------------------------------------------------------------------------
(* One master: the network *)

LEMMA Appended ==
  ASSUME NEW q \in Seq(Packet), NEW p \in Packet
  PROVE  Packets(Append(q, p)) = Packets(q) \cup {p}
<1> DEFINE a == Append(q, p)
<1>1. /\ Len(q) \in Nat /\ Len(a) = Len(q) + 1
      /\ \A j \in 1..Len(q) : a[j] = q[j]
      /\ a[Len(q) + 1] = p
  BY AppendProperties
<1> HIDE DEF a
<1>2. \A j \in 1..Len(a) : j \in 1..Len(q) \/ j = Len(q) + 1
  BY <1>1
<1>3. Packets(a) \subseteq Packets(q) \cup {p}
  BY <1>1, <1>2 DEF Packets
<1>4. Len(q) + 1 \in 1..Len(a) /\ \A j \in 1..Len(q) : j \in 1..Len(a)
  BY <1>1
<1>5. Packets(q) \cup {p} \subseteq Packets(a)
  BY <1>1, <1>4 DEF Packets
<1> QED BY <1>3, <1>5 DEF a

\* What Transmit does to link k.
TransmitsTo(k, links, d, p) ==
  LET old == Packets(links[k])
      new == Packets(Transmit(links, d, p)[k])
  IN /\ k[1] # d \/ k[2] \notin p.to => new = old
     /\ old \subseteq new
     /\ \A r \in new : r \in old \/ r = p
     /\ k[1] = d /\ k[2] \in p.to /\ srv[k[2]].mSocket /\ old = {} => p \in new

LEMMA OnTheLink ==
  ASSUME NEW links \in [Link -> Seq(Packet)], NEW k \in Link,
         NEW d, NEW p \in Packet
  PROVE  TransmitsTo(k, links, d, p)
<1> DEFINE q == links[k]
           after == Transmit(links, d, p)[k]
           room == /\ k[1] = d /\ k[2] \in p.to /\ srv[k[2]].mSocket
                   /\ Len(q) < MaxQueue
<1>1. after = IF room THEN Append(q, p) ELSE q
  BY DEF Transmit
<1>2. q \in Seq(Packet) /\ Len(q) \in Nat
  OBVIOUS
<1>3. Packets(Append(q, p)) = Packets(q) \cup {p}
  BY <1>2, Appended
<1>4. Packets(q) = {} => Len(q) < MaxQueue
  <2>1. Len(q) # 0 => 1 \in 1..Len(q)
    BY <1>2
  <2>2. Packets(q) = {} => Len(q) = 0
    BY <2>1 DEF Packets
  <2> QED BY <2>2, BoundAssumption
<1> HIDE DEF q, after
<1>5. (k[1] # d \/ k[2] \notin p.to) => Packets(after) = Packets(q)
  BY <1>1
<1>6. /\ Packets(q) \subseteq Packets(after)
      /\ \A r \in Packets(after) : r \in Packets(q) \/ r = p
  BY <1>1, <1>3
<1>7. /\ k[1] = d /\ k[2] \in p.to /\ srv[k[2]].mSocket /\ Packets(q) = {}
      => p \in Packets(after)
  BY <1>1, <1>3, <1>4
<1> QED BY <1>5, <1>6, <1>7 DEF TransmitsTo, q, after

\* Taking one packet from a link leaves the others.
LEMMA Others ==
  ASSUME IInv, NEW l \in Link, NEW i \in 1..Len(net[l])
  PROVE  /\ Consume(l, i) \in [Link -> Seq(Packet)]
         /\ \A k \in Link : k # l => Consume(l, i)[k] = net[k]
         /\ Packets(Consume(l, i)[l]) \subseteq Packets(net[l])
         /\ Packets(net[l]) \subseteq Packets(Consume(l, i)[l]) \cup {net[l][i]}
<1>1. Packets(net[l]) \subseteq Packets(Without(net[l], i)) \cup {net[l][i]}
  BY WithoutOK DEF IInv, Packets
<1>2. /\ Consume(l, i)[l] = Without(net[l], i)
      /\ \A k \in Link : k # l => Consume(l, i)[k] = net[k]
  BY DEF Consume, IInv
<1> QED BY <1>1, <1>2, ConsumedPackets

LEMMA BetweenThem ==
  ASSUME NEW m \in Device, NEW d \in Device, m # d
  PROVE  /\ <<m, d>> \in Link /\ <<m, d>>[1] = m /\ <<m, d>>[2] = d
         /\ <<d, m>> \in Link /\ <<d, m>>[1] = d /\ <<d, m>>[2] = m
         /\ <<m, d>> # <<d, m>>
BY DEF Link

-----------------------------------------------------------------------------
(* One master: steps *)

\* If nobody begins to serve or to ask, and between those who do nothing
\* changes, the invariant is preserved.
LEMMA Undisturbed ==
  ASSUME MasterInv,
         \A d \in Device : /\ Serves(srv'[d]) => Serves(srv[d])
                           /\ Asking(srv'[d]) => Asking(srv[d]),
         \A m, d \in Device :
           m # d /\ Serves(srv'[m]) /\ Asking(srv'[d]) =>
             /\ Packets(net'[<<m, d>>]) = Packets(net[<<m, d>>])
             /\ Packets(net'[<<d, m>>]) = Packets(net[<<d, m>>])
  PROVE  MasterInv'
<1>1. OneServes'
  BY DEF MasterInv, OneServes
<1>2. ASSUME NEW m \in Device, NEW d \in Device, m # d,
             Serves(srv'[m]), Asking(srv'[d])
      PROVE  (Hope(d, m) /\ Clean(d, m))'
  <2>1. Hope(d, m) /\ Clean(d, m)
    BY <1>2 DEF MasterInv, AskersHear
  <2> QED BY <1>2, <2>1 DEF Hope, Clean
<1> QED BY <1>1, <1>2 DEF MasterInv, AskersHear

\* A device does something of its own accord after which it neither serves nor
\* asks.
LEMMA Withdraws ==
  ASSUME IInv, MasterInv, NEW d \in Device, NEW s, Withdrawn(s),
         srv' = [srv EXCEPT ![d] = s],
         \A k \in Link : k[1] # d => Packets(net'[k]) = Packets(net[k])
  PROVE  MasterInv'
<1>1. \A e \in Device : srv'[e] = IF e = d THEN s ELSE srv[e]
  BY DEF IInv
<1>2. ~Serves(srv'[d]) /\ ~Asking(srv'[d])
  BY <1>1 DEF Withdrawn
<1>3. \A e \in Device : /\ Serves(srv'[e]) => Serves(srv[e])
                        /\ Asking(srv'[e]) => Asking(srv[e])
  BY <1>1, <1>2
<1>4. ASSUME NEW m \in Device, NEW e \in Device, m # e,
             Serves(srv'[m]), Asking(srv'[e])
      PROVE  /\ Packets(net'[<<m, e>>]) = Packets(net[<<m, e>>])
             /\ Packets(net'[<<e, m>>]) = Packets(net[<<e, m>>])
  <2>1. m # d /\ e # d
    BY <1>2, <1>4
  <2> QED BY <1>4, <2>1, BetweenThem
<1> QED BY <1>3, <1>4, Undisturbed

LEMMA StepWithdraws ==
  ASSUME IInv, MasterInv, NEW d \in Device, NEW res, ResultOK(d, res),
         Withdrawn(res.srv), Step(d, res, net)
  PROVE  MasterInv'
<1>1. /\ srv' = [srv EXCEPT ![d] = res.srv]
      /\ net' = Transmit(net, d, res.pkt)
  BY DEF Step
<1>2. \A k \in Link : k[1] # d => net'[k] = net[k]
  BY <1>1 DEF Transmit
<1> QED BY <1>1, <1>2, Withdraws

\* The device at the end of link l handles packet i of it.
LEMMA MasterHandled ==
  ASSUME IInv, MasterInv, NEW l \in Link, NEW i \in 1..Len(net[l]),
         NEW res, ResultOK(l[2], res), Modest(srv[l[2]], net[l][i], res),
         Step(l[2], res, Consume(l, i))
  PROVE  MasterInv'
<1> DEFINE h == l[2]
           from == l[1]
           p == net[l][i]
           links == Consume(l, i)
           k == res.pkt
<1>1. /\ h \in Device /\ from \in Device /\ h # from
      /\ l = <<from, h>> /\ p.deviceID = from /\ p \in Packets(net[l])
  <2>1. SentOK(l[1], net[l][i])
    BY DEF IInv, LinkOK
  <2> QED BY <2>1 DEF Link, SentOK, Packets
<1>2. /\ links \in [Link -> Seq(Packet)]
      /\ \A j \in Link : j # l => links[j] = net[j]
      /\ Packets(links[l]) \subseteq Packets(net[l])
      /\ Packets(net[l]) \subseteq Packets(links[l]) \cup {p}
  BY Others
<1>3. srv' = [srv EXCEPT ![h] = res.srv] /\ net' = Transmit(links, h, k)
  BY DEF Step
<1>4. k \in Packet
  BY DEF ResultOK, SentOK
<1>5. Modest(srv[h], p, res)
  OBVIOUS
<1> HIDE DEF h, from, p, links, k
<1>11. ASSUME NEW j \in Link, NEW old, old = Packets(links[j]),
              NEW new, new = Packets(net'[j])
       PROVE  /\ j[1] # h \/ j[2] \notin k.to => new = old
              /\ old \subseteq new
              /\ \A r \in new : r \in old \/ r = k
              /\ /\ j[1] = h /\ j[2] \in k.to /\ srv[j[2]].mSocket
                 /\ old = {}
                 => k \in new
  <2>1. TransmitsTo(j, links, h, k)
    BY <1>2, <1>4, OnTheLink
  <2>2. new = Packets(Transmit(links, h, k)[j])
    BY <1>3, <1>11
  <2> QED BY <1>11, <2>1, <2>2 DEF TransmitsTo
<1>6. \A e \in Device : srv'[e] = IF e = h THEN res.srv ELSE srv[e]
  BY <1>3 DEF IInv
<1>7. \A e \in Device : /\ Serves(srv'[e]) => Serves(srv[e])
                        /\ Asking(srv'[e]) => Asking(srv[e])
  BY <1>5, <1>6 DEF Modest
<1>8. OneServes'
  BY <1>7 DEF MasterInv, OneServes
\* Only the links between the two ends of l change if h serves or asks.
<1>9. ASSUME Serves(res.srv) \/ Asking(res.srv), NEW j \in Link, j # l,
             j # <<h, from>>
      PROVE  Packets(net'[j]) = Packets(net[j])
  <2>1. k.to \subseteq {from}
    BY <1>1, <1>5, <1>9 DEF Modest, k
  <2>2. j[1] # h \/ j[2] \notin k.to
    BY <1>9, <2>1 DEF Link
  <2> QED BY <1>2, <1>11, <1>9, <2>2
<1>10. ASSUME NEW m \in Device, NEW d \in Device, m # d,
              Serves(srv'[m]), Asking(srv'[d])
       PROVE  (Hope(d, m) /\ Clean(d, m))'
  <2>1. /\ Hope(d, m) /\ Clean(d, m)
        /\ Serves(srv[m]) /\ Asking(srv[d])
    BY <1>7, <1>10 DEF MasterInv, AskersHear
  <2>2. /\ <<m, d>> \in Link /\ <<m, d>>[1] = m /\ <<m, d>>[2] = d
        /\ <<d, m>> \in Link /\ <<d, m>>[1] = d /\ <<d, m>>[2] = m
        /\ <<m, d>> # <<d, m>>
    BY <1>10, BetweenThem
  <2> DEFINE Same == /\ Packets(net'[<<m, d>>]) = Packets(net[<<m, d>>])
                     /\ Packets(net'[<<d, m>>]) = Packets(net[<<d, m>>])
  <2>3. Same => (Hope(d, m) /\ Clean(d, m))'
    BY <2>1 DEF Hope, Clean
  <2>4. CASE h # m /\ h # d
    <3>1. l # <<m, d>> /\ l # <<d, m>>
      BY <1>1, <2>2, <2>4
    <3>2. links[<<m, d>>] = net[<<m, d>>] /\ links[<<d, m>>] = net[<<d, m>>]
      BY <1>2, <2>2, <3>1
    <3>3. Packets(net'[<<m, d>>]) = Packets(net[<<m, d>>])
      BY <1>11, <2>2, <2>4, <3>2
    <3>4. Packets(net'[<<d, m>>]) = Packets(net[<<d, m>>])
      BY <1>11, <2>2, <2>4, <3>2
    <3> QED BY <2>3, <3>3, <3>4
  <2>5. CASE h = m /\ from # d
    <3>1. /\ l # <<m, d>> /\ l # <<d, m>>
          /\ <<h, from>> # <<m, d>> /\ <<h, from>> # <<d, m>>
      BY <1>1, <2>2, <2>5
    <3>2. Serves(res.srv)
      BY <1>6, <1>10, <2>5
    <3>3. Same
      BY <1>9, <2>2, <3>1, <3>2
    <3> QED BY <2>3, <3>3
  <2>6. CASE h = d /\ from # m
    <3>1. /\ l # <<m, d>> /\ l # <<d, m>>
          /\ <<h, from>> # <<m, d>> /\ <<h, from>> # <<d, m>>
      BY <1>1, <2>2, <2>6
    <3>2. Asking(res.srv)
      BY <1>6, <1>10, <2>6
    <3>3. Same
      BY <1>9, <2>2, <3>1, <3>2
    <3> QED BY <2>3, <3>3
\* What d hears from m is news, and ends its asking.
  <2>7. CASE h = d /\ from = m
    <3>1. News(p)
      BY <1>1, <2>1, <2>7 DEF Clean
    <3>2. ~News(p)
      BY <1>5, <1>6, <1>10, <2>7 DEF Modest
    <3> QED BY <3>1, <3>2
\* What m hears from d is no request for the time, and if it is a request for
\* a master it is answered.
  <2>8. CASE h = m /\ from = d
    <3>1. p.packetType # "SYNC_REQUEST"
      BY <1>1, <2>1, <2>8 DEF Clean
    <3>2. /\ Serves(res.srv)
          /\ k.to = {} \/ News(k)
          /\ p.packetType = "WHO_IS_MASTER_REQUEST" => k.to = {d} /\ News(k)
      BY <1>1, <1>5, <1>6, <1>10, <2>8, <3>1 DEF Modest, k
    <3>3. /\ Packets(net'[<<d, m>>]) = Packets(links[l])
          /\ links[<<m, d>>] = net[<<m, d>>]
      BY <1>1, <1>2, <1>11, <2>2, <2>8
    <3>4. /\ Packets(net[<<m, d>>]) \subseteq Packets(net'[<<m, d>>])
          /\ \A r \in Packets(net'[<<m, d>>]) :
               r \in Packets(net[<<m, d>>]) \/ (r = k /\ News(k))
      <4>1. CASE k.to = {}
        BY <1>11, <2>2, <3>3, <4>1
      <4>2. CASE News(k)
        BY <1>11, <2>2, <3>3, <4>2
      <4> QED BY <3>2, <4>1, <4>2
    <3>5. Clean(d, m)'
      BY <1>1, <1>2, <2>1, <2>8, <3>3, <3>4 DEF Clean
    <3>6. CASE Packets(net[<<m, d>>]) # {}
      BY <3>4, <3>5, <3>6 DEF Hope
    <3>7. CASE /\ Packets(net[<<m, d>>]) = {}
               /\ p.packetType = "WHO_IS_MASTER_REQUEST"
      <4>1. srv[d].mSocket
        BY <2>1 DEF Asking
      <4>2. /\ <<m, d>>[1] = h /\ <<m, d>>[2] \in k.to
            /\ srv[<<m, d>>[2]].mSocket /\ Packets(links[<<m, d>>]) = {}
        BY <2>2, <2>8, <3>2, <3>3, <3>7, <4>1
      <4>3. k \in Packets(net'[<<m, d>>])
        BY <1>11, <2>2, <4>2
      <4> QED BY <3>5, <4>3 DEF Hope
    <3>8. CASE /\ Packets(net[<<m, d>>]) = {}
               /\ p.packetType # "WHO_IS_MASTER_REQUEST"
      <4>1. PICK r \in Packets(net[<<d, m>>]) :
              r.packetType = "WHO_IS_MASTER_REQUEST"
        BY <2>1, <3>8 DEF Hope
      <4>2. r \in Packets(net'[<<d, m>>])
        BY <1>1, <1>2, <2>8, <3>3, <3>8, <4>1
      <4> QED BY <3>5, <4>1, <4>2 DEF Hope
    <3> QED BY <3>6, <3>7, <3>8
  <2> QED BY <2>4, <2>5, <2>6, <2>7, <2>8
<1> QED BY <1>8, <1>10 DEF MasterInv, AskersHear

\* A timeout of a device on the network, when no packet is in flight.
LEMMA MasterTimesOut ==
  ASSUME IInv, MasterInv, \A l \in Link : net[l] = <<>>,
         NEW d \in Device, srv[d].mSocket, NEW res, ResultOK(d, res),
         TakesTurn(d, srv[d], res), Step(d, res, net)
  PROVE  MasterInv'
<1> DEFINE k == res.pkt
<1>1. \A l \in Link : Packets(net[l]) = {}
  BY DEF Packets
\* So nobody asks where somebody else serves.
<1>2. ASSUME NEW m \in Device, NEW e \in Device, m # e,
             Serves(srv[m]), Asking(srv[e])
      PROVE  FALSE
  <2>1. Hope(e, m)
    BY <1>2 DEF MasterInv, AskersHear
  <2> QED BY <1>1, <1>2, <2>1, BetweenThem DEF Hope
<1>3. \A e \in Device : srv'[e] = IF e = d THEN res.srv ELSE srv[e]
  BY DEF Step, IInv
<1>4. net' = Transmit(net, d, k) /\ k \in Packet
  BY DEF Step, ResultOK, SentOK
<1> HIDE DEF k
<1>5. ASSUME NEW l \in Link
      PROVE  /\ l[1] # d => Packets(net'[l]) = {}
             /\ \A r \in Packets(net'[l]) : r = k
             /\ l[1] = d /\ l[2] \in k.to /\ srv[l[2]].mSocket =>
                  k \in Packets(net'[l])
  <2>1. TransmitsTo(l, net, d, k)
    BY <1>4, OnTheLink DEF IInv
  <2> QED BY <1>1, <1>4, <2>1 DEF TransmitsTo
<1>6. ASSUME NEW m \in Device, NEW e \in Device, m # e,
             Serves(srv'[m]), Serves(srv'[e])
      PROVE  FALSE
  <2>1. \A x \in Device : Serves(srv'[x]) => Serves(srv[x]) \/ Asking(srv[x])
    BY <1>3 DEF TakesTurn
  <2>2. \A x \in Device : Serves(srv'[x]) /\ x # d => Serves(srv[x])
    BY <1>3
  <2>3. Serves(srv[m]) \/ Serves(srv[e])
    BY <1>6, <2>2
  <2>4. ~(Serves(srv[m]) /\ Serves(srv[e]))
    BY <1>6 DEF MasterInv, OneServes
  <2> QED BY <1>2, <1>6, <2>1, <2>3, <2>4
<1>7. ASSUME NEW m \in Device, NEW e \in Device, m # e,
             Serves(srv'[m]), Asking(srv'[e])
      PROVE  (Hope(e, m) /\ Clean(e, m))'
  <2>1. /\ <<m, e>> \in Link /\ <<m, e>>[1] = m /\ <<m, e>>[2] = e
        /\ <<e, m>> \in Link /\ <<e, m>>[1] = e /\ <<e, m>>[2] = m
    BY <1>7, BetweenThem
\* d begins to serve, and says so;
  <2>2. CASE m = d
    <3>1. News(k) /\ k.to = Device \ {d}
      BY <1>3, <1>7, <2>2 DEF TakesTurn, k
    <3>2. srv[e].mSocket
      BY <1>3, <1>7, <2>2 DEF Asking
    <3>3. Packets(net'[<<e, m>>]) = {}
      BY <1>5, <1>7, <2>1, <2>2
    <3>4. k \in Packets(net'[<<m, e>>])
      BY <1>5, <1>7, <2>1, <2>2, <3>1, <3>2
    <3>5. \A r \in Packets(net'[<<m, e>>]) : r = k
      BY <1>5, <2>1
    <3> QED BY <3>1, <3>3, <3>4, <3>5 DEF Hope, Clean
\* or it asks.
  <2>3. CASE e = d
    <3>1. k.packetType = "WHO_IS_MASTER_REQUEST" /\ k.to = Device \ {d}
      BY <1>3, <1>7, <2>3 DEF TakesTurn, k
    <3>2. srv[m].mSocket
      BY <1>3, <1>7, <2>3 DEF Serves
    <3>3. Packets(net'[<<m, e>>]) = {}
      BY <1>5, <1>7, <2>1, <2>3
    <3>4. k \in Packets(net'[<<e, m>>])
      BY <1>5, <1>7, <2>1, <2>3, <3>1, <3>2
    <3>5. \A r \in Packets(net'[<<e, m>>]) : r = k
      BY <1>5, <2>1
    <3> QED BY <3>1, <3>3, <3>4, <3>5 DEF Hope, Clean
  <2>4. CASE m # d /\ e # d
    BY <1>2, <1>3, <1>7, <2>4
  <2> QED BY <2>2, <2>3, <2>4
<1> QED BY <1>6, <1>7 DEF MasterInv, OneServes, AskersHear

\* The network changes nothing between devices on it.
LEMMA MasterLinks ==
  ASSUME IInv, MasterInv, UNCHANGED srv,
         \A k \in Link : srv[k[2]].mSocket =>
           Packets(net'[k]) = Packets(net[k])
  PROVE  MasterInv'
<1>1. ASSUME NEW m \in Device, NEW d \in Device, m # d,
             Serves(srv'[m]), Asking(srv'[d])
      PROVE  /\ Packets(net'[<<m, d>>]) = Packets(net[<<m, d>>])
             /\ Packets(net'[<<d, m>>]) = Packets(net[<<d, m>>])
  <2>1. srv[m].mSocket /\ srv[d].mSocket
    BY <1>1 DEF Serves, Asking
  <2> QED BY <1>1, <2>1, BetweenThem
<1> QED BY <1>1, Undisturbed

LEMMA MasterInit == Init => MasterInv
<1> SUFFICES ASSUME Init PROVE MasterInv
  OBVIOUS
<1>1. \A d \in Device : ~Serves(srv[d]) /\ ~Asking(srv[d])
  BY DEF Init, Fresh, Serves, Asking
<1> QED BY <1>1 DEF MasterInv, OneServes, AskersHear

LEMMA MasterPreserved ==
  ASSUME Timely, "lose" \notin Fault, Patient, IInv, MasterInv, [Next]_vars
  PROVE  MasterInv'
<1>0. \A d \in Device : DeviceOK(d, srv[d]) /\ srv[d] \in Server
  BY DEF IInv
<1>1. ASSUME NEW l \in Link, HandleWhoIsMasterRequest(l)
      PROVE  MasterInv'
  <2> PICK i \in Arriving(l, "WHO_IS_MASTER_REQUEST") :
        Step(l[2], handleWhoIsMasterRequest(l[2], srv[l[2]], net[l][i]),
             Consume(l, i))
    BY <1>1 DEF HandleWhoIsMasterRequest
  <2>1. net[l][i].timelineID = kInvalidTimelineID
    BY Arrival DEF IInv, LinkOK, SentOK
  <2> QED BY <2>1, Arrival, WhoIsMasterRequestOK, WhoIsMasterRequestModest,
             MasterHandled
<1>2. ASSUME NEW l \in Link, HandleWhoIsMasterResponse(l)
      PROVE  MasterInv'
  <2> PICK i \in Arriving(l, "WHO_IS_MASTER_RESPONSE") :
        Step(l[2], handleWhoIsMasterResponse(l[2], srv[l[2]], net[l][i]),
             Consume(l, i))
    BY <1>2 DEF HandleWhoIsMasterResponse
  <2>1. Modest(srv[l[2]], net[l][i],
               handleWhoIsMasterResponse(l[2], srv[l[2]], net[l][i]))
    BY Arrival, NewsModest DEF News
  <2> QED BY <2>1, Arrival, WhoIsMasterResponseOK, MasterHandled
<1>3. ASSUME NEW l \in Link, HandleMasterAnnouncement(l)
      PROVE  MasterInv'
  <2> PICK i \in Arriving(l, "MASTER_ANNOUNCEMENT") :
        Step(l[2], handleMasterAnnouncement(l[2], srv[l[2]], net[l][i]),
             Consume(l, i))
    BY <1>3 DEF HandleMasterAnnouncement
  <2>1. Modest(srv[l[2]], net[l][i],
               handleMasterAnnouncement(l[2], srv[l[2]], net[l][i]))
    BY Arrival, NewsModest DEF News
  <2> QED BY <2>1, Arrival, MasterAnnouncementOK, MasterHandled
<1>4. ASSUME NEW l \in Link, HandleSyncRequest(l)
      PROVE  MasterInv'
  <2> PICK i \in Arriving(l, "SYNC_REQUEST") :
        Step(l[2], handleSyncRequest(l[2], srv[l[2]], net[l][i]),
             Consume(l, i))
    BY <1>4 DEF HandleSyncRequest
  <2> QED BY <1>0, Arrival, SyncRequestOK, SyncRequestModest, MasterHandled
<1>5. ASSUME NEW l \in Link, HandleSyncResponse(l) \/ HandleBadSyncResponse(l)
      PROVE  MasterInv'
  <2>1. 1 \in 1..kStartupFilterSize
    BY RetryAssumption
  <2> PICK i \in Arriving(l, "SYNC_RESPONSE"), best \in 1..kStartupFilterSize,
           outcome \in {"good", "late", "no_good_data", "panic"} :
        Step(l[2], handleSyncResponse(l[2], srv[l[2]], net[l][i], outcome, best),
             Consume(l, i))
    BY <1>5, <2>1 DEF HandleSyncResponse, HandleBadSyncResponse
  <2> DEFINE res == handleSyncResponse(l[2], srv[l[2]], net[l][i], outcome, best)
  <2>2. ResultOK(l[2], res)
    BY Arrival, SyncResponseOK
  <2>3. Modest(srv[l[2]], net[l][i], res)
    BY <1>0, Arrival, SyncResponseModest
  <2> HIDE DEF res
  <2>4. Step(l[2], res, Consume(l, i))
    BY DEF res
  <2> QED BY <2>2, <2>3, <2>4, Arrival, MasterHandled
<1>6. ASSUME NEW l \in Link, Lose(l)
      PROVE  MasterInv'
  <2>1. ~srv[l[2]].mSocket
    <3>1. CASE srv[l[2]].mSocket
      BY <1>6, <3>1 DEF Lose, Disturb
    <3> QED BY <3>1
  <2>2. \A k \in Link : k # l => net'[k] = net[k]
    BY <1>6 DEF Lose, IInv
  <2>3. UNCHANGED srv
    BY <1>6 DEF Lose
  <2> QED BY <2>1, <2>2, <2>3, MasterLinks
<1>7. ASSUME NEW l \in Link, Duplicate(l)
      PROVE  MasterInv'
  <2> DEFINE q == net[l]
             dup == <<Head(q)>> \o q
  <2>1. q # <<>> /\ q \in Seq(Packet)
    BY <1>7 DEF Duplicate, IInv
  <2>2. Len(q) \in Nat \ {0} /\ Head(q) = q[1] /\ Head(q) \in Packet
    BY <2>1, EmptySeq, HeadTailProperties
  <2>3. <<Head(q)>> \in Seq(Packet) /\ Len(<<Head(q)>>) = 1
    BY <2>2
  <2>4. net' = [net EXCEPT ![l] = dup] /\ UNCHANGED srv
    BY <1>7 DEF Duplicate
  <2> HIDE DEF q
  <2>5. /\ Len(dup) = 1 + Len(q)
        /\ \A j \in 1..1 + Len(q) :
             dup[j] = IF j <= 1 THEN <<Head(q)>>[j] ELSE q[j - 1]
    BY <2>1, <2>3, ConcatProperties
  <2>6. ASSUME NEW j \in 1..Len(dup)
        PROVE  \E k \in 1..Len(q) : dup[j] = q[k]
    BY <2>2, <2>5
  <2>7. ASSUME NEW k \in 1..Len(q)
        PROVE  \E j \in 1..Len(dup) : dup[j] = q[k]
    <3>1. k + 1 \in 1..1 + Len(q) /\ ~(k + 1 <= 1) /\ (k + 1) - 1 = k
      BY <2>2
    <3> QED BY <2>5, <3>1
  <2> HIDE DEF dup
  <2>8. Packets(dup) = Packets(q)
    <3>1. Packets(dup) \subseteq Packets(q)
      BY <2>6 DEF Packets
    <3>2. Packets(q) \subseteq Packets(dup)
      BY <2>7 DEF Packets
    <3> QED BY <3>1, <3>2
  <2>9. net'[l] = dup /\ \A k \in Link : k # l => net'[k] = net[k]
    BY <2>4 DEF IInv
  <2>10. \A k \in Link : Packets(net'[k]) = Packets(net[k])
    BY <2>8, <2>9 DEF q
  <2> QED BY <2>4, <2>10, MasterLinks
<1>8. ASSUME NEW d \in Device, HandleTimeout(d) \/ HandleTimeoutNoGoodData(d)
      PROVE  MasterInv'
  <2> PICK noGoodData \in BOOLEAN :
        Step(d, handleTimeout(d, srv[d], nextTimeline, noGoodData), net)
    BY <1>8 DEF HandleTimeout, HandleTimeoutNoGoodData
  <2> DEFINE res == handleTimeout(d, srv[d], nextTimeline, noGoodData)
  <2>1. ResultOK(d, res)
    BY <1>0, FreshTimeline, TimeoutOK DEF IInv
  <2>2. \A l \in Link : net[l] = <<>>
    BY <1>8 DEF HandleTimeout, HandleTimeoutNoGoodData, MayTimeOut
  <2>3. CASE srv[d].mSocket
    <3>1. TakesTurn(d, srv[d], res)
      BY <1>0, <2>3, FreshTimeline, TimeoutTakesTurn
    <3> HIDE DEF res
    <3>2. Step(d, res, net)
      BY DEF res
    <3> QED BY <2>1, <2>2, <2>3, <3>1, <3>2, MasterTimesOut
  <2>4. CASE ~srv[d].mSocket
    <3> DEFINE s == [srv[d] EXCEPT !.mCurTimeout = FALSE]
    <3>1. ~s.mSocket
      BY <1>0, <2>4 DEF Server
    <3>2. res = Quiet(d, s)
      BY <3>1 DEF handleTimeout
    <3> HIDE DEF res, s
    <3>3. Withdrawn(res.srv)
      BY <3>1, <3>2, QuietIs DEF Withdrawn, Serves, Asking
    <3>4. Step(d, res, net)
      BY DEF res
    <3> QED BY <2>1, <3>3, <3>4, StepWithdraws
  <2> QED BY <2>3, <2>4
<1>9. ASSUME NEW d \in Device, BindInterface(d)
      PROVE  MasterInv'
  BY <1>0, <1>9, BindInterfaceOK, BindInterfaceWithdraws, StepWithdraws
     DEF BindInterface, IInv
<1>10. ASSUME NEW d \in Device, LeaveNetwork(d)
       PROVE  MasterInv'
  BY <1>0, <1>10, FreshTimeline, LeaveNetworkOK, LeaveNetworkWithdraws,
     StepWithdraws DEF LeaveNetwork, IInv
<1>11. ASSUME NEW d \in Device, forceNetworklessMasterMode(d)
       PROVE  MasterInv'
  <2> DEFINE res == becomeMaster(d, srv[d], nextTimeline)
  <2>1. ~srv[d].mSocket /\ Step(d, res, net)
    BY <1>11 DEF forceNetworklessMasterMode
  <2>2. ResultOK(d, res)
    BY <1>0, <2>1, FreshTimeline, BecomeMaster DEF IInv, DeviceOK
  <2>3. ~res.srv.mSocket
    BY <1>0, <2>1, FreshTimeline, BecomesMaster DEF DeviceOK
  <2> HIDE DEF res
  <2> QED BY <2>1, <2>2, <2>3, StepWithdraws DEF Withdrawn, Serves, Asking
<1>12. ASSUME NEW d \in Device, BindFails(d)
       PROVE  MasterInv'
  <2> DEFINE s == bindFails(srv[d])
  <2>1. ~s.mSocket
    BY <1>0 DEF bindFails, Server
  <2>2. srv' = [srv EXCEPT ![d] = s] /\ UNCHANGED net
    BY <1>12 DEF BindFails
  <2> HIDE DEF s
  <2> QED BY <2>1, <2>2, Withdraws DEF Withdrawn, Serves, Asking
<1>13. ASSUME NEW d \in Device, Restart(d)
       PROVE  MasterInv'
  <2> DEFINE s == Fresh(srv[d].mMasterPriority)
  <2>1. ~s.mSocket
    BY DEF Fresh
  <2>2. srv' = [srv EXCEPT ![d] = s] /\ UNCHANGED net
    BY <1>13 DEF Restart
  <2> HIDE DEF s
  <2> QED BY <2>1, <2>2, Withdraws DEF Withdrawn, Serves, Asking
<1>14. ASSUME NEW d \in Device, setMasterElectionPriority(d)
       PROVE  MasterInv'
  <2> PICK prio \in Priority : srv' = [srv EXCEPT ![d].mMasterPriority = prio]
    BY <1>14 DEF setMasterElectionPriority
  <2> DEFINE s == [srv[d] EXCEPT !.mMasterPriority = prio]
  <2>1. (Serves(s) <=> Serves(srv[d])) /\ (Asking(s) <=> Asking(srv[d]))
    BY <1>0 DEF Server, Serves, Asking
  <2>3. srv' = [srv EXCEPT ![d] = s]
    BY DEF IInv
  <2> HIDE DEF s
  <2>4. \A e \in Device : srv'[e] = IF e = d THEN s ELSE srv[e]
    BY <2>3 DEF IInv
  <2>2. UNCHANGED net
    BY <1>14 DEF setMasterElectionPriority
  <2> QED BY <2>1, <2>2, <2>4, Undisturbed
<1>15. CASE UNCHANGED vars
  BY <1>15, MasterLinks DEF vars
<1> QED BY <1>1, <1>2, <1>3, <1>4, <1>5, <1>6, <1>7, <1>8, <1>9, <1>10, <1>11,
           <1>12, <1>13, <1>14, <1>15 DEF Next, HandlePacket

\* In a network of any size that delivers before the timeouts expire and loses
\* nothing but what overflows a queue or finds no socket, with the packets in any
\* order and delivered any number of times, there are never two masters, if a
\* device asks more than once before it serves (in the code 6 times in INITIAL
\* and 20 times in RONIN).
THEOREM OneMaster ==
  ASSUME Timely, "lose" \notin Fault, Patient
  PROVE  Spec => []SingleMaster
<1>1. IInv /\ MasterInv /\ [Next]_vars => MasterInv'
  BY MasterPreserved
<1>2. MasterInv => SingleMaster
  BY DEF MasterInv, OneServes, SingleMaster, Serves, Master, Networked
<1> QED BY <1>1, <1>2, MasterInit, Invariance, PTL DEF Spec

-----------------------------------------------------------------------------
(* The refinement: handlers *)

\* From state s a device goes on to state t: it forgets its timeline, follows
\* the one it has heard of, keeps its own, learns the time or creates the
\* timeline fresh.
Promised(s, t, fresh, heard) ==
  \/ t.mTimelineID = kInvalidTimelineID /\ ~isValid(t)
  \/ t.mTimelineID = heard /\ t.mTimelineID # s.mTimelineID /\ ~isValid(t)
  \/ t.mTimelineID = s.mTimelineID /\ (isValid(t) <=> isValid(s))
  \/ /\ t.mTimelineID = s.mTimelineID /\ t.mTimelineID # kInvalidTimelineID
     /\ isValid(t)
  \/ /\ s.mTimelineID = kInvalidTimelineID /\ t.mTimelineID = fresh
     /\ isValid(t)

\* What it sends names its own timeline or none.
Keeps(s, res, fresh, heard) ==
  /\ Promised(s, res.srv, fresh, heard)
  /\ res.pkt.timelineID \in {kInvalidTimelineID, res.srv.mTimelineID}

\* Two states that are the same to CommonTimeline.
Alike(s, t) ==
  /\ t.mTimelineID = s.mTimelineID
  /\ t.mCommonClock = s.mCommonClock

LEMMA AlikePromised ==
  ASSUME NEW s, NEW t, NEW u, NEW fresh, NEW heard
  PROVE  /\ Alike(s, t) => Promised(s, t, fresh, heard)
         /\ Alike(s, t) /\ Promised(t, u, fresh, heard) =>
              Promised(s, u, fresh, heard)
         /\ Promised(s, t, fresh, heard) /\ Alike(t, u) =>
              Promised(s, u, fresh, heard)
BY DEF Alike, Promised, isValid

LEMMA AlikeKeeps ==
  ASSUME NEW s, NEW t, Alike(s, t), NEW fresh, NEW heard, NEW res,
         Keeps(t, res, fresh, heard)
  PROVE  Keeps(s, res, fresh, heard)
BY AlikePromised DEF Keeps

\* Sending a packet, in a state t reached in the course of a handler, changes
\* nothing more.
LEMMA SendAfter ==
  ASSUME NEW d, NEW s, NEW t \in Server, NEW fresh, NEW heard,
         Promised(s, t, fresh, heard)
  PROVE  /\ Keeps(s, Quiet(d, t), fresh, heard)
         /\ Keeps(s, sendWhoIsMasterRequest(d, t), fresh, heard)
         /\ Keeps(s, sendSyncRequest(d, t), fresh, heard)
         /\ Keeps(s, sendMasterAnnouncement(d, t), fresh, heard)
<1>1. ASSUME NEW u, Alike(t, u) PROVE Promised(s, u, fresh, heard)
  BY <1>1, AlikePromised
<1>2. Keeps(s, Quiet(d, t), fresh, heard)
  BY DEF Keeps, Quiet, Result, NothingSent, MakePacket
<1>3. Keeps(s, sendWhoIsMasterRequest(d, t), fresh, heard)
  BY <1>1, <1>2
     DEF Keeps, Result, MakePacket, Alike, sendWhoIsMasterRequest, Server
<1>4. Keeps(s, sendSyncRequest(d, t), fresh, heard)
  BY <1>1 DEF Keeps, Result, MakePacket, Alike, sendSyncRequest, Server
<1>5. Keeps(s, sendMasterAnnouncement(d, t), fresh, heard)
  BY <1>1
     DEF Keeps, Quiet, Result, NothingSent, MakePacket, Alike,
         sendMasterAnnouncement, Server
<1> QED BY <1>2, <1>3, <1>4, <1>5

\* The same when t differs from s in nothing CommonTimeline sees.
LEMMA SendKeeps ==
  ASSUME NEW d, NEW s, NEW t \in Server, Alike(s, t), NEW fresh, NEW heard
  PROVE  /\ Keeps(s, Quiet(d, t), fresh, heard)
         /\ Keeps(s, sendWhoIsMasterRequest(d, t), fresh, heard)
         /\ Keeps(s, sendSyncRequest(d, t), fresh, heard)
         /\ Keeps(s, sendMasterAnnouncement(d, t), fresh, heard)
BY AlikePromised, SendAfter

-----------------------------------------------------------------------------
(* Transitions *)

LEMMA BecomeInitialKeeps ==
  ASSUME NEW d \in Device, NEW s, NEW t \in Server, NEW fresh, NEW heard
  PROVE  Keeps(s, becomeInitial(d, t), fresh, heard)
<1> DEFINE u == [resetSyncStats(resetPosition(t)) EXCEPT
       !.mState = "INITIAL",
       !.mCurTimeout = FALSE,
       !.mMasterEP = NoDevice,
       !.mTimelineID = kInvalidTimelineID,
       !.mClockSynced = FALSE,
       !.mInitial_WhoIsMasterRequestTimeouts = 0,
       !.mClient_MasterDeviceID = NoDevice,
       !.mClient_MasterDevicePriority = 0,
       !.mRonin_WhoIsMasterRequestTimeouts = 0]
<1>1. u \in Server
  BY Constants, States DEF Server, resetSyncStats, resetPosition
<1>2. Promised(s, u, fresh, heard)
  BY DEF Server, resetSyncStats, resetPosition, Promised, isValid
<1> HIDE DEF u
<1>3. becomeInitial(d, t) = sendWhoIsMasterRequest(d, u)
  BY DEF becomeInitial, u
<1> QED BY <1>1, <1>2, <1>3, SendAfter

LEMMA BecomeRoninKeeps ==
  ASSUME NEW d \in Device, NEW s \in Server, NEW fresh, NEW heard
  PROVE  Keeps(s, becomeRonin(d, s), fresh, heard)
<1> DEFINE lost == [s EXCEPT !.mMasterEP = NoDevice]
           u == [lost EXCEPT !.mState = "RONIN",
                             !.mRonin_WhoIsMasterRequestTimeouts = 0]
<1>1. lost \in Server /\ u \in Server /\ Alike(s, u)
  BY Constants, States DEF Server, Alike
<1>2. Keeps(s, becomeInitial(d, lost), fresh, heard)
  BY <1>1, BecomeInitialKeeps
<1>3. Keeps(s, sendWhoIsMasterRequest(d, u), fresh, heard)
  BY <1>1, SendKeeps
<1> QED BY <1>2, <1>3 DEF becomeRonin

LEMMA ChangeTimelineKeeps ==
  ASSUME NEW s \in Server, NEW fresh, NEW timeline \in TimelineID
  PROVE  /\ changeTimeline(s, timeline) \in Server
         /\ Promised(s, changeTimeline(s, timeline), fresh, timeline)
<1> DEFINE moved == [s EXCEPT !.mTimelineID = timeline]
           u == resetPosition(moved)
           v == notifyClockSyncLoss(u)
<1>1. u \in Server /\ u.mTimelineID = timeline /\ ~isValid(u)
  BY Constants DEF Server, resetPosition, isValid
<1> HIDE DEF u
<1>2. v \in Server /\ Alike(u, v)
  BY <1>1, Constants DEF Server, notifyClockSyncLoss, Alike
<1> HIDE DEF v
<1>3. CASE s.mTimelineID = timeline
  BY <1>3 DEF changeTimeline, Promised
<1>4. CASE s.mTimelineID # timeline
  <2>1. changeTimeline(s, timeline) = v
    BY <1>4 DEF changeTimeline, v, u
  <2>2. Promised(s, u, fresh, timeline)
    BY <1>1, <1>4 DEF Promised
  <2> QED BY <1>2, <2>1, <2>2, AlikePromised
<1> QED BY <1>3, <1>4

LEMMA BecomeClientKeeps ==
  ASSUME NEW d \in Device, NEW s \in Server, NEW p \in Packet, NEW fresh
  PROVE  Keeps(s, becomeClient(d, s, p), fresh, p.timelineID)
<1> DEFINE u == changeTimeline(s, p.timelineID)
           v == resetSyncStats(u)
           t == [v EXCEPT
                   !.mState = "CLIENT",
                   !.mMasterEP = p.deviceID,
                   !.mForceLowPriority = FALSE,
                   !.mClient_MasterDeviceID = p.deviceID,
                   !.mClient_MasterDevicePriority = p.devicePriority]
<1>1. /\ p.timelineID \in TimelineID
      /\ p.deviceID \in MasterID
      /\ p.devicePriority \in DevicePriority
  BY Constants DEF Packet
<1>2. u \in Server /\ Promised(s, u, fresh, p.timelineID)
  BY <1>1, ChangeTimelineKeeps
<1> HIDE DEF u
<1>3. v \in Server /\ Alike(u, v)
  BY <1>2, Constants DEF Server, resetSyncStats, Alike
<1> HIDE DEF v
<1>4. t \in Server /\ Alike(v, t)
  BY <1>1, <1>3, Constants, States DEF Server, Alike
<1> HIDE DEF t
<1>5. Promised(s, t, fresh, p.timelineID)
  BY <1>2, <1>3, <1>4, AlikePromised
<1>6. becomeClient(d, s, p) = sendSyncRequest(d, t)
  BY DEF becomeClient, t, v, u
<1> QED BY <1>4, <1>5, <1>6, SendAfter

LEMMA CreateTimelineKeeps ==
  ASSUME NEW s \in Server, NEW fresh \in TimelineID,
         fresh # kInvalidTimelineID, NEW heard
  PROVE  /\ createTimeline(s, fresh) \in Server
         /\ Promised(s, createTimeline(s, fresh), fresh, heard)
<1> DEFINE u == [s EXCEPT !.mCommonClock = fresh, !.mTimelineID = fresh]
           v == notifyClockSync(u)
<1>1. u \in Server /\ u.mTimelineID = fresh /\ isValid(u)
  BY DEF Server, isValid
<1> HIDE DEF u
<1>2. v \in Server /\ Alike(u, v)
  BY <1>1 DEF Server, notifyClockSync, Alike
<1> HIDE DEF v
<1>3. CASE s.mTimelineID # kInvalidTimelineID
  BY <1>3 DEF createTimeline, Promised
<1>4. CASE s.mTimelineID = kInvalidTimelineID
  <2>1. createTimeline(s, fresh) = v
    BY <1>4 DEF createTimeline, v, u
  <2>2. Promised(s, u, fresh, heard)
    BY <1>1, <1>4 DEF Promised
  <2> QED BY <1>2, <2>1, <2>2, AlikePromised
<1> QED BY <1>3, <1>4

LEMMA BecomeMasterKeeps ==
  ASSUME NEW d \in Device, NEW s, NEW before \in Server, Alike(s, before),
         NEW fresh \in TimelineID, fresh # kInvalidTimelineID, NEW heard
  PROVE  Keeps(s, becomeMaster(d, before, fresh), fresh, heard)
<1> DEFINE u == createTimeline(before, fresh)
           v == resetSyncStats(u)
           t == [v EXCEPT
                   !.mState = "MASTER",
                   !.mMasterEP = NoDevice,
                   !.mClient_MasterDeviceID = d,
                   !.mClient_MasterDevicePriority = effectivePriority(before)]
<1>1. u \in Server /\ Promised(before, u, fresh, heard)
  BY CreateTimelineKeeps
<1> HIDE DEF u
<1>2. v \in Server /\ Alike(u, v)
  BY <1>1, Constants DEF Server, resetSyncStats, Alike
<1> HIDE DEF v
<1>3. effectivePriority(before) \in DevicePriority
  BY EffectivePriority
<1>4. t \in Server /\ Alike(v, t)
  BY <1>2, <1>3, Constants, States DEF Server, Alike
<1> HIDE DEF t
<1>5. Promised(s, t, fresh, heard)
  <2>1. Promised(before, v, fresh, heard)
    BY <1>1, <1>2, AlikePromised
  <2>2. Promised(before, t, fresh, heard)
    BY <1>4, <2>1, AlikePromised
  <2> QED BY <2>2, AlikePromised
<1>6. becomeMaster(d, before, fresh) = sendMasterAnnouncement(d, t)
  BY DEF becomeMaster, t, v, u
<1> QED BY <1>4, <1>5, <1>6, SendAfter

-----------------------------------------------------------------------------
(* Timeouts *)

LEMMA TimeoutKeeps ==
  ASSUME NEW d \in Device, NEW before \in Server,
         NEW fresh \in TimelineID, fresh # kInvalidTimelineID,
         NEW noGoodData \in BOOLEAN, NEW heard
  PROVE  Keeps(before, handleTimeout(d, before, fresh, noGoodData), fresh,
               heard)
<1> DEFINE s == [before EXCEPT !.mCurTimeout = FALSE]
           n == s.mInitial_WhoIsMasterRequestTimeouts + 1
           asked == [s EXCEPT !.mInitial_WhoIsMasterRequestTimeouts = n]
           m == s.mRonin_WhoIsMasterRequestTimeouts + 1
           stood == [s EXCEPT !.mRonin_WhoIsMasterRequestTimeouts = m]
           k == s.mClient_SyncRequestTimeouts + 1
           failed == [s EXCEPT !.mClient_SyncRequestPending = FALSE,
                               !.mClient_SyncRequestTimeouts = k]
           res == handleTimeout(d, before, fresh, noGoodData)
<1>1. s \in Server /\ Alike(before, s)
  BY DEF Server, Alike
<1>2. \/ res = Quiet(d, s)
      \/ res = handleTimeoutInitial(d, s, fresh)
      \/ res = handleTimeoutClient(d, s, noGoodData)
      \/ res = sendMasterAnnouncement(d, s)
      \/ res = handleTimeoutRonin(d, s, fresh)
      \/ res = becomeRonin(d, s)
  <2>1. s.mSocket \in BOOLEAN /\ s.mState \in State
    BY <1>1 DEF Server
  <2> HIDE DEF s
  <2> QED BY <2>1 DEF handleTimeout, State, s
<1> HIDE DEF s
<1>3. /\ n \in Count /\ m \in Count /\ k \in Count
  BY <1>1, Constants DEF Server
<1> HIDE DEF n, m, k
<1>4. /\ asked \in Server /\ Alike(s, asked)
      /\ stood \in Server /\ Alike(s, stood)
      /\ failed \in Server /\ Alike(s, failed)
  BY <1>1, <1>3 DEF Server, Alike
<1>5. Keeps(s, handleTimeoutInitial(d, s, fresh), fresh, heard)
  <2>1. handleTimeoutInitial(d, s, fresh) \in
          {becomeMaster(d, asked, fresh), sendWhoIsMasterRequest(d, asked)}
    BY DEF handleTimeoutInitial, asked, n
  <2> QED BY <1>4, <2>1, BecomeMasterKeeps, SendKeeps
<1>6. Keeps(s, handleTimeoutRonin(d, s, fresh), fresh, heard)
  <2>1. handleTimeoutRonin(d, s, fresh) \in
          {becomeMaster(d, stood, fresh), sendWhoIsMasterRequest(d, stood)}
    BY DEF handleTimeoutRonin, stood, m
  <2> QED BY <1>4, <2>1, BecomeMasterKeeps, SendKeeps
<1>7. Keeps(s, handleTimeoutClient(d, s, noGoodData), fresh, heard)
  <2>1. s.mClient_SyncRequestPending \in BOOLEAN
    BY <1>1 DEF Server
  <2>2. handleTimeoutClient(d, s, noGoodData) \in
          {becomeInitial(d, s), sendSyncRequest(d, s),
           sendSyncRequest(d, failed), becomeRonin(d, failed)}
    <3> HIDE DEF failed
    <3> QED BY <2>1 DEF handleTimeoutClient, failed, k
  <2>3. Alike(s, s)
    BY DEF Alike
  <2>4. Keeps(s, becomeRonin(d, failed), fresh, heard)
    BY <1>4, BecomeRoninKeeps, AlikeKeeps
  <2>5. /\ Keeps(s, sendSyncRequest(d, s), fresh, heard)
        /\ Keeps(s, sendSyncRequest(d, failed), fresh, heard)
        /\ Keeps(s, becomeInitial(d, s), fresh, heard)
    BY <1>1, <1>4, <2>3, BecomeInitialKeeps, SendKeeps
  <2> HIDE DEF failed
  <2> QED BY <2>2, <2>4, <2>5
<1>8. /\ Keeps(s, Quiet(d, s), fresh, heard)
      /\ Keeps(s, sendMasterAnnouncement(d, s), fresh, heard)
      /\ Keeps(s, becomeRonin(d, s), fresh, heard)
  <2>1. Alike(s, s)
    BY DEF Alike
  <2> QED BY <1>1, <2>1, SendKeeps, BecomeRoninKeeps
<1> HIDE DEF res
<1>9. Keeps(s, res, fresh, heard)
  BY <1>2, <1>5, <1>6, <1>7, <1>8
<1> QED BY <1>1, <1>9, AlikeKeeps DEF res

-----------------------------------------------------------------------------
(* Packets *)

\* Of the packets only those of a master are taken to name a timeline.
LEMMA PacketKeeps ==
  ASSUME NEW d \in Device, NEW s \in Server, NEW p \in Packet, NEW fresh
  PROVE  /\ Keeps(s, handleWhoIsMasterResponse(d, s, p), fresh, p.timelineID)
         /\ Keeps(s, handleMasterAnnouncement(d, s, p), fresh, p.timelineID)
<1>1. Keeps(s, becomeClient(d, s, p), fresh, p.timelineID)
  BY BecomeClientKeeps
<1>2. Keeps(s, Quiet(d, s), fresh, p.timelineID)
  BY SendKeeps DEF Alike
<1> QED BY <1>1, <1>2
        DEF handleWhoIsMasterResponse, handleMasterAnnouncement

LEMMA WhoIsMasterRequestKeeps ==
  ASSUME NEW d \in Device, NEW s \in Server, NEW p \in Packet, NEW fresh,
         NEW heard
  PROVE  Keeps(s, handleWhoIsMasterRequest(d, s, p), fresh, heard)
<1> DEFINE res == handleWhoIsMasterRequest(d, s, p)
           response == MakePacket("WHO_IS_MASTER_RESPONSE", d, s.mTimelineID,
                                  effectivePriority(s), FALSE,
                                  kInvalidTimelineID, {p.deviceID})
           t == [s EXCEPT !.mInitial_WhoIsMasterRequestTimeouts = 0]
           u == [s EXCEPT !.mState = "WAIT_FOR_ELECTION", !.mCurTimeout = TRUE]
<1>1. res \in {Result(s, response), Quiet(d, u), Quiet(d, t), Quiet(d, s)}
  <2> HIDE DEF t, u, response
  <2> QED BY DEF handleWhoIsMasterRequest, becomeWaitForElection, t, u, response
<1> HIDE DEF res
<1>2. /\ t \in Server /\ Alike(s, t)
      /\ u \in Server /\ Alike(s, u) /\ Alike(s, s)
  BY Constants, States DEF Server, Alike
<1>3. Keeps(s, Result(s, response), fresh, heard)
  BY DEF Keeps, Promised, Result, MakePacket
<1> HIDE DEF t, u, response
<1>4. /\ Keeps(s, Quiet(d, u), fresh, heard) /\ Keeps(s, Quiet(d, t), fresh, heard)
      /\ Keeps(s, Quiet(d, s), fresh, heard)
  BY <1>2, SendKeeps
<1> QED BY <1>1, <1>3, <1>4 DEF res

LEMMA SyncRequestKeeps ==
  ASSUME NEW d \in Device, NEW s \in Server, NEW p \in Packet, NEW fresh,
         NEW heard
  PROVE  Keeps(s, handleSyncRequest(d, s, p), fresh, heard)
<1> DEFINE answer(nak, time) == MakePacket("SYNC_RESPONSE", d, s.mTimelineID,
                                           0, nak, time, {p.deviceID})
           high == [s EXCEPT !.mForceLowPriority = FALSE,
                             !.mClient_MasterDevicePriority =
                                s.mMasterPriority + 128]
           res == handleSyncRequest(d, s, p)
<1>1. s.mMasterPriority + 128 \in DevicePriority
  BY Constants DEF Server
<1>2. high \in Server /\ Alike(s, high)
  BY <1>1 DEF Server, Alike
<1>3. res \in {Result(s, answer(TRUE, kInvalidTimelineID)), Quiet(d, high),
               Result(high, answer(FALSE, s.mCommonClock))}
  <2> HIDE DEF high
  <2> QED BY DEF handleSyncRequest, high
<1> HIDE DEF res, high
<1>4. ASSUME NEW t, Alike(s, t), NEW nak, NEW time
      PROVE  Keeps(s, Result(t, answer(nak, time)), fresh, heard)
  BY <1>4, AlikePromised DEF Keeps, Result, MakePacket, Alike
<1>5. Alike(s, s)
  BY DEF Alike
<1>6. Keeps(s, Quiet(d, high), fresh, heard)
  BY <1>2, SendKeeps
<1> HIDE DEF answer
<1> QED BY <1>2, <1>3, <1>4, <1>5, <1>6 DEF res

\* A client takes the time only of a timeline it follows.
LEMMA SyncResponseKeeps ==
  ASSUME NEW d \in Device, NEW s, DeviceOK(d, s), NEW p \in Packet,
         NEW outcome \in {"good", "late", "no_good_data", "panic"},
         NEW best \in 1..kStartupFilterSize, NEW fresh, NEW heard
  PROVE  Keeps(s, handleSyncResponse(d, s, p, outcome, best), fresh, heard)
<1> DEFINE a == [s EXCEPT !.mClient_SyncRequestPending = FALSE,
                          !.mClient_SyncRequestTimeouts = 0,
                          !.gotSyncResp = TRUE,
                          !.mCurTimeout = TRUE]
           lost == notifyClockSyncLoss(a)
           pushed == pushDisciplineEvent(a, p.time, best)
           told == notifyClockSync(pushed)
           res == handleSyncResponse(d, s, p, outcome, best)
<1>0. s \in Server /\ Alike(s, s)
  BY DEF DeviceOK, Alike
<1>1. \/ res = Quiet(d, s)
      \/ /\ s.mState = "CLIENT"
         /\ \/ res = becomeRonin(d, s)
            \/ res = Quiet(d, a)
            \/ res = becomeInitial(d, a)
            \/ res = becomeInitial(d, lost)
            \/ res = Quiet(d, told)
  <2>1. p.nak \in BOOLEAN /\ s.gotSyncResp \in BOOLEAN
    BY <1>0 DEF Packet, Server
  <2> HIDE DEF a
  <2> QED BY <2>1 DEF handleSyncResponse, a
<1> HIDE DEF res
<1>2. a \in Server /\ Alike(s, a) /\ a.mState = s.mState
  BY <1>0, Constants DEF Server, Alike
<1>3. s.mState = "CLIENT" => DeviceOK(d, a) /\ a.mState = "CLIENT"
  BY <1>2, Constants DEF DeviceOK, Server, Role, Time, CanServe
<1> HIDE DEF a
<1>4. lost \in Server
  BY <1>2, Constants DEF Server, notifyClockSyncLoss
<1> HIDE DEF lost
<1>5. ASSUME s.mState = "CLIENT"
      PROVE  told \in Server /\ Promised(s, told, fresh, heard)
  <2>1. pushed \in Server
    BY <1>3, <1>5, PushDisciplineEvent DEF Packet, DeviceOK
  <2>2. pushed.mTimelineID = a.mTimelineID /\ a.mTimelineID # kInvalidTimelineID
    BY <1>2, <1>3, <1>5 DEF pushDisciplineEvent, Server, DeviceOK, Role
  <2>3. isValid(a) => pushed = a
    BY DEF pushDisciplineEvent
  <2> HIDE DEF pushed
  <2>4. Promised(a, pushed, fresh, heard)
    BY <2>2, <2>3 DEF Promised
  <2>5. told \in Server /\ Alike(pushed, told)
    BY <2>1 DEF notifyClockSync, Server, Alike
  <2> HIDE DEF told
  <2> QED BY <1>2, <2>4, <2>5, AlikePromised
<1> HIDE DEF told
<1>6. /\ Keeps(s, Quiet(d, s), fresh, heard)
      /\ Keeps(s, becomeRonin(d, s), fresh, heard)
      /\ Keeps(s, Quiet(d, a), fresh, heard)
      /\ Keeps(s, becomeInitial(d, a), fresh, heard)
      /\ Keeps(s, becomeInitial(d, lost), fresh, heard)
  BY <1>0, <1>2, <1>4, SendKeeps, BecomeRoninKeeps, BecomeInitialKeeps
<1>7. s.mState = "CLIENT" => Keeps(s, Quiet(d, told), fresh, heard)
  BY <1>5, SendAfter
<1> QED BY <1>1, <1>6, <1>7 DEF res

-----------------------------------------------------------------------------
(* The network interface *)

LEMMA BindInterfaceKeeps ==
  ASSUME NEW d \in Device, NEW before \in Server, NEW fresh, NEW heard
  PROVE  Keeps(before, bindInterface(d, before), fresh, heard)
<1> DEFINE prio == IF before.mState = "MASTER" THEN before.mMasterPriority
                   ELSE before.mClient_MasterDevicePriority
           s == [before EXCEPT !.mSocket = TRUE, !.mForceLowPriority = TRUE,
                               !.mClient_MasterDevicePriority = prio]
<1>1. prio \in DevicePriority
  BY DEF Server, ConfiguredPriority, DevicePriority
<1>2. bindInterface(d, before) \in {becomeInitial(d, s), becomeRonin(d, s)}
  BY DEF bindInterface
<1> HIDE DEF prio
<1>3. s \in Server /\ Alike(before, s)
  BY <1>1 DEF Server, Alike
<1> HIDE DEF s
<1>4. Keeps(before, becomeRonin(d, s), fresh, heard)
  BY <1>3, BecomeRoninKeeps, AlikeKeeps
<1> QED BY <1>2, <1>3, <1>4, BecomeInitialKeeps

LEMMA LeaveNetworkKeeps ==
  ASSUME NEW d \in Device, NEW before \in Server, NEW fresh \in TimelineID,
         fresh # kInvalidTimelineID, NEW heard
  PROVE  Keeps(before, leaveNetwork(d, before, fresh), fresh, heard)
<1> DEFINE s == [before EXCEPT !.mSocket = FALSE]
<1>1. s \in Server /\ Alike(before, s)
  BY DEF Server, Alike
<1>2. leaveNetwork(d, before, fresh) \in
        {Quiet(d, s), becomeInitial(d, s), becomeMaster(d, s, fresh)}
  <2> HIDE DEF s
  <2> QED BY DEF leaveNetwork, s
<1> HIDE DEF s
<1> QED BY <1>1, <1>2, SendKeeps, BecomeInitialKeeps, BecomeMasterKeeps

-----------------------------------------------------------------------------
(* The mapping *)

\* What Promise takes for the timelines and for who has a time.
Created == 1..(nextTimeline - 1)
Followed == [d \in Device |-> srv[d].mTimelineID]
HasTime == [d \in Device |-> srv[d].mCommonClock # kInvalidTimelineID]

LEMMA Mapping ==
  ASSUME IInv, NEW d \in Device, NEW s, srv' = [srv EXCEPT ![d] = s]
  PROVE  /\ Followed' = [Followed EXCEPT ![d] = s.mTimelineID]
         /\ HasTime' = [HasTime EXCEPT ![d] = isValid(s)]
<1>1. srv'[d] = s /\ \A e \in Device : e # d => srv'[e] = srv[e]
  BY DEF IInv
<1>2. Followed' = [Followed EXCEPT ![d] = s.mTimelineID]
  <2>1. ASSUME NEW e \in Device
        PROVE  Followed'[e] = [Followed EXCEPT ![d] = s.mTimelineID][e]
    BY <1>1 DEF Followed
  <2> QED BY <2>1 DEF Followed
<1>3. HasTime' = [HasTime EXCEPT ![d] = isValid(s)]
  BY <1>1, Zenon DEF HasTime, isValid
<1> QED BY <1>2, <1>3

\* The timelines known to anybody have been created.
TimelinesExist ==
  /\ \A d \in Device : srv[d].mTimelineID < nextTimeline
  /\ \A l \in Link : \A i \in 1..Len(net[l]) :
       net[l][i].timelineID < nextTimeline

\* A device that does what Promised says implements a step of CommonTimeline.
LEMMA PromisedImplements ==
  ASSUME IInv, TimelinesExist, NEW d \in Device, NEW s \in Server,
         NEW heard \in TimelineID, heard < nextTimeline,
         Promised(srv[d], s, nextTimeline, heard),
         s.mTimelineID = nextTimeline => s.mTimelineID <= MaxTimeline,
         srv' = [srv EXCEPT ![d] = s],
         nextTimeline' = IF s.mTimelineID = nextTimeline
                         THEN nextTimeline + 1 ELSE nextTimeline
  PROVE  [Promise!CNext]_(Promise!cvars)
<1>0. /\ nextTimeline \in Nat \ {0}
      /\ s.mTimelineID \in Nat
      /\ srv[d] \in Server /\ srv[d].mTimelineID \in Nat
      /\ srv[d].mTimelineID < nextTimeline
  BY DEF IInv, TimelinesExist, Server, TimelineID
<1>1. /\ Followed' = [Followed EXCEPT ![d] = s.mTimelineID]
      /\ HasTime' = [HasTime EXCEPT ![d] = isValid(s)]
  BY Mapping
<1>2. /\ Followed[d] = srv[d].mTimelineID
      /\ Followed \in [Device -> Nat]
  BY DEF Followed, IInv, Server, TimelineID
<1>3. HasTime[d] = isValid(srv[d])
  BY Zenon DEF HasTime, isValid
<1>4. ASSUME s.mTimelineID < nextTimeline
      PROVE  UNCHANGED Created
  BY <1>0, <1>4 DEF Created
<1>5. ~isValid(s) => isValid(s) = FALSE
  BY Zenon DEF isValid
<1>6. CASE s.mTimelineID = kInvalidTimelineID /\ ~isValid(s)
  <2>1. UNCHANGED Created
    BY <1>0, <1>4, <1>6 DEF kInvalidTimelineID
  <2>2. /\ Followed' = [Followed EXCEPT ![d] = kInvalidTimelineID]
        /\ HasTime' = [HasTime EXCEPT ![d] = FALSE]
    BY <1>1, <1>6, <1>5
  <2> QED BY <2>1, <2>2
          DEF Promise!CNext, Promise!Forget, Followed, HasTime, Created
<1>7. CASE /\ s.mTimelineID = heard /\ s.mTimelineID # srv[d].mTimelineID
           /\ ~isValid(s) /\ s.mTimelineID # kInvalidTimelineID
  <2>1. UNCHANGED Created
    BY <1>0, <1>4, <1>7
  <2>2. heard \in Created \ {Followed[d]}
    BY <1>0, <1>2, <1>7 DEF Created, kInvalidTimelineID
  <2>3. /\ Followed' = [Followed EXCEPT ![d] = heard]
        /\ HasTime' = [HasTime EXCEPT ![d] = FALSE]
    BY <1>1, <1>7, <1>5
  <2> QED BY <2>1, <2>2, <2>3
          DEF Promise!CNext, Promise!Adopt, Followed, HasTime, Created
<1>8. CASE /\ s.mTimelineID = srv[d].mTimelineID
           /\ isValid(s) <=> isValid(srv[d])
  <2>1. UNCHANGED Created
    BY <1>0, <1>4, <1>8
  <2>2. Followed' = Followed
    BY <1>1, <1>2, <1>8
  <2>3. HasTime' = HasTime
    <3>1. ASSUME NEW e \in Device
          PROVE  (srv'[e].mCommonClock # kInvalidTimelineID)
                   <=> (srv[e].mCommonClock # kInvalidTimelineID)
      BY <1>8 DEF isValid, IInv
    <3>2. ASSUME NEW e \in Device
          PROVE  (srv'[e].mCommonClock # kInvalidTimelineID)
                   = (srv[e].mCommonClock # kInvalidTimelineID)
      BY <3>1, Zenon
    <3> QED BY <3>2, Zenon DEF HasTime
  <2> QED BY <2>1, <2>2, <2>3 DEF Promise!cvars, Followed, HasTime, Created
<1>9. CASE /\ s.mTimelineID = srv[d].mTimelineID
           /\ s.mTimelineID # kInvalidTimelineID /\ isValid(s)
  <2>1. UNCHANGED Created
    BY <1>0, <1>4, <1>9
  <2>2. Followed' = Followed /\ Followed[d] # kInvalidTimelineID
    BY <1>1, <1>2, <1>9
  <2>3. HasTime' = [HasTime EXCEPT ![d] = TRUE]
    BY <1>1, <1>9
  <2> QED BY <2>1, <2>2, <2>3
          DEF Promise!CNext, Promise!Learn, Followed, HasTime, Created
<1>10. CASE /\ srv[d].mTimelineID = kInvalidTimelineID
           /\ s.mTimelineID = nextTimeline /\ isValid(s)
  <2>1. nextTimeline' = nextTimeline + 1
    BY <1>10
  <2>2. Created' = Created \cup {nextTimeline} /\ nextTimeline \notin Created
    BY <1>0, <2>1 DEF Created
  <2>3. nextTimeline \in 1..MaxTimeline
    BY <1>0, <1>10, BoundAssumption
  <2>4. Followed' = [Followed EXCEPT ![d] = nextTimeline]
        /\ Followed[d] = kInvalidTimelineID
    BY <1>1, <1>2, <1>10
  <2>5. HasTime' = [HasTime EXCEPT ![d] = TRUE]
    BY <1>1, <1>10
  <2> QED BY <2>2, <2>3, <2>4, <2>5
          DEF Promise!CNext, Promise!Create, Followed, HasTime, Created
<1> QED BY <1>6, <1>7, <1>8, <1>9, <1>10 DEF Promised

-----------------------------------------------------------------------------
(* The network *)

\* The packets of all links name timelines that exist.
Existing(links) ==
  \A l \in Link : \A i \in 1..Len(links[l]) :
    links[l][i].timelineID < nextTimeline

\* A device takes the result of one of its handlers.
LEMMA StepImplements ==
  ASSUME IInv, TimelinesExist, NEW d \in Device, NEW res, ResultOK(d, res),
         NEW heard \in TimelineID, heard < nextTimeline,
         Keeps(srv[d], res, nextTimeline, heard),
         NEW links \in [Link -> Seq(Packet)], Existing(links),
         Step(d, res, links)
  PROVE  TimelinesExist' /\ [Promise!CNext]_(Promise!cvars)
<1> DEFINE s == res.srv
           p == res.pkt
<1>1. /\ s \in Server /\ p \in Packet
      /\ Promised(srv[d], s, nextTimeline, heard)
      /\ p.timelineID \in {kInvalidTimelineID, s.mTimelineID}
  BY DEF ResultOK, DeviceOK, SentOK, Keeps
<1>2. /\ s.mTimelineID <= MaxTimeline
      /\ srv' = [srv EXCEPT ![d] = s]
      /\ net' = Transmit(links, d, p)
      /\ nextTimeline' = IF s.mTimelineID = nextTimeline
                         THEN nextTimeline + 1 ELSE nextTimeline
  BY DEF Step
<1> HIDE DEF s, p
<1>3. [Promise!CNext]_(Promise!cvars)
  BY <1>1, <1>2, PromisedImplements
<1>4. /\ nextTimeline \in Nat \ {0} /\ nextTimeline' \in Nat
      /\ nextTimeline <= nextTimeline'
      /\ s.mTimelineID \in Nat /\ s.mTimelineID < nextTimeline'
      /\ p.timelineID \in Nat /\ p.timelineID < nextTimeline'
  <2>1. nextTimeline \in Nat \ {0} /\ srv[d].mTimelineID \in Nat
        /\ srv[d].mTimelineID < nextTimeline /\ s.mTimelineID \in Nat
        /\ heard \in Nat
    BY <1>1 DEF IInv, TimelinesExist, Server, TimelineID
  <2>2. s.mTimelineID \in
          {kInvalidTimelineID, heard, srv[d].mTimelineID, nextTimeline}
    BY <1>1 DEF Promised
  <2> QED BY <1>1, <1>2, <2>1, <2>2 DEF kInvalidTimelineID
<1>5. ASSUME NEW e \in Device PROVE srv'[e].mTimelineID < nextTimeline'
  <2>1. srv[e].mTimelineID \in Nat /\ srv[e].mTimelineID < nextTimeline
    BY DEF IInv, TimelinesExist, Server, TimelineID
  <2>2. srv'[e] = IF e = d THEN s ELSE srv[e]
    BY <1>2 DEF IInv
  <2> QED BY <1>4, <2>1, <2>2
<1>6. ASSUME NEW l \in Link, NEW i \in 1..Len(net'[l])
      PROVE  net'[l][i].timelineID < nextTimeline'
  <2>1. links[l] \in Seq(Packet) /\ net'[l] \in {links[l], Append(links[l], p)}
    BY <1>2 DEF Transmit
  <2>2. /\ Len(Append(links[l], p)) = Len(links[l]) + 1
        /\ \A j \in 1..Len(links[l]) : Append(links[l], p)[j] = links[l][j]
        /\ Append(links[l], p)[Len(links[l]) + 1] = p
        /\ Len(links[l]) \in Nat
        /\ \A j \in 1..Len(links[l]) : links[l][j] \in Packet
    BY <1>1, <2>1, AppendProperties, ElementOfSeq
  <2>3. \/ i \in 1..Len(links[l]) /\ net'[l][i] = links[l][i]
        \/ net'[l][i] = p
    <3>1. CASE net'[l] = links[l]
      BY <3>1
    <3>2. CASE net'[l] = Append(links[l], p)
      <4>1. i \in 1..Len(links[l]) \/ i = Len(links[l]) + 1
        BY <2>2, <3>2
      <4> QED BY <2>2, <3>2, <4>1
    <3> QED BY <2>1, <3>1, <3>2
  <2>4. CASE i \in 1..Len(links[l]) /\ net'[l][i] = links[l][i]
    <3>1. links[l][i].timelineID \in Nat
      BY <2>2, <2>4 DEF Packet, TimelineID
    <3> QED BY <1>4, <2>4, <3>1 DEF Existing
  <2> QED BY <1>4, <2>3, <2>4
<1> QED BY <1>3, <1>5, <1>6 DEF TimelinesExist

\* Only the state of one device changes, and its timeline at most to none.
LEMMA LocalImplements ==
  ASSUME IInv, TimelinesExist, NEW d \in Device, NEW s \in Server,
         \/ Alike(srv[d], s)
         \/ s.mTimelineID = kInvalidTimelineID /\ ~isValid(s),
         srv' = [srv EXCEPT ![d] = s], UNCHANGED <<net, nextTimeline>>
  PROVE  TimelinesExist' /\ [Promise!CNext]_(Promise!cvars)
<1>1. /\ nextTimeline \in Nat \ {0}
      /\ s.mTimelineID \in {kInvalidTimelineID, srv[d].mTimelineID}
      /\ s.mTimelineID \in Nat
      /\ srv[d].mTimelineID < nextTimeline
  BY DEF IInv, TimelinesExist, Alike, Server, TimelineID
<1>2. s.mTimelineID < nextTimeline /\ s.mTimelineID # nextTimeline
  BY <1>1 DEF kInvalidTimelineID
<1>3. Promised(srv[d], s, nextTimeline, kInvalidTimelineID)
  BY DEF Promised, Alike, isValid
<1>4. kInvalidTimelineID \in TimelineID /\ kInvalidTimelineID < nextTimeline
  BY <1>1 DEF kInvalidTimelineID, TimelineID
<1>5. [Promise!CNext]_(Promise!cvars)
  BY <1>2, <1>3, <1>4, PromisedImplements
<1>6. \A e \in Device : srv'[e].mTimelineID < nextTimeline'
  BY <1>2 DEF IInv, TimelinesExist
<1> QED BY <1>5, <1>6 DEF TimelinesExist

\* Only the packets of a link change, and no new one is among them.
LEMMA LinkImplements ==
  ASSUME IInv, TimelinesExist, NEW l \in Link, NEW q,
         \A i \in 1..Len(q) : \E k \in 1..Len(net[l]) : q[i] = net[l][k],
         net' = [net EXCEPT ![l] = q], UNCHANGED <<srv, nextTimeline>>
  PROVE  TimelinesExist' /\ [Promise!CNext]_(Promise!cvars)
<1>1. TimelinesExist'
  BY DEF TimelinesExist, IInv
<1> QED BY <1>1 DEF Promise!cvars

\* The packets left when one is taken, and what that one may be.
LEMMA ConsumeExisting ==
  ASSUME IInv, TimelinesExist, NEW l \in Link, NEW i \in 1..Len(net[l])
  PROVE  /\ Existing(Consume(l, i))
         /\ Consume(l, i) \in [Link -> Seq(Packet)]
         /\ net[l][i] \in Packet
         /\ net[l][i].timelineID \in TimelineID
         /\ net[l][i].timelineID < nextTimeline
<1>1. \A j \in 1..Len(Without(net[l], i)) :
        \E k \in 1..Len(net[l]) : Without(net[l], i)[j] = net[l][k]
  BY WithoutOK DEF IInv
<1>2. Consume(l, i) \in [Link -> Seq(Packet)]
  BY ConsumeOK
<1>3. Existing(Consume(l, i))
  BY <1>1 DEF Existing, Consume, TimelinesExist, IInv
<1>4. net[l][i] \in Packet
  BY DEF IInv
<1> QED BY <1>2, <1>3, <1>4 DEF TimelinesExist, Packet

\* A device handles the packet that arrives, number i of link l.
LEMMA HandleImplements ==
  ASSUME IInv, TimelinesExist, NEW l \in Link, NEW i \in 1..Len(net[l]),
         NEW res, ResultOK(l[2], res),
         Keeps(srv[l[2]], res, nextTimeline, net[l][i].timelineID),
         Step(l[2], res, Consume(l, i))
  PROVE  TimelinesExist' /\ [Promise!CNext]_(Promise!cvars)
<1>1. l[2] \in Device
  BY DEF Link
<1> QED BY <1>1, ConsumeExisting, StepImplements

\* A handler that takes no packet.
LEMMA SpontaneousImplements ==
  ASSUME IInv, TimelinesExist, NEW d \in Device, NEW res, ResultOK(d, res),
         Keeps(srv[d], res, nextTimeline, kInvalidTimelineID),
         Step(d, res, net)
  PROVE  TimelinesExist' /\ [Promise!CNext]_(Promise!cvars)
<1>1. /\ kInvalidTimelineID \in TimelineID
      /\ kInvalidTimelineID < nextTimeline
  BY DEF kInvalidTimelineID, TimelineID, IInv
<1>2. Existing(net) /\ net \in [Link -> Seq(Packet)]
  BY DEF Existing, TimelinesExist, IInv
<1> QED BY <1>1, <1>2, StepImplements

-----------------------------------------------------------------------------
(* The refinement: theorem *)

LEMMA InitImplements == Init => TimelinesExist /\ Promise!CInit
<1> SUFFICES ASSUME Init PROVE TimelinesExist /\ Promise!CInit
  OBVIOUS
<1>1. /\ nextTimeline = 1
      /\ \A d \in Device : srv[d].mTimelineID = kInvalidTimelineID
                           /\ srv[d].mCommonClock = kInvalidTimelineID
  BY DEF Init, Fresh
<1>2. TimelinesExist
  BY <1>1 DEF Init, TimelinesExist, kInvalidTimelineID
<1>3. Created = {} /\ Followed = [d \in Device |-> kInvalidTimelineID]
  BY <1>1 DEF Created, Followed
<1>4. HasTime = [d \in Device |-> FALSE]
  <2>1. \A d \in Device : (srv[d].mCommonClock # kInvalidTimelineID) = FALSE
    BY <1>1, Zenon
  <2> QED BY <2>1, Zenon DEF HasTime
<1> QED BY <1>2, <1>3, <1>4
        DEF Promise!CInit, Created, Followed, HasTime

LEMMA StepRefines ==
  IInv /\ TimelinesExist /\ [Next]_vars
    => TimelinesExist' /\ [Promise!CNext]_(Promise!cvars)
<1> SUFFICES ASSUME IInv, TimelinesExist, [Next]_vars
             PROVE  TimelinesExist' /\ [Promise!CNext]_(Promise!cvars)
  OBVIOUS
<1> DEFINE Goal == TimelinesExist' /\ [Promise!CNext]_(Promise!cvars)
<1>0. /\ \A d \in Device : srv[d] \in Server /\ DeviceOK(d, srv[d])
      /\ nextTimeline \in TimelineID /\ nextTimeline # kInvalidTimelineID
  BY FreshTimeline DEF IInv
<1>1. ASSUME NEW l \in Link, HandleWhoIsMasterRequest(l)
      PROVE  Goal
  <2> PICK i \in Arriving(l, "WHO_IS_MASTER_REQUEST") :
        Step(l[2], handleWhoIsMasterRequest(l[2], srv[l[2]], net[l][i]), Consume(l, i))
    BY <1>1 DEF HandleWhoIsMasterRequest
  <2>1. ResultOK(l[2], handleWhoIsMasterRequest(l[2], srv[l[2]], net[l][i]))
    BY Arrival, WhoIsMasterRequestOK
  <2>2. Keeps(srv[l[2]], handleWhoIsMasterRequest(l[2], srv[l[2]], net[l][i]),
              nextTimeline, net[l][i].timelineID)
    BY <1>0, Arrival, WhoIsMasterRequestKeeps
  <2> QED BY <2>1, <2>2, Arrival, HandleImplements
<1>2. ASSUME NEW l \in Link, HandleWhoIsMasterResponse(l)
      PROVE  Goal
  <2> PICK i \in Arriving(l, "WHO_IS_MASTER_RESPONSE") :
        Step(l[2], handleWhoIsMasterResponse(l[2], srv[l[2]], net[l][i]), Consume(l, i))
    BY <1>2 DEF HandleWhoIsMasterResponse
  <2>1. ResultOK(l[2], handleWhoIsMasterResponse(l[2], srv[l[2]], net[l][i]))
    BY Arrival, WhoIsMasterResponseOK
  <2>2. Keeps(srv[l[2]], handleWhoIsMasterResponse(l[2], srv[l[2]], net[l][i]),
              nextTimeline, net[l][i].timelineID)
    BY <1>0, Arrival, PacketKeeps
  <2> QED BY <2>1, <2>2, Arrival, HandleImplements
<1>3. ASSUME NEW l \in Link, HandleMasterAnnouncement(l)
      PROVE  Goal
  <2> PICK i \in Arriving(l, "MASTER_ANNOUNCEMENT") :
        Step(l[2], handleMasterAnnouncement(l[2], srv[l[2]], net[l][i]), Consume(l, i))
    BY <1>3 DEF HandleMasterAnnouncement
  <2>1. ResultOK(l[2], handleMasterAnnouncement(l[2], srv[l[2]], net[l][i]))
    BY Arrival, MasterAnnouncementOK
  <2>2. Keeps(srv[l[2]], handleMasterAnnouncement(l[2], srv[l[2]], net[l][i]),
              nextTimeline, net[l][i].timelineID)
    BY <1>0, Arrival, PacketKeeps
  <2> QED BY <2>1, <2>2, Arrival, HandleImplements
<1>4. ASSUME NEW l \in Link, HandleSyncRequest(l)
      PROVE  Goal
  <2> PICK i \in Arriving(l, "SYNC_REQUEST") :
        Step(l[2], handleSyncRequest(l[2], srv[l[2]], net[l][i]), Consume(l, i))
    BY <1>4 DEF HandleSyncRequest
  <2>1. ResultOK(l[2], handleSyncRequest(l[2], srv[l[2]], net[l][i]))
    BY Arrival, SyncRequestOK
  <2>2. Keeps(srv[l[2]], handleSyncRequest(l[2], srv[l[2]], net[l][i]),
              nextTimeline, net[l][i].timelineID)
    BY <1>0, Arrival, SyncRequestKeeps
  <2> QED BY <2>1, <2>2, Arrival, HandleImplements
<1>5. ASSUME NEW l \in Link, HandleSyncResponse(l) \/ HandleBadSyncResponse(l)
      PROVE  Goal
  <2>1. 1 \in 1..kStartupFilterSize
    BY RetryAssumption
  <2> PICK i \in Arriving(l, "SYNC_RESPONSE"), best \in 1..kStartupFilterSize,
           outcome \in {"good", "late", "no_good_data", "panic"} :
        Step(l[2], handleSyncResponse(l[2], srv[l[2]], net[l][i], outcome, best),
             Consume(l, i))
    BY <1>5, <2>1 DEF HandleSyncResponse, HandleBadSyncResponse
  <2> DEFINE res == handleSyncResponse(l[2], srv[l[2]], net[l][i], outcome, best)
  <2>2. ResultOK(l[2], res)
    BY Arrival, SyncResponseOK
  <2>3. Keeps(srv[l[2]], res, nextTimeline, net[l][i].timelineID)
    BY <1>0, Arrival, SyncResponseKeeps
  <2> HIDE DEF res
  <2>4. Step(l[2], res, Consume(l, i))
    BY DEF res
  <2> QED BY <2>2, <2>3, <2>4, Arrival, HandleImplements
<1>6. ASSUME NEW l \in Link, Lose(l)
      PROVE  Goal
  <2>1. net[l] # <<>> /\ net[l] \in Seq(Packet)
    BY <1>6 DEF Lose, IInv
  <2>2. \A i \in 1..Len(Tail(net[l])) :
          i + 1 \in 1..Len(net[l]) /\ Tail(net[l])[i] = net[l][i + 1]
    BY <2>1, HeadTailProperties
  <2>3. /\ net' = [net EXCEPT ![l] = Tail(net[l])]
        /\ UNCHANGED <<srv, nextTimeline>>
    BY <1>6 DEF Lose
  <2> QED BY <2>2, <2>3, LinkImplements
<1>7. ASSUME NEW l \in Link, Duplicate(l)
      PROVE  Goal
  <2> DEFINE q == net[l]
             dup == <<Head(q)>> \o q
  <2>1. q # <<>> /\ q \in Seq(Packet)
    BY <1>7 DEF Duplicate, IInv
  <2>2. Len(q) \in Nat \ {0} /\ Head(q) = q[1] /\ Head(q) \in Packet
    BY <2>1, EmptySeq, HeadTailProperties
  <2>3. <<Head(q)>> \in Seq(Packet) /\ Len(<<Head(q)>>) = 1
    BY <2>2
  <2> HIDE DEF q
  <2>4. /\ Len(dup) = 1 + Len(q)
        /\ \A j \in 1..1 + Len(q) :
             dup[j] = IF j <= 1 THEN <<Head(q)>>[j] ELSE q[j - 1]
    BY <2>1, <2>3, ConcatProperties
  <2>5. \A j \in 1..Len(dup) : \E k \in 1..Len(q) : dup[j] = q[k]
    BY <2>2, <2>4
  <2>6. net' = [net EXCEPT ![l] = dup] /\ UNCHANGED <<srv, nextTimeline>>
    BY <1>7 DEF Duplicate, q
  <2> HIDE DEF dup
  <2> QED BY <2>5, <2>6, LinkImplements DEF q
<1>8. ASSUME NEW d \in Device, HandleTimeout(d) \/ HandleTimeoutNoGoodData(d)
      PROVE  Goal
  <2> PICK noGoodData \in BOOLEAN :
        Step(d, handleTimeout(d, srv[d], nextTimeline, noGoodData), net)
    BY <1>8 DEF HandleTimeout, HandleTimeoutNoGoodData
  <2>1. ResultOK(d, handleTimeout(d, srv[d], nextTimeline, noGoodData))
    BY <1>0, TimeoutOK
  <2>2. Keeps(srv[d], handleTimeout(d, srv[d], nextTimeline, noGoodData),
              nextTimeline, kInvalidTimelineID)
    BY <1>0, TimeoutKeeps
  <2> QED BY <2>1, <2>2, SpontaneousImplements
<1>9. ASSUME NEW d \in Device, BindInterface(d)
      PROVE  Goal
  <2>1. ResultOK(d, bindInterface(d, srv[d]))
    BY BindInterfaceOK DEF IInv
  <2>2. Keeps(srv[d], bindInterface(d, srv[d]), nextTimeline,
              kInvalidTimelineID)
    BY <1>0, BindInterfaceKeeps
  <2> QED BY <1>9, <2>1, <2>2, SpontaneousImplements DEF BindInterface
<1>10. ASSUME NEW d \in Device, LeaveNetwork(d)
       PROVE  Goal
  <2>1. ResultOK(d, leaveNetwork(d, srv[d], nextTimeline))
    BY <1>0, LeaveNetworkOK DEF IInv
  <2>2. Keeps(srv[d], leaveNetwork(d, srv[d], nextTimeline), nextTimeline,
              kInvalidTimelineID)
    BY <1>0, LeaveNetworkKeeps
  <2> QED BY <1>10, <2>1, <2>2, SpontaneousImplements DEF LeaveNetwork
<1>11. ASSUME NEW d \in Device, forceNetworklessMasterMode(d)
       PROVE  Goal
  <2>1. ResultOK(d, becomeMaster(d, srv[d], nextTimeline))
    BY <1>0, <1>11, BecomeMaster DEF forceNetworklessMasterMode, DeviceOK
  <2>2. Keeps(srv[d], becomeMaster(d, srv[d], nextTimeline), nextTimeline,
              kInvalidTimelineID)
    BY <1>0, BecomeMasterKeeps DEF Alike
  <2> QED BY <1>11, <2>1, <2>2, SpontaneousImplements
          DEF forceNetworklessMasterMode
<1>12. ASSUME NEW d \in Device, BindFails(d)
       PROVE  Goal
  <2>1. bindFails(srv[d]) \in Server /\ Alike(srv[d], bindFails(srv[d]))
    BY <1>0 DEF bindFails, Server, Alike
  <2>2. /\ srv' = [srv EXCEPT ![d] = bindFails(srv[d])]
        /\ UNCHANGED <<net, nextTimeline>>
    BY <1>12 DEF BindFails
  <2> QED BY <2>1, <2>2, LocalImplements
<1>13. ASSUME NEW d \in Device, setMasterElectionPriority(d)
       PROVE  Goal
  <2> PICK prio \in Priority : srv' = [srv EXCEPT ![d].mMasterPriority = prio]
    BY <1>13 DEF setMasterElectionPriority
  <2> DEFINE s == [srv[d] EXCEPT !.mMasterPriority = prio]
  <2>1. prio \in ConfiguredPriority
    BY PriorityAssumption DEF ConfiguredPriority
  <2>2. s \in Server /\ Alike(srv[d], s)
    BY <1>0, <2>1 DEF Server, Alike
  <2>3. srv' = [srv EXCEPT ![d] = s]
    BY DEF IInv
  <2> HIDE DEF s
  <2>4. UNCHANGED <<net, nextTimeline>>
    BY <1>13 DEF setMasterElectionPriority
  <2> QED BY <2>2, <2>3, <2>4, LocalImplements
<1>14. ASSUME NEW d \in Device, Restart(d)
       PROVE  Goal
  <2> DEFINE s == Fresh(srv[d].mMasterPriority)
  <2>1. srv[d].mMasterPriority \in ConfiguredPriority
    BY <1>0 DEF Server
  <2>2. s \in Server
    BY <2>1, FreshOK DEF DeviceOK
  <2>3. s.mTimelineID = kInvalidTimelineID /\ ~isValid(s)
    BY DEF Fresh, isValid
  <2> HIDE DEF s
  <2>4. srv' = [srv EXCEPT ![d] = s] /\ UNCHANGED <<net, nextTimeline>>
    BY <1>14 DEF Restart, s
  <2> QED BY <2>2, <2>3, <2>4, LocalImplements
<1>15. CASE UNCHANGED vars
  <2>1. UNCHANGED <<Created, Followed, HasTime>>
    BY <1>15 DEF vars, Created, Followed, HasTime
  <2>2. TimelinesExist'
    BY <1>15 DEF vars, TimelinesExist
  <2> QED BY <2>1, <2>2 DEF Promise!cvars, Created, Followed, HasTime
<1>16. CASE \E l \in Link :
              HandlePacket(l) \/ HandleBadSyncResponse(l) \/ Lose(l)
              \/ Duplicate(l)
  <2> PICK l \in Link : HandlePacket(l) \/ HandleBadSyncResponse(l) \/ Lose(l)
                        \/ Duplicate(l)
    BY <1>16
  <2> QED BY <1>1, <1>2, <1>3, <1>4, <1>5, <1>6, <1>7 DEF HandlePacket
<1>17. CASE \E d \in Device :
              \/ HandleTimeout(d) \/ HandleTimeoutNoGoodData(d)
              \/ BindInterface(d) \/ BindFails(d) \/ LeaveNetwork(d)
              \/ forceNetworklessMasterMode(d)
              \/ setMasterElectionPriority(d) \/ Restart(d)
  BY <1>8, <1>9, <1>10, <1>11, <1>12, <1>13, <1>14, <1>17
<1> QED BY <1>15, <1>16, <1>17 DEF Next

\* Whatever is lost, delayed or duplicated, and whoever is elected, in a
\* network of any size: the time a device tells survives an election and a
\* networkless spell and never a change of timeline, nobody follows a timeline
\* that has not been created, and only its creator knows its time at once.
THEOREM Refinement == Spec => ImplementsCommonTimeline
<1> DEFINE RInv == IInv /\ TimelinesExist
<1>1. Init => RInv /\ Promise!CInit
  BY InitOK, InitImplements
<1>2. RInv /\ [Next]_vars => RInv' /\ [Promise!CNext]_(Promise!cvars)
  BY StepPreserves, StepRefines
<1> HIDE DEF RInv
<1> QED BY <1>1, <1>2, PTL DEF Spec, ImplementsCommonTimeline
=============================================================================
