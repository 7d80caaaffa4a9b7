--------------------------- MODULE CommonTimeline ---------------------------
(***************************************************************************)
(* What the time-synchronisation service promises, whatever packets are    *)
(* lost, reordered or late and whichever device is elected: every device   *)
(* follows at most one timeline; it moves to another one only if somebody  *)
(* has created it, and then it has no valid time until it has learnt that  *)
(* timeline's; only the creator of a new timeline knows its time at once.  *)
(***************************************************************************)

CONSTANTS
  Device,
  Timeline,    \* the timelines that may be created
  NoTimeline   \* what a device follows that follows none

VARIABLES
  created,     \* the timelines ever created
  timeline,    \* timeline[d]: the timeline that device d follows
  valid        \* valid[d]: has d a time to tell?

cvars == <<created, timeline, valid>>

CInit ==
  /\ created = {}
  /\ timeline = [d \in Device |-> NoTimeline]
  /\ valid = [d \in Device |-> FALSE]

\* d forgets everything: it starts over, or its process dies.
Forget(d) ==
  /\ timeline' = [timeline EXCEPT ![d] = NoTimeline]
  /\ valid' = [valid EXCEPT ![d] = FALSE]
  /\ UNCHANGED created

\* d starts to follow a timeline that another device is following or once was.
Adopt(d) ==
  /\ \E t \in created \ {timeline[d]} : timeline' = [timeline EXCEPT ![d] = t]
  /\ valid' = [valid EXCEPT ![d] = FALSE]
  /\ UNCHANGED created

\* d learns what time it is on the timeline it follows.
Learn(d) ==
  /\ timeline[d] # NoTimeline
  /\ valid' = [valid EXCEPT ![d] = TRUE]
  /\ UNCHANGED <<created, timeline>>

\* d, which followed no timeline, creates one that nobody has heard of.
Create(d, t) ==
  /\ timeline[d] = NoTimeline
  /\ t \notin created
  /\ created' = created \cup {t}
  /\ timeline' = [timeline EXCEPT ![d] = t]
  /\ valid' = [valid EXCEPT ![d] = TRUE]

CNext == \E d \in Device :
  Forget(d) \/ Adopt(d) \/ Learn(d) \/ \E t \in Timeline : Create(d, t)

CSpec == CInit /\ [][CNext]_cvars
=============================================================================
