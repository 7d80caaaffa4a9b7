CONSTANTS
  Device = {1, 2}
  Priority = {1}
  kInitial_NumWhoIsMasterRetries = 1
  kRonin_NumWhoIsMasterRetries = 1
  kClient_NumSyncRequestRetries = 2
  kStartupFilterSize = 1
  Reorder = FALSE
  Timely = FALSE
  Fault = {"bind", "bind_fails", "leave", "force", "restart", "priority",
           "lose", "duplicate", "late", "no_good_data", "panic"}
  MaxFault = 4
  MaxTimeline = 2
  MaxQueue = 1
SPECIFICATION Spec
INVARIANT TypeOK
INVARIANT TimeFitsRole
INVARIANT RoleIsConsistent
INVARIANT ListenersKnowTimeline
INVARIANT NeverSleepsForEver
PROPERTY ImplementsCommonTimeline
CHECK_DEADLOCK FALSE
