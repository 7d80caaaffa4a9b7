CONSTANTS
  Device = {1, 2}
  Priority = {1, 2}
  kInitial_NumWhoIsMasterRetries = 2
  kRonin_NumWhoIsMasterRetries = 2
  kClient_NumSyncRequestRetries = 2
  kStartupFilterSize = 2
  Reorder = FALSE
  Timely = TRUE
  Fault = {"bind", "bind_fails", "leave", "force", "restart", "priority",
           "lose", "duplicate", "late", "no_good_data", "panic"}
  MaxFault = 4
  MaxTimeline = 5
  MaxQueue = 3
SPECIFICATION FairSpec
INVARIANT ClockFollowsTimeline
PROPERTY Converges
CHECK_DEADLOCK FALSE
