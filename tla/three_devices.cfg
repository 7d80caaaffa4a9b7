CONSTANTS
  Device = {1, 2, 3}
  Priority = {1}
  kInitial_NumWhoIsMasterRetries = 2
  kRonin_NumWhoIsMasterRetries = 2
  kClient_NumSyncRequestRetries = 2
  kStartupFilterSize = 1
  Reorder = FALSE
  Timely = TRUE
  Fault = {"bind", "leave"}
  MaxFault = 4
  MaxTimeline = 5
  MaxQueue = 3
SPECIFICATION FairSpec
INVARIANT SingleMaster
PROPERTY Converges
CHECK_DEADLOCK FALSE
