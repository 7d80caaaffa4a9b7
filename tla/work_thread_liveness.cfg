CONSTANTS
  Device = {1, 2}
  Priority = {1}
  kInitial_NumWhoIsMasterRetries = 1
  kRonin_NumWhoIsMasterRetries = 1
  kClient_NumSyncRequestRetries = 1
  kStartupFilterSize = 1
  mDeviceID = 1
  Api = {"setInterfaceBinding", "reevaluateAutoDisableState",
         "shutdownThread"}
SPECIFICATION FairWSpec
PROPERTY ConfigTakesEffect
PROPERTY AutoDisableEngages
PROPERTY RetriesUntilBound
PROPERTY ShutdownCompletes
CHECK_DEADLOCK FALSE
