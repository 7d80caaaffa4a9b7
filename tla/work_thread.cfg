CONSTANTS
  Device = {1, 2}
  Priority = {1}
  kInitial_NumWhoIsMasterRetries = 1
  kRonin_NumWhoIsMasterRetries = 1
  kClient_NumSyncRequestRetries = 1
  kStartupFilterSize = 1
  mDeviceID = 1
  Api = {"setInterfaceBinding", "setMasterElectionEndpoint", "setAutoDisable",
         "reevaluateAutoDisableState", "setMasterAnnounceInterval",
         "setClientSyncInterval", "forceNetworklessMasterMode", "shutdownThread"}
SPECIFICATION WSpec
INVARIANT NoLostWakeup
INVARIANT CleanShutdown
CHECK_DEADLOCK FALSE
