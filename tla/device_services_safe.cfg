SPECIFICATION SafeSpec
CONSTANTS
  Services <- SafeServices
  GwConfigs <- SafeGwConfigs
  ObConfigs <- SafeObConfigs
  ObDevices = {1, 2}
  MnsConfigs <- SafeMnsConfigs
  MnsClients = {0, 1}
  A4Devices = {1, 2}
  A4Configs <- A4Small
  PwNodes = {"dcvs_max"}
  PwGovernors = {"ondemand", "interactive", "msm-dcvs", "unreadable"}
  PwMaxCalls = 6
  DsMaxProfiles = 3
  DsMaxWaits = 3
  DsMaxOpens = 2
  SwapList <- MCSwapList
  GptOthers = {"modem"}
  GptMaxEntries = 4
  MsgArray <- MCMsgArray
  CapLengths <- MCLengths
  ReqArrayMax = 64
  LOCATION_BATCHING = 0
  ADAPTIVE_LOCATION_BATCHING = 3
  DISTANCE_BASE_LOCATION_BATCHING = 4
  UPDATE_TBF_ON_THE_FLY = 5
  CapFails = TRUE
  CapMaxOpens = 3
CHECK_DEADLOCK FALSE
INVARIANTS
  ServicesTypeOK
  OnlyAllowedForwarded NoCrossTalk DestroyedMeansClosed DisconnectionTold
  ObServesOne ObClosed
  MnsRegisteredIsWanted SessionsSettle
  HintsUndone
  ChargesAsTold PowerSettles
  StartsEmergencyProfile OpenIsUndone
  SwapsExactlyTheTwins
  SavedIsFirstAnswer
