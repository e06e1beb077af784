SPECIFICATION LiveSpec
CONSTANTS
  Services <- LiveServices
  GwConfigs <- LiveGwConfigs
  ObConfigs <- LiveObConfigs
  ObDevices = {1}
  MnsConfigs <- LiveMnsConfigs
  MnsClients = {0, 1}
  A4Devices = {1, 2}
  A4Configs <- A4Small
  PwNodes = {"dcvs_max"}
  PwGovernors = {"ondemand", "interactive", "msm-dcvs", "unreadable"}
  PwMaxCalls = 6
  DsMaxProfiles = 2
  DsMaxWaits = 3
  DsMaxOpens = 2
  SwapList <- MCSwapList
  GptOthers = {"modem"}
  GptMaxEntries = 0
  MsgArray <- MCMsgArray
  CapLengths <- MCLengths
  ReqArrayMax = 64
  LOCATION_BATCHING = 0
  ADAPTIVE_LOCATION_BATCHING = 3
  DISTANCE_BASE_LOCATION_BATCHING = 4
  UPDATE_TBF_ON_THE_FLY = 5
  CapFails = TRUE
  CapMaxOpens = 3
CHECK_DEADLOCK FALSE
PROPERTIES
  Relistens HandlersReturn
  ObHandlersReturn ObRelistens
  SendingEnds
