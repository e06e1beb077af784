-------------------------- MODULE MCDeviceServices --------------------------
(***************************************************************************)
(* Small instances, for TLC, of the services that run each in a process of *)
(* its own and share no state.  In a behaviour one service runs; the       *)
(* others stay in one of their initial states, in which none of the        *)
(* actions they are fair to is enabled.                                    *)
(***************************************************************************)
EXTENDS BtGateway, BtObex, BtMns, A4wp, PowerHal, DsClient, GptSwap, LocCapabilities

CONSTANT Services  \* the ones that run
VARIABLE service

allVars == <<service, gwVars, obVars, mnsVars, a4Vars, pwVars, dsVars, gptVars, capVars>>

\* The choices of the services that do not run.
Idle ==
  /\ service = "gateway" \/ gwConfig = CHOOSE c \in GwConfigs : TRUE
  /\ service = "obex"    \/ obConfig = CHOOSE c \in ObConfigs : TRUE
  /\ service = "mns"     \/ mnsLeft = CHOOSE c \in MnsConfigs : TRUE
  /\ service = "charger" \/ a4Config = CHOOSE c \in A4Configs : TRUE
  /\ service = "power"   \/ pwGovernor = CHOOSE g \in PwGovernors : TRUE
  /\ service = "data"    \/ dsProfiles = <<>>
  /\ service = "swap"    \/ gptInitial = <<>>
  /\ service = "caps"    \/ capModem = CHOOSE m \in CapModems : TRUE

Init ==
  /\ service \in Services
  /\ Idle
  /\ GwInit /\ ObInit /\ MnsInit /\ A4Init /\ PwInit /\ DsInit /\ GptInit /\ CapInit

Small  == <<pwVars, dsVars, gptVars, capVars>>
Blue   == <<gwVars, obVars, mnsVars, a4Vars>>

Next ==
  /\ UNCHANGED service
  /\ \/ service = "gateway" /\ GwNext  /\ UNCHANGED <<obVars, mnsVars, a4Vars, Small>>
     \/ service = "obex"    /\ ObNext  /\ UNCHANGED <<gwVars, mnsVars, a4Vars, Small>>
     \/ service = "mns"     /\ MnsNext /\ UNCHANGED <<gwVars, obVars, a4Vars, Small>>
     \/ service = "charger" /\ A4Next  /\ UNCHANGED <<gwVars, obVars, mnsVars, Small>>
     \/ service = "power"   /\ PwNext  /\ UNCHANGED <<Blue, dsVars, gptVars, capVars>>
     \/ service = "data"    /\ DsNext  /\ UNCHANGED <<Blue, pwVars, gptVars, capVars>>
     \/ service = "swap"    /\ GptNext /\ UNCHANGED <<Blue, pwVars, dsVars, capVars>>
     \/ service = "caps"    /\ CapNext /\ UNCHANGED <<Blue, pwVars, dsVars, gptVars>>

SafeSpec == Init /\ [][Next]_allVars
LiveSpec == SafeSpec /\ GwFairness /\ ObFairness /\ MnsFairness

(***************************************************************************)
(* The records and counters of the services keep their types: a thread is  *)
(* at one of its steps, a socket that is held is one that was opened, and  *)
(* a handle that is held is in the list of handles.                        *)
(***************************************************************************)
ServicesTypeOK ==
  GwTypeOK /\ ObTypeOK /\ MnsTypeOK /\ A4TypeOK /\ PwTypeOK /\ DsTypeOK /\ CapTypeOK
-----------------------------------------------------------------------------
\* For the invariants...
SafeServices == {"gateway", "obex", "mns", "charger", "power", "data", "swap", "caps"}

SafeGwConfigs ==
  {[profile |-> "sap", conns |-> 2, ons |-> 1, deaths |-> 0],
   [profile |-> "sap", conns |-> 1, ons |-> 2, deaths |-> 1],
   [profile |-> "dun", conns |-> 1, ons |-> 1, deaths |-> 1],
   [profile |-> "dun", conns |-> 1, ons |-> 2, deaths |-> 0]}

SafeObConfigs ==
  {[profile |-> "ftp", conns |-> 2, faults |-> {"off", "acl", "giveup"}],
   [profile |-> "mas", conns |-> 2, faults |-> {}],
   [profile |-> "mas", conns |-> 1, faults |-> {"off", "acl", "giveup"}]}

SafeMnsConfigs == {[requests |-> 3, events |-> 0], [requests |-> 1, events |-> 2]}

\* The threads three by three; most of what goes wrong takes four handlers.
A4Small ==
  {[threads |-> {"main", "gatt", "chip"}, calls |-> 5, up |-> TRUE],
   [threads |-> {"main", "gatt", "wbc"},  calls |-> 4, up |-> FALSE],
   [threads |-> {"main", "gatt", "wbc"},  calls |-> 4, up |-> TRUE],
   [threads |-> {"gatt", "chip", "wbc"},  calls |-> 4, up |-> TRUE]}

\* ... and for liveness.
LiveServices == {"gateway", "obex", "mns"}

LiveGwConfigs ==
  {[profile |-> "sap", conns |-> 2, ons |-> 1, deaths |-> 0],
   [profile |-> "sap", conns |-> 1, ons |-> 1, deaths |-> 1],
   [profile |-> "dun", conns |-> 1, ons |-> 1, deaths |-> 0]}

LiveObConfigs ==
  {[profile |-> "ftp", conns |-> 2, faults |-> {"off", "acl", "giveup"}],
   [profile |-> "mas", conns |-> 2, faults |-> {}],
   [profile |-> "mas", conns |-> 1, faults |-> {"off", "acl", "giveup"}]}

LiveMnsConfigs == {[requests |-> 1, events |-> 2]}
-----------------------------------------------------------------------------
MCSwapList == <<"sbl1", "tz">>

\* QMI_LOC_GET_BATCH_SIZE_REQ, GEOFENCE_BATCHED_BREACH_NOTIFICATION_IND and
\* START_DBT_REQ, in bytes 14, 16 and 18 of the bitmap.
MCMsgArray == <<117, 128, 146>>
\* Empty, shorter than the array, and ending before and after each message.
MCLengths == {0, 2, 14, 15, 16, 17, 18, 19}
=============================================================================
