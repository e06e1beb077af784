------------------------------ MODULE DsClient ------------------------------
(***************************************************************************)
(* ds_client.c and its caller in LocApiV02.cpp: the data call of an        *)
(* emergency location session.  openAndStartDataCall asks the modem's WDS  *)
(* service for its profiles, takes the first that supports emergency calls *)
(* and starts a data call with it.  Who calls these functions is not part  *)
(* of the repository, so they may come in any order.                       *)
(***************************************************************************)
EXTENDS Naturals, Sequences

CONSTANTS
  DsMaxProfiles, \* bound on the modem's profiles
  DsMaxWaits,    \* DS_CLIENT_SERVICE_TIMEOUT_TOTAL / DS_CLIENT_SERVICE_TIMEOUT
  DsMaxOpens     \* bound on the data calls

ASSUME DsAssumption ==
  DsMaxProfiles \in Nat /\ DsMaxWaits \in Nat \ {0} /\ DsMaxOpens \in Nat

VARIABLES
  dsProfiles,  \* the modem's: support_emergency_calls of each, "absent" when not valid
  dsAt,        \* where openAndStartDataCall is
  dsWaits,     \* waits for the service so far
  dsLen, dsI,  \* the profile list and the loop over it
  dsBuffer,    \* profile_settings_resp_msg, used for every profile
  dsFound,     \* emergency_profile_index
  dsReleased,  \* did qmi_client_release succeed?
  dsClients,   \* QMI clients held: WDS clients and notifiers
  dsHandle,    \* dsClientHandle: a session, 0 for NULL
  dsSessions,  \* for every ds_client_session_data: is its dsi_net_handle held?
  dsResult,    \* of openAndStartDataCall
  dsOpens,     \* calls of openAndStartDataCall so far
  dsPast       \* history: what happened out of turn

dsVars == <<dsProfiles, dsAt, dsWaits, dsLen, dsI, dsBuffer, dsFound, dsReleased, dsClients,
            dsHandle, dsSessions, dsResult, dsOpens, dsPast>>

DsInit ==
  /\ dsProfiles \in UNION {[1..n -> {"yes", "no", "absent"}] : n \in 0..DsMaxProfiles}
  /\ dsAt = "idle" /\ dsWaits = 0 /\ dsLen = 0 /\ dsI = 0 /\ dsBuffer = "absent" /\ dsFound = 0
  /\ dsReleased = TRUE /\ dsClients = [wds |-> 0, notifier |-> 0]
  /\ dsHandle = 0 /\ dsSessions = <<>> /\ dsResult = "none" /\ dsOpens = 0 /\ dsPast = {}

DsLoop == <<dsLen, dsI, dsBuffer, dsFound>>
DsCall == <<dsHandle, dsSessions>>

\* Every goto err: what is held at that point stays.
DsFails(result) == dsAt' = "idle" /\ dsResult' = result /\ dsPast' = dsPast \cup {"failed"}
DsGoes(label)   == dsAt' = label /\ UNCHANGED <<dsResult, dsPast>>
-----------------------------------------------------------------------------
openAndStartDataCall ==
  /\ dsAt = "idle" /\ dsOpens < DsMaxOpens /\ dsOpens' = dsOpens + 1
  /\ dsAt' = "service" /\ dsResult' = "none" /\ dsWaits' = 0 /\ dsFound' = 0 /\ dsReleased' = TRUE
  /\ dsPast' = IF dsHandle # 0 /\ dsSessions[dsHandle] THEN dsPast \cup {"reopened"} ELSE dsPast
  /\ UNCHANGED <<dsProfiles, dsLen, dsI, dsBuffer, dsClients, DsCall>>

\* ds_client_qmi_ctrl_point_init: the service is there, or a notifier is made.
DsService ==
  /\ dsAt = "service"
  /\ \/ DsGoes("client") /\ UNCHANGED dsClients
     \/ DsFails("UNSUPPORTED") /\ UNCHANGED dsClients
     \/ DsGoes("wait") /\ dsClients' = [dsClients EXCEPT !.notifier = @ + 1]
  /\ UNCHANGED <<dsProfiles, dsWaits, dsReleased, DsLoop, DsCall>>

\* One turn of the loop: the service is listed, or signalled and not listed,
\* or DS_CLIENT_SERVICE_TIMEOUT passes.
DsWait ==
  /\ dsAt = "wait" /\ dsWaits' = dsWaits + 1
  /\ \/ DsGoes("client")
     \/ DsFails("UNSUPPORTED")
     \/ dsWaits' < DsMaxWaits /\ DsGoes("wait")
  /\ UNCHANGED <<dsProfiles, dsReleased, dsClients, DsLoop, DsCall>>

\* The addresses of the service, qmi_client_init and the notifier's release.
DsClientInit ==
  /\ dsAt = "client"
  /\ \/ DsFails("UNSUPPORTED") /\ UNCHANGED dsClients
     \/ /\ DsGoes("list")
        /\ dsClients' = [wds |-> dsClients.wds + 1,
                         notifier |-> IF dsWaits > 0 THEN dsClients.notifier - 1 ELSE dsClients.notifier]
  /\ UNCHANGED <<dsProfiles, dsWaits, dsReleased, DsLoop, DsCall>>

\* ds_client_get_profile_list: without memory for the request the list is empty.
DsList ==
  /\ dsAt = "list"
  /\ \/ DsFails("UNSUPPORTED") /\ UNCHANGED DsLoop
     \/ /\ DsGoes("settings")
        /\ dsLen' \in {0, Len(dsProfiles)} /\ dsI' = 1 /\ dsBuffer' = "absent" /\ UNCHANGED dsFound
  /\ UNCHANGED <<dsProfiles, dsWaits, dsReleased, dsClients, DsCall>>

\* Mutant: a flag that is not valid counts as supported.
DsAnswerDefault == IF dsProfiles[dsI] = "absent" THEN "yes" ELSE dsProfiles[dsI]

\* What is in the buffer after the answer: an element that is absent is left as it was.
DsAnswer == IF dsProfiles[dsI] = "absent" THEN dsBuffer ELSE dsProfiles[dsI]

\* One turn of the loop over the profiles.
DsSettings ==
  /\ dsAt = "settings" /\ dsI <= dsLen
  /\ \/ DsFails("UNSUPPORTED") /\ UNCHANGED <<dsI, dsBuffer, dsFound>>
     \/ /\ DsAnswer = "yes" /\ DsGoes("release")
        /\ dsFound' = dsI /\ dsBuffer' = "yes" /\ UNCHANGED dsI
     \/ /\ DsAnswer # "yes" /\ DsGoes("settings")
        /\ dsI' = dsI + 1 /\ dsBuffer' = "absent" /\ UNCHANGED dsFound
  /\ UNCHANGED <<dsProfiles, dsWaits, dsReleased, dsLen, dsClients, DsCall>>

\* qmi_client_release; when it fails the open goes on, and fails at its end.
DsRelease ==
  /\ dsAt = "release" \/ (dsAt = "settings" /\ dsI > dsLen)
  /\ \E ok \in BOOLEAN :
       /\ dsReleased' = ok
       /\ dsClients' = IF ok THEN [dsClients EXCEPT !.wds = @ - 1] ELSE dsClients
       /\ dsAt' = IF dsFound = 0 THEN "idle" ELSE "session"
       /\ dsResult' = IF dsFound = 0 THEN "UNSUPPORTED" ELSE dsResult
       /\ dsPast' = IF ok THEN dsPast ELSE dsPast \cup {"failed"}
  /\ UNCHANGED <<dsProfiles, dsWaits, DsLoop, DsCall>>

\* The session's data is allocated over the old pointer, then the dsi handle is had.
DsSession ==
  /\ dsAt = "session"
  /\ \/ DsFails("UNSUPPORTED") /\ dsHandle' = 0 /\ UNCHANGED dsSessions
     \/ \E got \in BOOLEAN :
          /\ dsHandle' = Len(dsSessions) + 1
          /\ dsSessions' = Append(dsSessions, got)
          /\ dsAt' = IF got /\ dsReleased THEN "start" ELSE "idle"
          /\ dsResult' = IF ~got THEN "ENGINE_BUSY" ELSE IF dsReleased THEN dsResult ELSE "UNSUPPORTED"
          /\ UNCHANGED dsPast
  /\ UNCHANGED <<dsProfiles, dsWaits, dsReleased, dsClients, DsLoop>>

\* ds_client_start_call with the profile found.
DsStart ==
  /\ dsAt = "start" /\ dsAt' = "idle"
  /\ dsResult' \in {"SUCCESS", "UNSUPPORTED"}
  /\ UNCHANGED <<dsProfiles, dsWaits, dsReleased, dsClients, DsLoop, DsCall, dsPast>>

\* Mutant: the handle of the data service is kept.
closeDataCallKeepsHandle ==
  /\ dsAt = "idle" /\ dsHandle # 0 /\ dsHandle' = 0
  /\ UNCHANGED <<dsProfiles, dsAt, dsWaits, dsReleased, dsClients, DsLoop, dsSessions, dsResult, dsOpens,
                 dsPast>>

\* closeDataCall: ds_client_close_call.
closeDataCall ==
  /\ dsAt = "idle" /\ dsHandle # 0
  /\ dsSessions' = [dsSessions EXCEPT ![dsHandle] = FALSE] /\ dsHandle' = 0
  /\ UNCHANGED <<dsProfiles, dsAt, dsWaits, dsReleased, dsClients, DsLoop, dsResult, dsOpens, dsPast>>

DsOpening ==
  /\ DsService \/ DsWait \/ DsClientInit \/ DsList \/ DsSettings \/ DsRelease \/ DsSession \/ DsStart
  /\ UNCHANGED dsOpens

DsNext == openAndStartDataCall \/ DsOpening \/ closeDataCall

DsSpec == DsInit /\ [][DsNext]_dsVars
-----------------------------------------------------------------------------
DsOdd(what) == dsPast \cap what # {}

DsTypeOK ==
  /\ dsClients \in [wds : Nat, notifier : Nat] /\ dsFound \in 0..Len(dsProfiles)
  /\ dsHandle \in 0..Len(dsSessions) /\ dsWaits \in 0..DsMaxWaits
  /\ dsResult \in {"none", "SUCCESS", "ENGINE_BUSY", "UNSUPPORTED"}

(***************************************************************************)
(* A data call is started with the first profile that supports emergency   *)
(* calls, though the answers of all profiles are read into one buffer and  *)
(* may leave the flag out, and with a handle of the data service.          *)
(***************************************************************************)
StartsEmergencyProfile ==
  dsAt = "start" \/ dsResult = "SUCCESS" =>
    /\ dsProfiles[dsFound] = "yes" /\ \A k \in 1..(dsFound - 1) : dsProfiles[k] # "yes"
    /\ dsAt = "start" => dsSessions[dsHandle]

(***************************************************************************)
(* What an open takes is given back.  A handle of the data service that is *)
(* held is the one closeDataCall releases, also after an open that was     *)
(* refused half-way; only an open without a close before it loses the      *)
(* handle ("reopened").  QMI clients are held only while an open runs, but *)
(* every open that fails after qmi_client_init keeps its WDS client, and   *)
(* one that fails after qmi_client_notifier_init its notifier ("failed").  *)
(***************************************************************************)
OpenIsUndone ==
  /\ \A s \in DOMAIN dsSessions : dsSessions[s] => s = dsHandle \/ DsOdd({"reopened"})
  /\ dsAt = "idle" => (dsClients.wds = 0 /\ dsClients.notifier = 0) \/ DsOdd({"failed"})
=============================================================================
