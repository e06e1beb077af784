-------------------------- MODULE LocServicesProofs --------------------------
(***************************************************************************)
(* Proofs about the location engine's adapter: its data call (DsClient), for *)
(* any number of profiles, waits and calls; what it asks the modem about   *)
(* itself (LocCapabilities), for any message array; and its sessions       *)
(* (LocSession), for every set of bits and events, every bound on the      *)
(* environment, and whatever fails.                                        *)
(***************************************************************************)
EXTENDS DsClient, LocCapabilities, LocSession, TLAPS

(***************************************************************************)
(* The data call.                                                          *)
(***************************************************************************)
DsBefore == {"service", "wait", "client", "list", "settings"}  \* no profile is found yet
DsAfter  == {"release", "session", "start"}                    \* one is

Profiles == Seq({"yes", "no", "absent"})
Clients  == [wds : Nat, notifier : Nat]

PlainTypes ==
  /\ dsAt \in {"idle"} \cup DsBefore \cup DsAfter
  /\ dsWaits \in 0..DsMaxWaits
  /\ dsLen \in Nat /\ dsI \in Nat /\ dsFound \in Nat
  /\ dsResult \in {"none", "SUCCESS", "ENGINE_BUSY", "UNSUPPORTED"}

HandleType == dsSessions \in Seq(BOOLEAN) /\ dsHandle \in 0..Len(dsSessions)

DsTypes == dsProfiles \in Profiles /\ dsClients \in Clients /\ PlainTypes /\ HandleType

\* The loop over the profiles has passed none that supports emergency calls,
\* and its one buffer holds nothing of the profiles before.
LoopInv ==
  dsAt = "settings" =>
    /\ dsLen <= Len(dsProfiles) /\ dsI \in 1..(dsLen + 1) /\ dsBuffer = "absent"
    /\ \A k \in 1..(dsI - 1) : dsProfiles[k] # "yes"

IsFirstEmergency(p) ==
  /\ p \in 1..Len(dsProfiles) /\ dsProfiles[p] = "yes"
  /\ \A k \in 1..(p - 1) : dsProfiles[k] # "yes"

FoundInv ==
  /\ dsAt \in DsBefore => dsFound = 0
  /\ dsAt \in DsAfter \/ dsResult = "SUCCESS" => IsFirstEmergency(dsFound)
  /\ dsAt # "idle" => dsResult = "none"
  /\ dsFound <= Len(dsProfiles)

\* What an open holds of QMI clients at each of its steps.
NotifierHeld == dsAt = "wait" \/ (dsAt = "client" /\ dsWaits > 0)
ClientHeld   == dsAt \in {"list", "settings", "release"}

ClientInv ==
  /\ dsAt = "service" => dsWaits = 0
  /\ dsAt = "wait" => dsWaits < DsMaxWaits
  /\ NotifierHeld => dsClients.notifier >= 1
  /\ ClientHeld => dsClients.wds >= 1
  /\ \/ "failed" \in dsPast
     \/ /\ dsClients.notifier = (IF NotifierHeld THEN 1 ELSE 0)
        /\ dsClients.wds = (IF ClientHeld THEN 1 ELSE 0)

\* While an open runs, the handle it will overwrite is of no live session,
\* unless the open came without a close before it.
DsSessionInv ==
  /\ dsAt = "start" => dsHandle # 0 /\ dsSessions[dsHandle]
  /\ \A s \in 1..Len(dsSessions) : dsSessions[s] =>
       (s = dsHandle /\ dsAt \in {"idle", "start"}) \/ "reopened" \in dsPast

DsInv == DsTypes /\ LoopInv /\ FoundInv /\ ClientInv /\ DsSessionInv
-----------------------------------------------------------------------------
LEMMA DsInitInv == DsInit => DsInv
<1> SUFFICES ASSUME DsInit PROVE DsInv
  OBVIOUS
<1>1. dsProfiles \in Profiles
  <2>1. PICK n \in 0..DsMaxProfiles : dsProfiles \in [1..n -> {"yes", "no", "absent"}]
    BY DEF DsInit
  <2>2. n \in Nat
    BY DsAssumption
  <2> QED
    BY <2>1, <2>2 DEF Profiles
<1>2. dsClients \in Clients /\ dsClients.wds = 0 /\ dsClients.notifier = 0
  BY DEF DsInit, Clients
<1>3. HandleType
  BY DEF DsInit, HandleType
<1>4. PlainTypes
  BY DsAssumption DEF DsInit, PlainTypes
<1>5. LoopInv
  BY DEF DsInit, LoopInv
<1>6. FoundInv
  <2>1. 0 <= Len(dsProfiles)
    BY <1>1 DEF Profiles
  <2> QED
    BY <2>1 DEF DsInit, FoundInv, DsBefore, DsAfter
<1>7. ClientInv
  BY <1>2 DEF DsInit, ClientInv, NotifierHeld, ClientHeld
<1>8. DsSessionInv
  BY DEF DsInit, DsSessionInv
<1> QED
  BY <1>1, <1>2, <1>3, <1>4, <1>5, <1>6, <1>7, <1>8 DEF DsInv, DsTypes

LEMMA DsStep == DsInv /\ [DsNext]_dsVars => DsInv'
<1> SUFFICES ASSUME DsInv, [DsNext]_dsVars PROVE DsInv'
  OBVIOUS
<1>0. /\ dsProfiles \in Profiles /\ dsClients \in Clients /\ PlainTypes /\ HandleType
      /\ LoopInv /\ FoundInv /\ ClientInv /\ DsSessionInv
  BY DEF DsInv, DsTypes
<1>n. Len(dsProfiles) \in Nat
  BY <1>0 DEF Profiles
<1>c. dsClients.wds \in Nat /\ dsClients.notifier \in Nat
  BY <1>0 DEF Clients
<1>p. dsProfiles' = dsProfiles
  BY DEF DsNext, openAndStartDataCall, DsOpening, DsService, DsWait, DsClientInit, DsList, DsSettings,
         DsRelease, DsSession, DsStart, closeDataCall, dsVars
<1>1. CASE openAndStartDataCall
  <2> USE <1>1 DEF openAndStartDataCall, DsCall
  <2>1. PlainTypes' /\ dsClients' = dsClients
    BY <1>0, DsAssumption DEF PlainTypes, DsBefore
  <2>2. LoopInv' /\ FoundInv'
    BY <1>0, <1>n, <1>p DEF LoopInv, FoundInv, DsBefore, DsAfter
  <2>3. ClientInv'
    BY <1>0, DsAssumption DEF ClientInv, NotifierHeld, ClientHeld
  <2>4. HandleType'
    BY <1>0 DEF HandleType
  <2>5. DsSessionInv'
    <3>1. dsSessions' = dsSessions /\ dsHandle' = dsHandle /\ dsAt' = "service"
      OBVIOUS
    <3>2. dsHandle # 0 /\ dsSessions[dsHandle] => "reopened" \in dsPast'
      OBVIOUS
    <3>3. dsPast \subseteq dsPast'
      OBVIOUS
    <3>4. \A s \in 1..Len(dsSessions) : s # 0
      BY <1>0 DEF HandleType
    <3> QED
      BY <1>0, <3>1, <3>2, <3>3, <3>4 DEF DsSessionInv
  <2> QED
    BY <1>0, <1>p, <2>1, <2>2, <2>3, <2>4, <2>5 DEF DsInv, DsTypes
<1>2. CASE DsService
  <2> USE <1>2 DEF DsService, DsCall, DsLoop, DsGoes, DsFails
  <2>1. PlainTypes'
    BY <1>0, <1>n DEF PlainTypes, DsBefore, DsAfter
  <2>2. dsClients' \in Clients
    BY <1>0, <1>c DEF Clients, ClientInv, NotifierHeld, ClientHeld
  <2>3. HandleType'
    BY <1>0 DEF HandleType
  <2>4. LoopInv'
    BY <1>0, <1>n, <1>p DEF PlainTypes, LoopInv
  <2>5. FoundInv'
    BY <1>0, <1>n, <1>p DEF PlainTypes, FoundInv, IsFirstEmergency, DsBefore, DsAfter
  <2>6. ClientInv'
    BY <1>0, <1>c, DsAssumption DEF Clients, PlainTypes, ClientInv, NotifierHeld, ClientHeld
  <2>7. DsSessionInv'
    BY <1>0 DEF HandleType, DsSessionInv
  <2> QED
    BY <1>0, <1>p, <2>1, <2>2, <2>3, <2>4, <2>5, <2>6, <2>7 DEF DsInv, DsTypes
<1>3. CASE DsWait
  <2> USE <1>3 DEF DsWait, DsCall, DsLoop, DsGoes, DsFails
  <2>a. dsWaits' \in 0..DsMaxWaits /\ dsWaits' > 0
    BY <1>0, DsAssumption DEF PlainTypes, ClientInv
  <2>1. PlainTypes'
    BY <1>0, <1>n, <2>a DEF PlainTypes, DsBefore, DsAfter
  <2>2. dsClients' \in Clients
    BY <1>0, <1>c DEF Clients, ClientInv, NotifierHeld, ClientHeld
  <2>3. HandleType'
    BY <1>0 DEF HandleType
  <2>4. LoopInv'
    BY <1>0, <1>n, <1>p, <2>a DEF PlainTypes, LoopInv
  <2>5. FoundInv'
    BY <1>0, <1>n, <1>p, <2>a DEF PlainTypes, FoundInv, IsFirstEmergency, DsBefore, DsAfter
  <2>6. ClientInv'
    BY <1>0, <1>c, <2>a DEF PlainTypes, ClientInv, NotifierHeld, ClientHeld
  <2>7. DsSessionInv'
    BY <1>0 DEF HandleType, DsSessionInv
  <2> QED
    BY <1>0, <1>p, <2>1, <2>2, <2>3, <2>4, <2>5, <2>6, <2>7 DEF DsInv, DsTypes
<1>4. CASE DsClientInit
  <2> USE <1>4 DEF DsClientInit, DsCall, DsLoop, DsGoes, DsFails
  <2>1. PlainTypes'
    BY <1>0, <1>n DEF PlainTypes, DsBefore, DsAfter
  <2>2. dsClients' \in Clients
    BY <1>0, <1>c DEF Clients, ClientInv, NotifierHeld, ClientHeld
  <2>3. HandleType'
    BY <1>0 DEF HandleType
  <2>4. LoopInv'
    BY <1>0, <1>n, <1>p DEF PlainTypes, LoopInv
  <2>5. FoundInv'
    BY <1>0, <1>n, <1>p DEF PlainTypes, FoundInv, IsFirstEmergency, DsBefore, DsAfter
  <2>6. ClientInv'
    BY <1>0, <1>c DEF PlainTypes, ClientInv, NotifierHeld, ClientHeld
  <2>7. DsSessionInv'
    BY <1>0 DEF HandleType, DsSessionInv
  <2> QED
    BY <1>0, <1>p, <2>1, <2>2, <2>3, <2>4, <2>5, <2>6, <2>7 DEF DsInv, DsTypes
<1>5. CASE DsList
  <2> USE <1>5 DEF DsList, DsCall, DsLoop, DsGoes, DsFails
  <2>1. PlainTypes'
    BY <1>0, <1>n DEF PlainTypes, DsBefore, DsAfter
  <2>2. dsClients' \in Clients
    BY <1>0, <1>c DEF Clients, ClientInv, NotifierHeld, ClientHeld
  <2>3. HandleType'
    BY <1>0 DEF HandleType
  <2>4. LoopInv'
    BY <1>0, <1>n, <1>p DEF PlainTypes, LoopInv
  <2>5. FoundInv'
    BY <1>0, <1>n, <1>p DEF PlainTypes, FoundInv, IsFirstEmergency, DsBefore, DsAfter
  <2>6. ClientInv'
    BY <1>0, <1>c DEF PlainTypes, ClientInv, NotifierHeld, ClientHeld
  <2>7. DsSessionInv'
    BY <1>0 DEF HandleType, DsSessionInv
  <2> QED
    BY <1>0, <1>p, <2>1, <2>2, <2>3, <2>4, <2>5, <2>6, <2>7 DEF DsInv, DsTypes
<1>6. CASE DsSettings
  <2> USE <1>6 DEF DsSettings, DsCall, DsGoes, DsFails
  <2>a. dsI \in 1..Len(dsProfiles) /\ (DsAnswer = "yes" <=> dsProfiles[dsI] = "yes")
    BY <1>0, <1>n DEF PlainTypes, LoopInv, DsAnswer
  <2>b. \A k \in 1..(dsI - 1) : dsProfiles[k] # "yes"
    BY <1>0 DEF LoopInv
  <2>1. PlainTypes'
    BY <1>0, <1>n, <2>a, <2>b DEF PlainTypes, DsBefore, DsAfter
  <2>2. dsClients' \in Clients
    BY <1>0, <1>c DEF Clients, ClientInv, NotifierHeld, ClientHeld
  <2>3. HandleType'
    BY <1>0 DEF HandleType
  <2>4. LoopInv'
    BY <1>0, <1>n, <1>p, <2>a, <2>b DEF PlainTypes, LoopInv
  <2>5. FoundInv'
    BY <1>0, <1>n, <1>p, <2>a, <2>b DEF PlainTypes, FoundInv, IsFirstEmergency, DsBefore, DsAfter
  <2>6. ClientInv'
    BY <1>0, <1>c, <2>a, <2>b DEF PlainTypes, ClientInv, NotifierHeld, ClientHeld
  <2>7. DsSessionInv'
    BY <1>0 DEF HandleType, DsSessionInv
  <2> QED
    BY <1>0, <1>p, <2>1, <2>2, <2>3, <2>4, <2>5, <2>6, <2>7 DEF DsInv, DsTypes
<1>7. CASE DsRelease
  <2> USE <1>7 DEF DsRelease, DsCall, DsLoop
  <2>1. PlainTypes'
    BY <1>0, <1>n DEF PlainTypes, DsBefore, DsAfter
  <2>2. dsClients' \in Clients
    BY <1>0, <1>c DEF Clients, ClientInv, NotifierHeld, ClientHeld
  <2>3. HandleType'
    BY <1>0 DEF HandleType
  <2>4. LoopInv'
    BY <1>0, <1>n, <1>p DEF PlainTypes, LoopInv
  <2>5. FoundInv'
    BY <1>0, <1>n, <1>p DEF PlainTypes, FoundInv, IsFirstEmergency, DsBefore, DsAfter
  <2>6. ClientInv'
    BY <1>0, <1>c DEF PlainTypes, ClientInv, NotifierHeld, ClientHeld
  <2>7. DsSessionInv'
    BY <1>0 DEF HandleType, DsSessionInv
  <2> QED
    BY <1>0, <1>p, <2>1, <2>2, <2>3, <2>4, <2>5, <2>6, <2>7 DEF DsInv, DsTypes
<1>8. CASE DsSession
  <2> USE <1>8 DEF DsSession, DsLoop, DsFails
  <2>1. PlainTypes'
    BY <1>0, <1>n DEF PlainTypes, DsBefore, DsAfter
  <2>2. dsClients' \in Clients
    BY <1>0, <1>c DEF Clients, ClientInv, NotifierHeld, ClientHeld
  <2>3. HandleType'
    BY <1>0 DEF HandleType
  <2>4. LoopInv'
    BY <1>0, <1>n, <1>p DEF PlainTypes, LoopInv
  <2>5. FoundInv'
    BY <1>0, <1>n, <1>p DEF PlainTypes, FoundInv, IsFirstEmergency, DsBefore, DsAfter
  <2>6. ClientInv'
    BY <1>0, <1>c DEF PlainTypes, ClientInv, NotifierHeld, ClientHeld
  <2>7. DsSessionInv'
    BY <1>0 DEF HandleType, DsSessionInv
  <2> QED
    BY <1>0, <1>p, <2>1, <2>2, <2>3, <2>4, <2>5, <2>6, <2>7 DEF DsInv, DsTypes
<1>9. CASE DsStart
  <2> USE <1>9 DEF DsStart, DsCall, DsLoop
  <2>1. PlainTypes'
    BY <1>0, <1>n DEF PlainTypes, DsBefore, DsAfter
  <2>2. dsClients' \in Clients
    BY <1>0, <1>c DEF Clients, ClientInv, NotifierHeld, ClientHeld
  <2>3. HandleType'
    BY <1>0 DEF HandleType
  <2>4. LoopInv'
    BY <1>0, <1>n, <1>p DEF PlainTypes, LoopInv
  <2>5. FoundInv'
    BY <1>0, <1>n, <1>p DEF PlainTypes, FoundInv, IsFirstEmergency, DsBefore, DsAfter
  <2>6. ClientInv'
    BY <1>0, <1>c DEF PlainTypes, ClientInv, NotifierHeld, ClientHeld
  <2>7. DsSessionInv'
    BY <1>0 DEF HandleType, DsSessionInv
  <2> QED
    BY <1>0, <1>p, <2>1, <2>2, <2>3, <2>4, <2>5, <2>6, <2>7 DEF DsInv, DsTypes
<1>10. CASE closeDataCall
  <2> USE <1>10 DEF closeDataCall, DsLoop
  <2>1. PlainTypes'
    BY <1>0, <1>n DEF PlainTypes, DsBefore, DsAfter
  <2>2. dsClients' \in Clients
    BY <1>0, <1>c DEF Clients, ClientInv, NotifierHeld, ClientHeld
  <2>3. HandleType'
    BY <1>0 DEF HandleType
  <2>4. LoopInv'
    BY <1>0, <1>n, <1>p DEF PlainTypes, LoopInv
  <2>5. FoundInv'
    BY <1>0, <1>n, <1>p DEF PlainTypes, FoundInv, IsFirstEmergency, DsBefore, DsAfter
  <2>6. ClientInv'
    BY <1>0, <1>c DEF PlainTypes, ClientInv, NotifierHeld, ClientHeld
  <2>7. DsSessionInv'
    BY <1>0 DEF HandleType, DsSessionInv
  <2> QED
    BY <1>0, <1>p, <2>1, <2>2, <2>3, <2>4, <2>5, <2>6, <2>7 DEF DsInv, DsTypes
<1>11. CASE UNCHANGED dsVars
  <2> USE <1>11 DEF dsVars
  <2>1. PlainTypes'
    BY <1>0, <1>n DEF PlainTypes, DsBefore, DsAfter
  <2>2. dsClients' \in Clients
    BY <1>0, <1>c DEF Clients, ClientInv, NotifierHeld, ClientHeld
  <2>3. HandleType'
    BY <1>0 DEF HandleType
  <2>4. LoopInv'
    BY <1>0, <1>n, <1>p DEF PlainTypes, LoopInv
  <2>5. FoundInv'
    BY <1>0, <1>n, <1>p DEF PlainTypes, FoundInv, IsFirstEmergency, DsBefore, DsAfter
  <2>6. ClientInv'
    BY <1>0, <1>c DEF PlainTypes, ClientInv, NotifierHeld, ClientHeld
  <2>7. DsSessionInv'
    BY <1>0 DEF HandleType, DsSessionInv
  <2> QED
    BY <1>0, <1>p, <2>1, <2>2, <2>3, <2>4, <2>5, <2>6, <2>7 DEF DsInv, DsTypes
<1> QED
  BY <1>1, <1>2, <1>3, <1>4, <1>5, <1>6, <1>7, <1>8, <1>9, <1>10, <1>11 DEF DsNext, DsOpening

LEMMA DsInvariant == DsSpec => []DsInv
  BY DsInitInv, DsStep, PTL DEF DsSpec

(***************************************************************************)
(* The counters of QMI clients never go below zero: openAndStartDataCall   *)
(* releases only what it holds, whatever failed before; and the handle is  *)
(* NULL or that of a session that was allocated.                           *)
(***************************************************************************)
THEOREM DsTypeCorrect == DsSpec => []DsTypeOK
<1>1. DsInv => DsTypeOK
  BY DEF DsInv, DsTypes, Profiles, Clients, PlainTypes, HandleType, FoundInv, DsTypeOK
<1> QED
  BY <1>1, DsInvariant, PTL

(***************************************************************************)
(* With any list of profiles and any failures on the way, ds_client starts *)
(* the data call with the first profile that supports emergency calls and  *)
(* with a handle of the data service it holds.                             *)
(***************************************************************************)
THEOREM StartsWithEmergencyProfile == DsSpec => []StartsEmergencyProfile
<1>1. DsInv => StartsEmergencyProfile
  BY DEF DsInv, FoundInv, DsSessionInv, IsFirstEmergency, StartsEmergencyProfile, DsAfter
<1> QED
  BY <1>1, DsInvariant, PTL

(***************************************************************************)
(* In any sequence of opens and closes, a handle of the data service that  *)
(* is held is the one closeDataCall releases unless an open came without a *)
(* close before it, and QMI clients stay held after an open only when that *)
(* open or an earlier one failed.                                          *)
(***************************************************************************)
THEOREM OpenGivesBack == DsSpec => []OpenIsUndone
<1>1. DsInv => OpenIsUndone
  <2> SUFFICES ASSUME DsInv PROVE OpenIsUndone
    OBVIOUS
  <2>1. DOMAIN dsSessions = 1..Len(dsSessions)
    BY DEF DsInv, DsTypes, HandleType
  <2> QED
    BY <2>1 DEF DsInv, DsSessionInv, ClientInv, NotifierHeld, ClientHeld, OpenIsUndone, DsOdd
<1> QED
  BY <1>1, DsInvariant, PTL
-----------------------------------------------------------------------------
(***************************************************************************)
(* What the modem supports.                                                *)
(***************************************************************************)
CapBits == 0..(Len(MsgArray) - 1)

\* The bits of the batching modes lie behind the bits of msgArray's messages,
\* and so does the room for them.
BitsFit == BatchingBits \subseteq Nat \ CapBits /\ Len(MsgArray) <= ReqArrayMax

\* The bitmap reaches a message only in the byte of its ID, or later, so a
\* bitmap too short for the index of a message is too short for the message.
BytesFit == \A i \in 1..Len(MsgArray) : i - 1 <= CapByte(MsgArray[i])

ModemInv == capModem \in CapModems /\ capFirst \subseteq CapModems

FlagTypes ==
  /\ isCheckedAlready \in BOOLEAN /\ capAnswered \in BOOLEAN
  /\ capAt \in {"closed", "check", "aon"} /\ capOpens \in 0..CapMaxOpens

\* What the modem that answered first supports.
FirstAnswer(list) == \E m \in capFirst : list = checkQmiMsgsSupported(m)

\* The statics hold the first answer once it has been had.
StaticInv ==
  /\ supportedMsgChecked \subseteq CapBits
  /\ isCheckedAlready => FirstAnswer(supportedMsgChecked)

\* The list of an open that was answered, and what is saved of it.
ListInv ==
  /\ capList \subseteq CapBits
  /\ capAt = "aon" /\ capAnswered => FirstAnswer(capList)

SavedInv ==
  \E list \in SUBSET CapBits :
    /\ capSaved = list \/ (LOCATION_BATCHING \in list /\ capSaved = list \cup BatchingBits)
    /\ capAt = "closed" /\ capOpens > 0 /\ capAnswered => FirstAnswer(list)

CapInv == ModemInv /\ FlagTypes /\ StaticInv /\ ListInv /\ SavedInv

\* The bitmap is searched for messages of msgArray only.
LEMMA CheckedBits == \A m \in CapModems : checkQmiMsgsSupported(m) \subseteq CapBits
<1> SUFFICES ASSUME NEW m \in CapModems PROVE checkQmiMsgsSupported(m) \subseteq CapBits
  OBVIOUS
<1>0. m \in [len : CapLengths, valid : BOOLEAN, messages : SUBSET CapMessages]
  BY DEF CapModems
<1>L. Len(MsgArray) \in Nat /\ ReqArrayMax \in Nat /\ CapLengths \subseteq Nat
  BY LocCapabilitiesAssumption
<1>M. m.len \in CapLengths
  BY <1>0
<1>1. Len(MsgArray) \in Nat /\ ReqArrayMax \in Nat /\ m.len \in Nat
  BY <1>L, <1>M, Zenon
<1> DEFINE n == CapLeast(CapLeast(Len(MsgArray), m.len), ReqArrayMax)
<1>2. n \in Nat /\ n <= Len(MsgArray)
  BY <1>1 DEF CapLeast
<1>3. checkQmiMsgsSupported(m) \subseteq 0..(n - 1)
  BY DEF checkQmiMsgsSupported
<1> HIDE DEF n
<1> QED
  BY <1>1, <1>2, <1>3 DEF CapBits

\* Where the bitmap says what it says, it is what the modem supports.
LEMMA CheckedIsSupported ==
  ASSUME BytesFit, BitsFit, NEW m \in CapModems, m.valid
  PROVE  \A i \in 1..Len(MsgArray) : i - 1 \in checkQmiMsgsSupported(m) <=> MsgArray[i] \in m.messages
<1> SUFFICES ASSUME NEW i \in 1..Len(MsgArray)
             PROVE  i - 1 \in checkQmiMsgsSupported(m) <=> MsgArray[i] \in m.messages
  OBVIOUS
<1>0. m \in [len : CapLengths, valid : BOOLEAN, messages : SUBSET CapMessages]
  BY DEF CapModems
<1>L. Len(MsgArray) \in Nat /\ ReqArrayMax \in Nat /\ i \in Nat /\ MsgArray[i] \in Nat /\ CapLengths \subseteq Nat
  BY LocCapabilitiesAssumption
<1>M. m.len \in CapLengths
  BY <1>0
<1>1. Len(MsgArray) \in Nat /\ ReqArrayMax \in Nat /\ m.len \in Nat /\ i \in Nat /\ MsgArray[i] \in Nat
  BY <1>L, <1>M, Zenon
<1>2. CapByte(MsgArray[i]) \in Nat
  BY <1>1 DEF CapByte
<1>3. MsgArray[i] \in m.messages => CapByte(MsgArray[i]) < m.len
  BY DEF CapModems
<1>4. i - 1 <= CapByte(MsgArray[i]) /\ Len(MsgArray) <= ReqArrayMax
  BY DEF BytesFit, BitsFit
<1>5. (i - 1) + 1 = i
  BY <1>1
<1> DEFINE n == CapLeast(CapLeast(Len(MsgArray), m.len), ReqArrayMax)
<1>6. n \in Nat /\ (i - 1 < m.len => i - 1 \in 0..(n - 1))
  BY <1>1, <1>4 DEF CapLeast
<1>7. checkQmiMsgsSupported(m) = {k \in 0..(n - 1) : m.len > CapByte(MsgArray[k + 1])
                                                    /\ MsgArray[k + 1] \in m.messages}
  BY DEF checkQmiMsgsSupported
<1> HIDE DEF n
<1>8. CASE MsgArray[i] \in m.messages
  <2>1. m.len > CapByte(MsgArray[i]) /\ i - 1 \in 0..(n - 1)
    BY <1>1, <1>2, <1>3, <1>4, <1>6, <1>8
  <2> QED
    BY <1>5, <1>7, <1>8, <2>1
<1>9. CASE MsgArray[i] \notin m.messages
  BY <1>5, <1>7, <1>9
<1> QED
  BY <1>8, <1>9

LEMMA CapInitInv == CapInit => CapInv
<1> SUFFICES ASSUME CapInit PROVE CapInv
  OBVIOUS
<1>1. ModemInv
  BY DEF CapInit, ModemInv
<1>4. capAt \in {"closed", "check", "aon"} /\ capOpens \in 0..CapMaxOpens
  BY LocCapabilitiesAssumption DEF CapInit
<1>5. FlagTypes
  BY <1>4, Zenon DEF CapInit, FlagTypes
<1>2. StaticInv /\ ListInv
  BY DEF CapInit, StaticInv, ListInv
<1>3. SavedInv
  <2>1. {} \in SUBSET CapBits /\ capSaved = {} /\ ~(capOpens > 0)
    BY DEF CapInit
  <2> QED
    BY <2>1 DEF SavedInv
<1> QED
  BY <1>1, <1>2, <1>3, <1>5 DEF CapInv

LEMMA CapStep == CapInv /\ [CapNext]_capVars => CapInv'
<1> SUFFICES ASSUME CapInv, [CapNext]_capVars PROVE CapInv'
  OBVIOUS
<1>0. ModemInv /\ FlagTypes /\ StaticInv /\ ListInv /\ SavedInv
  BY DEF CapInv
<1>4. CASE CapOpen
  <2> USE <1>4 DEF CapOpen
  <2>4. capAt' \in {"closed", "check", "aon"} /\ capOpens' \in 0..CapMaxOpens
    BY <1>0, LocCapabilitiesAssumption DEF FlagTypes
  <2>1. FlagTypes'
    BY <1>0, <2>4, Zenon DEF FlagTypes, CapStatic
  <2>2. ModemInv' /\ StaticInv' /\ ListInv'
    BY <1>0 DEF CapStatic, ModemInv, StaticInv, ListInv, FirstAnswer
  <2>3. SavedInv'
    BY <1>0 DEF SavedInv
  <2> QED
    BY <2>1, <2>2, <2>3 DEF CapInv
<1>5. CASE locClientSupportMsgCheck
  <2> USE <1>5 DEF locClientSupportMsgCheck
  <2>4. capAt' \in {"closed", "check", "aon"} /\ capOpens' \in 0..CapMaxOpens
    BY <1>0 DEF FlagTypes
  <2>1. FlagTypes'
    BY <1>0, <2>4, Zenon DEF FlagTypes, CapStatic
  <2>3. SavedInv'
    BY <1>0 DEF SavedInv
  <2>5. ModemInv'
    BY <1>0 DEF CapStatic, ModemInv
  <2>9. StaticInv' /\ ListInv'
    <3>1. CASE isCheckedAlready
      BY <1>0, <3>1 DEF CapStatic, StaticInv, ListInv, FirstAnswer
    <3>2. CASE capFirst' = {capModem} /\ supportedMsgChecked' = checkQmiMsgsSupported(capModem)
                 /\ capList' = checkQmiMsgsSupported(capModem)
      <4>1. checkQmiMsgsSupported(capModem) \subseteq CapBits
        BY <1>0, CheckedBits DEF ModemInv
      <4> QED
        BY <3>2, <4>1 DEF StaticInv, ListInv, FirstAnswer
    <3>3. CASE ~isCheckedAlready /\ capList' = {} /\ capAnswered' = FALSE /\ UNCHANGED CapStatic
      BY <1>0, <3>3 DEF CapStatic, StaticInv, ListInv, FirstAnswer
    <3> QED
      BY <3>1, <3>2, <3>3
  <2> QED
    BY <2>1, <2>3, <2>5, <2>9 DEF CapInv
<1>6. CASE QueryAon
  <2> USE <1>6 DEF QueryAon
  <2>4. capAt' \in {"closed", "check", "aon"} /\ capOpens' \in 0..CapMaxOpens
    BY <1>0 DEF FlagTypes
  <2>1. FlagTypes'
    BY <1>0, <2>4, Zenon DEF FlagTypes, CapStatic
  <2>2. ModemInv' /\ StaticInv' /\ ListInv'
    BY <1>0 DEF CapStatic, ModemInv, StaticInv, ListInv, FirstAnswer
  <2>3. SavedInv'
    <3>1. /\ capList \in SUBSET CapBits
          /\ capSaved' = capList \/ (LOCATION_BATCHING \in capList /\ capSaved' = capList \cup BatchingBits)
          /\ capAnswered' => capAnswered
      BY <1>0 DEF ListInv, FlagTypes
    <3>2. capAnswered' => FirstAnswer(capList)'
      BY <1>0, <3>1 DEF ListInv, CapStatic, FirstAnswer
    <3> QED
      BY <3>1, <3>2 DEF SavedInv, FirstAnswer, CapStatic
  <2> QED
    BY <2>1, <2>2, <2>3 DEF CapInv
<1>8. CASE CapModemRestart
  <2> USE <1>8 DEF CapModemRestart
  <2>1. FlagTypes'
    BY <1>0, Zenon DEF FlagTypes, CapStatic
  <2>2. ModemInv' /\ StaticInv' /\ ListInv'
    BY <1>0 DEF CapStatic, ModemInv, StaticInv, ListInv, FirstAnswer
  <2>3. SavedInv'
    BY <1>0 DEF CapStatic, SavedInv, FirstAnswer
  <2> QED
    BY <2>1, <2>2, <2>3 DEF CapInv
<1>7. CASE UNCHANGED capVars
  <2> USE <1>7 DEF capVars, CapStatic
  <2>1. FlagTypes'
    BY <1>0 DEF FlagTypes
  <2>2. ModemInv' /\ StaticInv' /\ ListInv'
    BY <1>0 DEF ModemInv, StaticInv, ListInv, FirstAnswer
  <2>3. SavedInv'
    BY <1>0 DEF SavedInv, FirstAnswer
  <2> QED
    BY <2>1, <2>2, <2>3 DEF CapInv
<1> QED
  BY <1>4, <1>5, <1>6, <1>7, <1>8 DEF CapNext

LEMMA CapInvariant == CapSpec => []CapInv
  BY CapInitInv, CapStep, PTL DEF CapSpec

(***************************************************************************)
(* Types: the set of supported messages never has a bit outside the mask   *)
(* it is kept in.                                                          *)
(***************************************************************************)
THEOREM CapTypeCorrect ==
  ASSUME BatchingBits \subseteq Nat, Len(MsgArray) <= ReqArrayMax
  PROVE  CapSpec => []CapTypeOK
<1>1. CapBits \subseteq 0..(ReqArrayMax - 1) /\ CapBits \subseteq Nat
  BY LocCapabilitiesAssumption DEF CapBits
<1>2. CapInv => CapTypeOK
  <2> SUFFICES ASSUME CapInv PROVE CapTypeOK
    OBVIOUS
  <2>1. capSaved \subseteq Nat
    BY <1>1 DEF CapInv, SavedInv
  <2> QED
    BY <1>1, <2>1 DEF CapInv, ModemInv, FlagTypes, StaticInv, ListInv, CapTypeOK
<1> QED
  BY <1>2, CapInvariant, PTL

(***************************************************************************)
(* For any msgArray whose messages lie in bytes of the bitmap no earlier   *)
(* than their indices, and whose bits leave the batching bits alone: an    *)
(* open that was answered saves exactly what the modem that answered first *)
(* supports, whatever failed in earlier opens, however short that modem's  *)
(* bitmap was and whatever modem the service has come back on since.       *)
(***************************************************************************)
THEOREM SupportedIsSaved ==
  ASSUME \A i \in 1..Len(MsgArray) : i - 1 <= CapByte(MsgArray[i]),
         Len(MsgArray) <= ReqArrayMax,
         BatchingBits \subseteq Nat \ (0..(Len(MsgArray) - 1))
  PROVE  CapSpec => []SavedIsFirstAnswer
<1>0. BytesFit /\ BitsFit
  BY DEF BytesFit, BitsFit, CapBits
<1>1. CapInv => SavedIsFirstAnswer
  <2> SUFFICES ASSUME CapInv, capAt = "closed", capOpens > 0, capAnswered
               PROVE  \E m \in capFirst : m.valid =>
                        \A i \in 1..Len(MsgArray) : i - 1 \in capSaved <=> MsgArray[i] \in m.messages
    BY DEF SavedIsFirstAnswer
  <2>1. PICK list \in SUBSET CapBits :
          /\ capSaved = list \/ (LOCATION_BATCHING \in list /\ capSaved = list \cup BatchingBits)
          /\ capAt = "closed" /\ capOpens > 0 /\ capAnswered => FirstAnswer(list)
    BY DEF CapInv, SavedInv
  <2>2. \A b \in BatchingBits : b \notin CapBits
    BY <1>0 DEF BitsFit
  <2>3. \A i \in 1..Len(MsgArray) : i - 1 \in CapBits
    BY LocCapabilitiesAssumption DEF CapBits
  <2>4. \A i \in 1..Len(MsgArray) : i - 1 \in capSaved <=> i - 1 \in list
    BY <2>1, <2>2, <2>3
  <2>5. PICK m \in capFirst : list = checkQmiMsgsSupported(m)
    BY <2>1 DEF FirstAnswer
  <2>6. m \in CapModems
    BY DEF CapInv, ModemInv
  <2>7. m.valid =>
          \A i \in 1..Len(MsgArray) : i - 1 \in checkQmiMsgsSupported(m) <=> MsgArray[i] \in m.messages
    BY <1>0, <2>6, CheckedIsSupported
  <2> QED
    BY <2>4, <2>5, <2>7
<1> QED
  BY <1>1, CapInvariant, PTL
-----------------------------------------------------------------------------
(***************************************************************************)
(* The masks of LocSession, the events the modem is asked for, and what a  *)
(* running session gets.                                                   *)
(***************************************************************************)
Msgs == {"on", "off", "reinit"}

\* The two copies of the mask, also while there is no client.
MaskInv ==
  /\ mMask \cap mExcludedMask = {}
  /\ clientHandle => mQmiMask = convertMask(mMask)

\* While the service has not gone down nobody asks for a re-initialisation.
Quiet(s) == \A i \in 1..Len(s) : s[i] # "reinit"
QueueInv == env.downs = 0 => Quiet(msgs) /\ Quiet(inds) /\ task # "reopen"

\* A session whose requests were obeyed has a client, and all its events.
SessionInv ==
  trouble = {} /\ env.downs = 0 /\ mInSession => clientHandle /\ registered = mQmiMask

IInv == TypeOK /\ MaskInv /\ RegisteredIsWanted /\ QueueInv /\ SessionInv
-----------------------------------------------------------------------------
\* What the conversion of a mask and the mask outside a session return.
LEMMA ConvertType == \A mask \in SUBSET Bits : convertMask(mask) \subseteq Events
  BY LocSessionAssumption DEF convertMask

LEMMA AskedWanted ==
  \A q \in SUBSET Events, s \in BOOLEAN : Asked(q, s) \subseteq q /\ (s => Asked(q, s) = q)
  BY DEF Asked, adjustMaskForNoSession

\* The queues: a message is taken from the front or put at the end.
LEMMA Queues ==
  \A s \in Seq(Msgs) :
    /\ \A m \in Msgs : Append(s, m) \in Seq(Msgs) /\ (Quiet(s) /\ m # "reinit" => Quiet(Append(s, m)))
    /\ s # <<>> => Tail(s) \in Seq(Msgs) /\ Head(s) \in Msgs
    /\ s # <<>> /\ Quiet(s) => Quiet(Tail(s)) /\ Head(s) # "reinit"
    /\ <<>> \in Seq(Msgs) /\ Quiet(<<>>)
<1> SUFFICES ASSUME NEW s \in Seq(Msgs) PROVE
    /\ \A m \in Msgs : Append(s, m) \in Seq(Msgs) /\ (Quiet(s) /\ m # "reinit" => Quiet(Append(s, m)))
    /\ s # <<>> => Tail(s) \in Seq(Msgs) /\ Head(s) \in Msgs
    /\ s # <<>> /\ Quiet(s) => Quiet(Tail(s)) /\ Head(s) # "reinit"
    /\ <<>> \in Seq(Msgs) /\ Quiet(<<>>)
  OBVIOUS
<1>1. \A m \in Msgs : Append(s, m) \in Seq(Msgs) /\ (Quiet(s) /\ m # "reinit" => Quiet(Append(s, m)))
  BY DEF Quiet
<1>2. s # <<>> => Tail(s) \in Seq(Msgs) /\ Head(s) \in Msgs
  OBVIOUS
<1>3. s # <<>> /\ Quiet(s) => Quiet(Tail(s)) /\ Head(s) # "reinit"
  BY DEF Quiet
<1>4. <<>> \in Seq(Msgs) /\ Quiet(<<>>)
  BY DEF Quiet
<1> QED
  BY <1>1, <1>2, <1>3, <1>4

\* What a registration, obeyed or not, does to the modem.
LEMMA Registering ==
  ASSUME TypeOK, NEW q \in SUBSET Events, NEW s \in BOOLEAN, NEW ok \in BOOLEAN,
         registerEventMask(q, s, ok)
  PROVE  /\ registered' \subseteq Events /\ trouble' \subseteq {"refused", "lost"}
         /\ trouble' = {} => trouble = {} /\ ok /\ clientHandle /\ registered' = Asked(q, s)
         /\ "lost" \notin trouble' =>
              /\ "lost" \notin trouble
              /\ registered' = registered \/ (clientHandle /\ registered' = Asked(q, s))
         /\ ok => clientHandle /\ registered' = Asked(q, s) /\ trouble' = trouble
         /\ ~ok /\ "lost" \notin trouble' => registered' = registered
<1>1. Asked(q, s) \subseteq Events
  BY AskedWanted
<1> QED
  BY <1>1 DEF registerEventMask, TypeOK, CanAnswer

\* open, in whatever state of the client: it keeps the two copies of the mask
\* together and registers no more than they say.
LEMMA Opening ==
  ASSUME IInv, NEW mask \in SUBSET Bits, NEW ok \in BOOLEAN, open(mask, ok),
         UNCHANGED mInSession
  PROVE  /\ clientHandle' \in BOOLEAN /\ service' \in BOOLEAN
         /\ mMask' \subseteq Bits /\ mQmiMask' \subseteq Events
         /\ registered' \subseteq Events /\ trouble' \subseteq {"refused", "lost"}
         /\ mGnssMeasurementSupported' \in {"unknown", "yes", "no"}
         /\ MaskInv' /\ RegisteredIsWanted'
         /\ trouble' = {} /\ env.downs = 0 /\ mInSession => clientHandle' /\ registered' = mQmiMask'
<1> DEFINE new == NewMask(mask)
<1>1. new \subseteq Bits /\ new \cap mExcludedMask = {}
  BY DEF NewMask, IInv, MaskInv, TypeOK
<1>2. convertMask(new) \subseteq Events
  BY <1>1, ConvertType
<1>3. adjustMaskForNoSession(convertMask(new)) \subseteq convertMask(new)
  BY DEF adjustMaskForNoSession
<1>4. convertMask({}) = {}
  BY DEF convertMask
<1>5. mGnssMeasurementSupported' \in {"unknown", "yes", "no"}
  BY DEF open, cacheGnssMeasurementSupport, IInv, TypeOK
<1> HIDE DEF new
<1>6. CASE ~clientHandle /\ OpenClient(new, ok)
  <2>1. /\ clientHandle' \in BOOLEAN /\ service' \in BOOLEAN
        /\ mMask' \subseteq Bits /\ mQmiMask' \subseteq Events
        /\ registered' \subseteq Events /\ trouble' \subseteq {"refused", "lost"}
    BY <1>1, <1>2, <1>3, <1>6 DEF OpenClient, IInv, TypeOK
  <2>2. MaskInv' /\ RegisteredIsWanted'
    BY <1>1, <1>3, <1>4, <1>6 DEF OpenClient, MaskInv, RegisteredIsWanted
  <2>3. ~(trouble' = {} /\ env.downs = 0 /\ mInSession)
    BY <1>6 DEF OpenClient, IInv, SessionInv
  <2> QED
    BY <1>5, <2>1, <2>2, <2>3
<1>7. CASE clientHandle /\ OpenUpdate(new, ok)
  <2>1. registerEventMask(convertMask(new), mInSession, ok) /\ mInSession \in BOOLEAN
    BY <1>7 DEF OpenUpdate, IInv, TypeOK
  <2> DEFINE asked == Asked(convertMask(new), mInSession)
  <2>2. asked \subseteq convertMask(new) /\ (mInSession => asked = convertMask(new))
    BY <1>2, <2>1, AskedWanted
  <2>3. /\ registered' \subseteq Events /\ trouble' \subseteq {"refused", "lost"}
        /\ trouble' = {} => trouble = {} /\ ok /\ registered' = asked
        /\ "lost" \notin trouble' => "lost" \notin trouble
        /\ ok => registered' = asked
        /\ ~ok /\ "lost" \notin trouble' => registered' = registered
    BY <1>2, <2>1, Registering DEF IInv
  <2> HIDE DEF asked
  <2>4. /\ clientHandle' = clientHandle /\ service' = service
        /\ ok => mMask' = new /\ mQmiMask' = convertMask(new)
        /\ ~ok => mMask' = mMask /\ mQmiMask' = mQmiMask
    BY <1>7 DEF OpenUpdate
  <2>5. /\ clientHandle' \in BOOLEAN /\ service' \in BOOLEAN
        /\ mMask' \subseteq Bits /\ mQmiMask' \subseteq Events
    BY <1>1, <1>2, <2>4 DEF IInv, TypeOK
  <2>6. MaskInv'
    <3>1. CASE ok
      BY <1>1, <2>4, <3>1 DEF MaskInv
    <3>2. CASE ~ok
      BY <2>4, <3>2 DEF IInv, MaskInv
    <3> QED
      BY <3>1, <3>2
  <2>7. RegisteredIsWanted'
    <3>1. CASE ok
      BY <1>7, <2>2, <2>3, <2>4, <3>1 DEF RegisteredIsWanted
    <3>2. CASE ~ok
      BY <1>7, <2>3, <2>4, <3>2 DEF IInv, RegisteredIsWanted
    <3> QED
      BY <3>1, <3>2
  <2>8. trouble' = {} /\ env.downs = 0 /\ mInSession => clientHandle' /\ registered' = mQmiMask'
    BY <1>7, <2>2, <2>3, <2>4
  <2> QED
    BY <1>5, <2>3, <2>5, <2>6, <2>7, <2>8
<1>8. CASE UNCHANGED <<clientHandle, service, mMask, mQmiMask, registered, trouble>>
  BY <1>5, <1>8 DEF IInv, TypeOK, MaskInv, RegisteredIsWanted, SessionInv
<1> QED
  BY <1>6, <1>7, <1>8 DEF open, new
-----------------------------------------------------------------------------
LEMMA SessionInit == Init => IInv
<1> SUFFICES ASSUME Init PROVE IInv
  OBVIOUS
<1>1. /\ 0 \in 0..MaxStarts /\ 0 \in 0..MaxToggles /\ 0 \in 0..MaxDowns /\ 0 \in 0..MaxOpens
  BY LocSessionAssumption
<1>2. env \in [starts : 0..MaxStarts, toggles : 0..MaxToggles,
               downs : 0..MaxDowns, opens : 0..MaxOpens, haste : BOOLEAN]
  BY <1>1 DEF Init
<1>3. TypeOK
  <2>1. msgs \in Seq({"on", "off", "reinit"}) /\ inds \in Seq({"on", "off", "reinit"})
    BY DEF Init
  <2>2. /\ clientHandle \in BOOLEAN /\ mInSession \in BOOLEAN /\ mEngineOn \in BOOLEAN
        /\ service \in BOOLEAN /\ fix \in BOOLEAN /\ engine \in BOOLEAN
    BY DEF Init
  <2>3. /\ mMask \subseteq Bits /\ mQmiMask \subseteq Events
        /\ mGnssMeasurementSupported \in {"unknown", "yes", "no"}
        /\ task \in {"idle", "mode", "start", "stop", "reopen"}
        /\ status \in {"NONE", "ENGINE_ON", "ENGINE_OFF"}
        /\ trouble \subseteq {"refused", "lost"} /\ registered \subseteq Events
    BY DEF Init
  <2> QED
    BY <1>2, <2>1, <2>2, <2>3 DEF TypeOK
<1>4. MaskInv /\ RegisteredIsWanted /\ SessionInv
  BY DEF Init, MaskInv, RegisteredIsWanted, SessionInv
<1>5. QueueInv
  BY DEF Init, QueueInv, Quiet
<1> QED
  BY <1>3, <1>4, <1>5 DEF IInv

\* What the environment did is counted within its bounds.
LEMMA CountType ==
  ASSUME TypeOK,
         NEW s \in {0, 1}, NEW t \in {0, 1}, NEW d \in {0, 1}, NEW o \in {0, 1}, NEW hasty \in BOOLEAN,
         s = 1 => env.starts < MaxStarts, t = 1 => env.toggles < MaxToggles,
         d = 1 => env.downs < MaxDowns, o = 1 => env.opens < MaxOpens,
         Count(s, t, d, o, hasty)
  PROVE  /\ env' \in [starts : 0..MaxStarts, toggles : 0..MaxToggles,
                      downs : 0..MaxDowns, opens : 0..MaxOpens, haste : BOOLEAN]
         /\ d = 0 => env'.downs = env.downs
         /\ d = 1 => env'.downs # 0
<1>1. /\ env.starts \in 0..MaxStarts /\ env.toggles \in 0..MaxToggles
      /\ env.downs \in 0..MaxDowns /\ env.opens \in 0..MaxOpens /\ env.haste \in BOOLEAN
  BY DEF TypeOK
<1>2. /\ env.starts + s \in 0..MaxStarts /\ env.toggles + t \in 0..MaxToggles
      /\ env.downs + d \in 0..MaxDowns /\ env.opens + o \in 0..MaxOpens
      /\ d = 0 => env.downs + d = env.downs
      /\ d = 1 => env.downs + d # 0
  BY <1>1, LocSessionAssumption
<1> DEFINE starts == env.starts + s  toggles == env.toggles + t
           downs == env.downs + d  opens == env.opens + o  haste == env.haste \/ hasty
<1>3. haste \in BOOLEAN
  OBVIOUS
<1>4. env' = [starts |-> starts, toggles |-> toggles, downs |-> downs, opens |-> opens,
              haste |-> haste]
  BY DEF Count
<1>5. /\ starts \in 0..MaxStarts /\ toggles \in 0..MaxToggles
      /\ downs \in 0..MaxDowns /\ opens \in 0..MaxOpens
      /\ d = 0 => downs = env.downs
      /\ d = 1 => downs # 0
  BY <1>2
<1> HIDE DEF starts, toggles, downs, opens, haste
<1> QED
  BY <1>3, <1>4, <1>5

EnvOK(d) ==
  /\ env' \in [starts : 0..MaxStarts, toggles : 0..MaxToggles,
               downs : 0..MaxDowns, opens : 0..MaxOpens, haste : BOOLEAN]
  /\ IF d = 0 THEN env'.downs = env.downs ELSE env'.downs # 0

\* The same for each kind of step.
LEMMA Counting ==
  ASSUME TypeOK, NEW hasty \in BOOLEAN
  PROVE  /\ Count(1, 0, 0, 0, hasty) /\ env.starts < MaxStarts => EnvOK(0)
         /\ Count(0, 1, 0, 0, hasty) /\ env.toggles < MaxToggles => EnvOK(0)
         /\ Count(0, 0, 1, 0, hasty) /\ env.downs < MaxDowns => EnvOK(1)
         /\ Count(0, 0, 0, 1, hasty) /\ env.opens < MaxOpens => EnvOK(0)
         /\ Count(0, 0, 0, 0, hasty) => EnvOK(0)
<1>1. Count(1, 0, 0, 0, hasty) /\ env.starts < MaxStarts => EnvOK(0)
  BY CountType DEF EnvOK
<1>2. Count(0, 1, 0, 0, hasty) /\ env.toggles < MaxToggles => EnvOK(0)
  BY CountType DEF EnvOK
<1>3. Count(0, 0, 1, 0, hasty) /\ env.downs < MaxDowns => EnvOK(1)
  BY CountType DEF EnvOK
<1>4. Count(0, 0, 0, 1, hasty) /\ env.opens < MaxOpens => EnvOK(0)
  BY CountType DEF EnvOK
<1>5. Count(0, 0, 0, 0, hasty) => EnvOK(0)
  BY CountType DEF EnvOK
<1> QED
  BY <1>1, <1>2, <1>3, <1>4, <1>5

LEMMA SettledType == Settled \in BOOLEAN /\ (~Settled) \in BOOLEAN
  BY DEF Settled

LEMMA SessionStep == IInv /\ [Next]_vars => IInv'
<1> SUFFICES ASSUME IInv, [Next]_vars PROVE IInv'
  OBVIOUS
<1> USE DEF IInv
<1>t. TypeOK /\ MaskInv /\ RegisteredIsWanted /\ QueueInv /\ SessionInv
  OBVIOUS
<1> DEFINE Opened ==
      /\ clientHandle' \in BOOLEAN /\ service' \in BOOLEAN
      /\ mMask' \subseteq Bits /\ mQmiMask' \subseteq Events
      /\ registered' \subseteq Events /\ trouble' \subseteq {"refused", "lost"}
      /\ mGnssMeasurementSupported' \in {"unknown", "yes", "no"}
      /\ MaskInv' /\ RegisteredIsWanted'
      /\ trouble' = {} /\ env.downs = 0 /\ mInSession => clientHandle' /\ registered' = mQmiMask'
<1>open. ASSUME Opened, UNCHANGED <<mInSession, mEngineOn, status, fix, engine, msgs, inds>>,
                task' = task \/ task' = "idle",
                EnvOK(0)
         PROVE IInv'
  <2>1. TypeOK'
    BY <1>open DEF TypeOK, EnvOK
  <2>2. QueueInv'
    BY <1>open DEF QueueInv, EnvOK
  <2>3. SessionInv'
    BY <1>open DEF SessionInv, EnvOK
  <2> QED
    BY <1>open, <2>1, <2>2, <2>3
<1>1. CASE Open
  <2>1. PICK mask \in Masks, ok \in BOOLEAN : open(mask, ok)
    BY <1>1 DEF Open
  <2>2. mask \in SUBSET Bits
    BY LocSessionAssumption
  <2>3. UNCHANGED <<mInSession, mEngineOn, task, msgs, status, fix, engine, inds>>
        /\ Count(0, 0, 0, 1, ~Settled) /\ env.opens < MaxOpens
    BY <1>1 DEF Open
  <2>4. Opened
    BY <2>1, <2>2, <2>3, Opening
  <2>5. EnvOK(0)
    BY <2>3, Counting, SettledType, Zenon
  <2> QED
    BY <1>open, <2>3, <2>4, <2>5
<1>2. ASSUME NEW e \in Bits, NEW enabled \in BOOLEAN, updateRegistrationMask(e, enabled) PROVE IInv'
  <2> DEFINE mask == IF enabled THEN mMask \cup {e} ELSE mMask \ {e}
  <2>1. PICK ok \in BOOLEAN : open(mask, ok)
    BY <1>2 DEF updateRegistrationMask
  <2>2. mask \in SUBSET Bits
    BY DEF TypeOK
  <2> HIDE DEF mask
  <2>3. UNCHANGED <<mInSession, mEngineOn, task, msgs, status, fix, engine, inds>>
        /\ Count(0, 0, 0, 1, ~Settled) /\ env.opens < MaxOpens
    BY <1>2 DEF updateRegistrationMask
  <2>4. Opened
    BY <2>1, <2>2, <2>3, Opening
  <2>5. EnvOK(0)
    BY <2>3, Counting, SettledType, Zenon
  <2> QED
    BY <1>open, <2>3, <2>4, <2>5
<1>3. CASE ProcReopen
  <2>1. PICK mask \in Masks, ok \in BOOLEAN : open(mask, ok)
    BY <1>3 DEF ProcReopen
  <2>2. mask \in SUBSET Bits
    BY LocSessionAssumption
  <2>3. UNCHANGED <<mInSession, mEngineOn, msgs, status, fix, engine, inds, env>> /\ task' = "idle"
    BY <1>3 DEF ProcReopen
  <2>4. Opened
    BY <2>1, <2>2, <2>3, Opening
  <2>5. EnvOK(0)
    BY <2>3 DEF TypeOK, EnvOK
  <2> QED
    BY <1>open, <2>3, <2>4, <2>5
<1>4. CASE StartFix
  <2>1. PICK ok \in BOOLEAN : registerEventMask(mQmiMask, TRUE, ok)
    BY <1>4 DEF StartFix
  <2>2. mQmiMask \in SUBSET Events /\ TRUE \in BOOLEAN
    BY DEF TypeOK
  <2>3. Asked(mQmiMask, TRUE) = mQmiMask
    BY <2>2, AskedWanted
  <2>4. /\ registered' \subseteq Events /\ trouble' \subseteq {"refused", "lost"}
        /\ trouble' = {} => clientHandle /\ registered' = mQmiMask
        /\ "lost" \notin trouble' =>
             "lost" \notin trouble /\ (registered' = registered \/ (clientHandle /\ registered' = mQmiMask))
    BY <2>1, <2>2, <2>3, Registering
  <2>5. Count(1, 0, 0, 0, FALSE) /\ env.starts < MaxStarts
    BY <1>4 DEF StartFix
  <2>6. EnvOK(0)
    BY <2>5, Counting, Zenon
  <2>7. /\ mInSession' = TRUE /\ task' = "mode"
        /\ UNCHANGED <<clientHandle, mMask, mQmiMask, mEngineOn, mGnssMeasurementSupported,
                       msgs, status, service, fix, engine, inds>>
    BY <1>4 DEF StartFix
  <2>8. TypeOK'
    BY <2>4, <2>6, <2>7 DEF TypeOK, EnvOK
  <2>9. MaskInv' /\ RegisteredIsWanted'
    BY <2>4, <2>7 DEF MaskInv, RegisteredIsWanted
  <2>10. QueueInv' /\ SessionInv'
    BY <2>4, <2>6, <2>7 DEF QueueInv, SessionInv, EnvOK
  <2> QED
    BY <2>8, <2>9, <2>10
<1>5. CASE SetOperationMode \/ SendStart
  <2>1. /\ UNCHANGED <<clientHandle, mMask, mQmiMask, mInSession, mEngineOn, mGnssMeasurementSupported,
                       msgs, status, registered, service, engine, inds, trouble, env>>
        /\ task' \in {"start", "idle"} /\ fix' \in BOOLEAN
    BY <1>5 DEF SetOperationMode, SendStart, api, modem, TypeOK
  <2> QED
    BY <2>1 DEF TypeOK, MaskInv, RegisteredIsWanted, QueueInv, SessionInv
<1>6. CASE StopFix
  <2>1. /\ UNCHANGED <<clientHandle, mMask, mQmiMask, mInSession, mEngineOn, mGnssMeasurementSupported,
                       msgs, status, registered, service, engine, inds>>
        /\ task' = "stop" /\ fix' \in BOOLEAN
        /\ trouble' = trouble \/ trouble' = trouble \cup {"refused"}
    BY <1>6 DEF StopFix, api, TypeOK
  <2>2. Count(0, 0, 0, 0, ~Settled)
    BY <1>6 DEF StopFix
  <2>3. EnvOK(0)
    BY <2>2, Counting, SettledType, Zenon
  <2>4. TypeOK'
    BY <2>1, <2>3 DEF TypeOK, EnvOK
  <2> QED
    BY <2>1, <2>3, <2>4 DEF MaskInv, RegisteredIsWanted, QueueInv, SessionInv, EnvOK
<1>dereg. ASSUME NEW s \in BOOLEAN, NEW ok \in BOOLEAN, registerEventMask(mQmiMask, s, ok)
          PROVE /\ registered' \subseteq Events /\ trouble' \subseteq {"refused", "lost"}
                /\ "lost" \notin trouble' =>
                     /\ "lost" \notin trouble
                     /\ registered' = registered \/ (clientHandle /\ registered' \subseteq mQmiMask)
  <2>1. mQmiMask \in SUBSET Events
    BY DEF TypeOK
  <2>2. Asked(mQmiMask, s) \subseteq mQmiMask
    BY <2>1, AskedWanted
  <2> QED
    BY <1>dereg, <2>1, <2>2, Registering
<1>7. CASE StopFixEnd
  <2>1. /\ UNCHANGED <<clientHandle, mMask, mQmiMask, mEngineOn, mGnssMeasurementSupported,
                       msgs, status, service, fix, engine, inds, env>>
        /\ task' = "idle" /\ mInSession' = FALSE
    BY <1>7 DEF StopFixEnd
  <2>2. UNCHANGED <<registered, trouble>> \/ \E ok \in BOOLEAN : registerEventMask(mQmiMask, FALSE, ok)
    BY <1>7 DEF StopFixEnd
  <2>3. /\ registered' \subseteq Events /\ trouble' \subseteq {"refused", "lost"}
        /\ "lost" \notin trouble' =>
             /\ "lost" \notin trouble
             /\ registered' = registered \/ (clientHandle /\ registered' \subseteq mQmiMask)
    BY <1>dereg, <2>2 DEF TypeOK
  <2>4. TypeOK'
    BY <2>1, <2>3 DEF TypeOK
  <2>5. MaskInv' /\ RegisteredIsWanted'
    BY <2>1, <2>3 DEF MaskInv, RegisteredIsWanted
  <2> QED
    BY <2>1, <2>4, <2>5 DEF QueueInv, SessionInv
<1>8. CASE ProcEngineState
  <2>1. /\ UNCHANGED <<clientHandle, mMask, mQmiMask, mInSession, mGnssMeasurementSupported,
                       task, service, fix, engine, inds, env>>
        /\ msgs # <<>> /\ msgs' = Tail(msgs)
        /\ mEngineOn' \in BOOLEAN /\ status' \in {"NONE", "ENGINE_ON", "ENGINE_OFF"}
    BY <1>8 DEF ProcEngineState, TypeOK
  <2>2. \/ UNCHANGED <<registered, trouble>>
        \/ ~mInSession /\ \E ok \in BOOLEAN : registerEventMask(mQmiMask, mInSession, ok)
    BY <1>8 DEF ProcEngineState, LateDeregister
  <2>3. /\ registered' \subseteq Events /\ trouble' \subseteq {"refused", "lost"}
        /\ "lost" \notin trouble' =>
             /\ "lost" \notin trouble
             /\ registered' = registered \/ (clientHandle /\ registered' \subseteq mQmiMask)
    BY <1>dereg, <2>2 DEF TypeOK
  <2>4. msgs' \in Seq(Msgs) /\ (Quiet(msgs) => Quiet(msgs'))
    BY <2>1, Queues DEF TypeOK, Msgs
  <2>5. TypeOK'
    BY <2>1, <2>3, <2>4 DEF TypeOK, Msgs
  <2>6. MaskInv' /\ RegisteredIsWanted'
    BY <2>1, <2>3 DEF MaskInv, RegisteredIsWanted
  <2>7. QueueInv'
    BY <2>1, <2>4 DEF QueueInv
  <2>8. SessionInv'
    BY <2>1, <2>2 DEF SessionInv
  <2> QED
    BY <2>5, <2>6, <2>7, <2>8
<1>9. CASE ProcReinit
  <2>1. /\ UNCHANGED <<mQmiMask, mInSession, mEngineOn, mGnssMeasurementSupported,
                       status, fix, engine, trouble, env>>
        /\ mMask' = {} /\ clientHandle' = FALSE /\ registered' = {} /\ service' = FALSE
        /\ task' = "reopen" /\ msgs' = Tail(msgs) /\ inds' = <<>>
        /\ msgs # <<>> /\ Head(msgs) = "reinit"
    BY <1>9 DEF ProcReinit, close
  <2>2. msgs' \in Seq(Msgs) /\ inds' \in Seq(Msgs) /\ ~Quiet(msgs)
    BY <2>1, Queues DEF TypeOK, Msgs
  <2>3. TypeOK'
    BY <2>1, <2>2 DEF TypeOK, Msgs
  <2>4. MaskInv' /\ RegisteredIsWanted'
    BY <2>1 DEF MaskInv, RegisteredIsWanted
  <2>5. QueueInv' /\ SessionInv'
    BY <2>1, <2>2 DEF QueueInv, SessionInv
  <2> QED
    BY <2>3, <2>4, <2>5
<1>10. CASE Deliver
  <2>1. /\ UNCHANGED <<clientHandle, mMask, mQmiMask, mInSession, mEngineOn, mGnssMeasurementSupported,
                       task, status, registered, service, fix, engine, trouble, env>>
        /\ inds # <<>> /\ msgs' = Append(msgs, Head(inds)) /\ inds' = Tail(inds)
    BY <1>10 DEF Deliver, api
  <2>2. /\ msgs' \in Seq(Msgs) /\ inds' \in Seq(Msgs)
        /\ Quiet(msgs) /\ Quiet(inds) => Quiet(msgs') /\ Quiet(inds')
    BY <2>1, Queues DEF TypeOK, Msgs
  <2>3. TypeOK'
    BY <2>1, <2>2 DEF TypeOK, Msgs
  <2> QED
    BY <2>1, <2>2, <2>3 DEF MaskInv, RegisteredIsWanted, QueueInv, SessionInv
<1>11. CASE EngineOn \/ EngineOff
  <2>1. /\ UNCHANGED <<clientHandle, mMask, mQmiMask, mInSession, mEngineOn, mGnssMeasurementSupported,
                       task, msgs, status, registered, service, fix, trouble>>
        /\ engine' \in BOOLEAN
        /\ inds' = inds \/ inds' = Append(inds, "on") \/ inds' = Append(inds, "off")
    BY <1>11 DEF EngineOn, EngineOff, Indicate, api
  <2>2. inds' \in Seq(Msgs) /\ (Quiet(inds) => Quiet(inds'))
    <3>1. inds \in Seq(Msgs) /\ "on" \in Msgs /\ "off" \in Msgs
      BY DEF TypeOK, Msgs
    <3> QED
      BY <2>1, <3>1, Queues
  <2>3. env' = env \/ (Count(0, 1, 0, 0, FALSE) /\ env.toggles < MaxToggles)
    BY <1>11 DEF EngineOn, EngineOff
  <2>4. EnvOK(0)
    <3>1. CASE env' = env
      BY <3>1 DEF TypeOK, EnvOK
    <3>2. CASE Count(0, 1, 0, 0, FALSE) /\ env.toggles < MaxToggles
      BY <3>2, Counting, Zenon
    <3> QED
      BY <2>3, <3>1, <3>2
  <2>5. TypeOK'
    BY <2>1, <2>2, <2>4 DEF TypeOK, Msgs, EnvOK
  <2> QED
    BY <2>1, <2>2, <2>4, <2>5 DEF MaskInv, RegisteredIsWanted, QueueInv, SessionInv, EnvOK
<1>12. CASE ServiceDown
  <2>1. /\ UNCHANGED <<clientHandle, mMask, mQmiMask, mInSession, mEngineOn, mGnssMeasurementSupported,
                       task, msgs, status, trouble>>
        /\ service' = FALSE /\ registered' = {} /\ fix' = FALSE /\ engine' = FALSE
        /\ inds' = Append(inds, "reinit")
    BY <1>12 DEF ServiceDown, api
  <2>2. inds' \in Seq(Msgs)
    BY <2>1, Queues DEF TypeOK, Msgs
  <2>3. Count(0, 0, 1, 0, FALSE) /\ env.downs < MaxDowns
    BY <1>12 DEF ServiceDown
  <2>4. EnvOK(1)
    BY <2>3, Counting, Zenon
  <2>5. TypeOK'
    BY <2>1, <2>2, <2>4 DEF TypeOK, Msgs, EnvOK
  <2> QED
    BY <2>1, <2>4, <2>5 DEF MaskInv, RegisteredIsWanted, QueueInv, SessionInv, EnvOK
<1>13. CASE UNCHANGED vars
  BY <1>13 DEF vars, TypeOK, MaskInv, RegisteredIsWanted, QueueInv, SessionInv
<1> QED
  BY <1>1, <1>2, <1>3, <1>4, <1>5, <1>6, <1>7, <1>8, <1>9, <1>10, <1>11, <1>12, <1>13
  DEF Next, MsgTask, Adapter

LEMMA Invariant == Spec => []IInv
  BY SessionInit, SessionStep, PTL DEF Spec

(***************************************************************************)
(* Every variable of LocSession keeps its type.                            *)
(***************************************************************************)
THEOREM TypeCorrect == Spec => []TypeOK
<1>1. IInv => TypeOK
  BY DEF IInv
<1> QED
  BY <1>1, Invariant, PTL

(***************************************************************************)
(* The adapters' mask and its conversion agree, across failed updates,     *)
(* lost answers, failed opens and re-initialisations.                      *)
(***************************************************************************)
THEOREM MasksCorrect == Spec => []MasksAgree
<1>1. IInv => MasksAgree
  BY DEF IInv, MaskInv, MasksAgree
<1> QED
  BY <1>1, Invariant, PTL

(***************************************************************************)
(* Unless an answer was lost, the modem is never asked for an event that   *)
(* no enabled bit wants, and a closed client has none registered.          *)
(***************************************************************************)
THEOREM NothingUnwanted == Spec => []RegisteredIsWanted
<1>1. IInv => RegisteredIsWanted
  BY DEF IInv
<1> QED
  BY <1>1, Invariant, PTL

(***************************************************************************)
(* As long as the service lives and obeys, neither mask updates nor late   *)
(* engine-state messages take events from a running session.               *)
(***************************************************************************)
THEOREM SessionKeepsEvents == Spec => []SessionGetsEvents
<1>1. IInv => SessionGetsEvents
  BY DEF IInv, SessionInv, SessionGetsEvents
<1> QED
  BY <1>1, Invariant, PTL
=============================================================================
