--------------------------- MODULE LocCapabilities ---------------------------
(***************************************************************************)
(* What LocApiV02::open finds out about the modem: which QMI_LOC messages  *)
(* it supports (locClientSupportMsgCheck, asked once per process) and      *)
(* which kinds of batching (QMI_LOC_QUERY_AON_CONFIG, asked on every       *)
(* open).  A bit mask is the set of its bit numbers.                       *)
(***************************************************************************)
EXTENDS Integers, Sequences

CONSTANTS
  MsgArray,     \* msgArray of LocApiV02::open: message IDs
  CapLengths,   \* the bitmap lengths, in bytes, a modem may answer with
  ReqArrayMax,  \* bits of the result of checkQmiMsgsSupported
  LOCATION_BATCHING, \* the bit of MsgArray's first message, and three more
  ADAPTIVE_LOCATION_BATCHING, DISTANCE_BASE_LOCATION_BATCHING, UPDATE_TBF_ON_THE_FLY,
  CapFails,     \* may a request fail?
  CapMaxOpens   \* bound on the calls of open

ASSUME LocCapabilitiesAssumption ==
  /\ MsgArray \in Seq(Nat) /\ CapLengths \subseteq Nat /\ ReqArrayMax \in Nat
  /\ LOCATION_BATCHING \in Nat /\ CapFails \in BOOLEAN /\ CapMaxOpens \in Nat

CapMessages == {MsgArray[i] : i \in 1..Len(MsgArray)}

CapByte(id) == id \div 8

\* A modem's answer: the length of its bitmap, supported_msgs_valid, and the
\* messages of msgArray whose bits are set.
CapModems ==
  {m \in [len : CapLengths, valid : BOOLEAN, messages : SUBSET CapMessages] :
     \A id \in m.messages : CapByte(id) < m.len}

VARIABLES
  capModem,      \* the modem the service runs on
  capFirst,      \* the modem that gave the process its first answer, {} before
  isCheckedAlready, supportedMsgChecked, \* statics of locClientSupportMsgCheck
  capList,       \* supportedMsgList of the open that runs
  capSaved,      \* what saveSupportedMsgList was last called with
  capAnswered,   \* was every request of that open answered, or not needed?
  capAt, capOpens

CapStatic == <<isCheckedAlready, supportedMsgChecked, capFirst>>
capVars == <<capModem, CapStatic, capList, capSaved, capAnswered, capAt, capOpens>>

CapInit ==
  /\ capModem \in CapModems /\ capFirst = {}
  /\ isCheckedAlready = FALSE /\ supportedMsgChecked = {}
  /\ capList = {} /\ capSaved = {} /\ capAnswered = FALSE
  /\ capAt = "closed" /\ capOpens = 0
-----------------------------------------------------------------------------
CapLeast(a, b) == IF a < b THEN a ELSE b

\* The loop runs over no more messages than the bitmap has bytes.
checkQmiMsgsSupported(m) ==
  IF ~m.valid THEN {}
  ELSE {i \in 0..(CapLeast(CapLeast(Len(MsgArray), m.len), ReqArrayMax) - 1) :
          m.len > CapByte(MsgArray[i + 1]) /\ MsgArray[i + 1] \in m.messages}

\* Mutant: a modem that did not answer is not asked again.
SupportMsgCheckOnce ==
  /\ capAt = "check"
  /\ isCheckedAlready' = TRUE
  /\ \/ isCheckedAlready /\ capList' = supportedMsgChecked /\ UNCHANGED <<supportedMsgChecked, capFirst, capAnswered>>
     \/ /\ ~isCheckedAlready
        /\ supportedMsgChecked' = checkQmiMsgsSupported(capModem)
        /\ capList' = checkQmiMsgsSupported(capModem)
        /\ capFirst' = {capModem}
        /\ UNCHANGED capAnswered
     \/ /\ ~isCheckedAlready /\ CapFails
        /\ capList' = {} /\ capAnswered' = FALSE /\ UNCHANGED <<supportedMsgChecked, capFirst>>
  /\ capAt' = "aon"
  /\ UNCHANGED <<capModem, capSaved, capOpens>>

locClientSupportMsgCheck ==
  /\ capAt = "check"
  /\ \/ /\ isCheckedAlready
        /\ capList' = supportedMsgChecked
        /\ UNCHANGED <<CapStatic, capAnswered>>
     \/ /\ ~isCheckedAlready
        /\ supportedMsgChecked' = checkQmiMsgsSupported(capModem)
        /\ capList' = checkQmiMsgsSupported(capModem)
        /\ isCheckedAlready' = TRUE /\ capFirst' = {capModem}
        /\ UNCHANGED capAnswered
     \/ /\ ~isCheckedAlready /\ CapFails
        /\ capList' = {} /\ capAnswered' = FALSE
        /\ UNCHANGED CapStatic
  /\ capAt' = "aon"
  /\ UNCHANGED <<capModem, capSaved, capOpens>>

\* LocApiV02::open, once the client is open.
CapOpen ==
  /\ capAt = "closed" /\ capOpens < CapMaxOpens
  /\ capOpens' = capOpens + 1 /\ capAnswered' = TRUE /\ capAt' = "check"
  /\ UNCHANGED <<capModem, CapStatic, capList, capSaved>>

\* The tests are "aonCapability | MASK", true whatever aonCapability is: any
\* valid answer adds all three bits.
BatchingBits ==
  {ADAPTIVE_LOCATION_BATCHING, DISTANCE_BASE_LOCATION_BATCHING, UPDATE_TBF_ON_THE_FLY}

\* QMI_LOC_QUERY_AON_CONFIG when batching is supported, and the list is saved:
\* the answer is valid, not asked for, or not to be had.
QueryAon ==
  /\ capAt = "aon"
  /\ \/ /\ LOCATION_BATCHING \in capList
        /\ capSaved' = capList \cup BatchingBits
        /\ UNCHANGED capAnswered
     \/ LOCATION_BATCHING \notin capList /\ capSaved' = capList /\ UNCHANGED capAnswered
     \/ LOCATION_BATCHING \in capList /\ CapFails /\ capSaved' = capList /\ UNCHANGED capAnswered
  /\ capAt' = "closed"
  /\ UNCHANGED <<capModem, CapStatic, capList, capOpens>>

\* The service goes away and comes back, between two opens, on a modem that
\* answers otherwise (external); the process and its statics live on.
CapModemRestart ==
  /\ capAt = "closed" /\ capOpens > 0
  /\ capModem' \in CapModems
  /\ UNCHANGED <<CapStatic, capList, capSaved, capAnswered, capAt, capOpens>>

CapNext == CapOpen \/ locClientSupportMsgCheck \/ QueryAon \/ CapModemRestart

CapSpec == CapInit /\ [][CapNext]_capVars
-----------------------------------------------------------------------------
CapTypeOK ==
  /\ capModem \in CapModems /\ capFirst \subseteq CapModems
  /\ isCheckedAlready \in BOOLEAN /\ supportedMsgChecked \subseteq 0..(ReqArrayMax - 1)
  /\ capList \subseteq 0..(ReqArrayMax - 1) /\ capSaved \subseteq Nat /\ capAnswered \in BOOLEAN
  /\ capAt \in {"closed", "check", "aon"} /\ capOpens \in 0..CapMaxOpens

(***************************************************************************)
(* "set to true if one client has checked the modem capability": an open   *)
(* that locClientSupportMsgCheck told of success saves bit i of msgArray   *)
(* exactly when the modem that first answered the process supports message *)
(* i: a failed check is made again, an answered one is never made again,   *)
(* also when the modem has changed since, the AON answer disturbs none of  *)
(* these bits, and a bitmap shorter than msgArray loses none.              *)
(***************************************************************************)
SavedIsFirstAnswer ==
  capAt = "closed" /\ capOpens > 0 /\ capAnswered =>
    \E m \in capFirst : m.valid =>
      \A i \in 1..Len(MsgArray) : i - 1 \in capSaved <=> MsgArray[i] \in m.messages

==============================================================================
