----------------------------- MODULE LocSession -----------------------------
(***************************************************************************)
(* LocApiV02.cpp: which events the modem is asked to send, and when.       *)
(* Position, satellite, NMEA, measurement and engine-state events are      *)
(* wanted only during a fix session; startFix registers them, and stopFix, *)
(* or the engine-off message that follows it, takes them back.             *)
(*                                                                         *)
(* Three parties: the MsgTask thread runs the adapters' requests and the   *)
(* queued messages one at a time; the QMI callback thread turns            *)
(* indications into messages; the modem runs on its own.                   *)
(***************************************************************************)
EXTENDS Naturals, Sequences

CONSTANTS
  Bits,          \* LOC_API_ADAPTER_EVENT_MASK_T, as a set of bits
  Events,        \* locClientEventMaskType, as a set of events
  EventsOf,      \* the events that convertMask gives for a bit
  SessionEvents, \* clearMask of adjustMaskForNoSession
  EngineState, Position, \* two of the events
  mExcludedMask, \* of LocApiBase: bits this LocApi may not enable
  Masks,         \* the masks the adapters pass to open
  Fails,         \* may a request to the modem fail?
  LostAcks,      \* may the modem obey a request whose answer is lost?
  MaxStarts, MaxToggles, MaxDowns, MaxOpens \* bounds on the environment

ASSUME LocSessionAssumption ==
  /\ EventsOf \in [Bits -> SUBSET Events] /\ SessionEvents \subseteq Events
  /\ EngineState \in SessionEvents /\ Position \in SessionEvents
  /\ mExcludedMask \subseteq Bits /\ Masks \subseteq SUBSET Bits
  /\ Fails \in BOOLEAN /\ LostAcks \in BOOLEAN
  /\ MaxStarts \in Nat /\ MaxToggles \in Nat /\ MaxDowns \in Nat /\ MaxOpens \in Nat

VARIABLES
  clientHandle, \* is there a valid handle?
  mMask, mQmiMask, mInSession, mEngineOn, mGnssMeasurementSupported,
  task,         \* where MsgTask is inside startFix or stopFix, or "idle"
  msgs,         \* the messages queued to MsgTask
  status,       \* the last engine status reported to the adapters
  registered,   \* the modem: the events it sends, {} for no client
  service,      \* the modem: is the service of our client alive?
  fix, engine,  \* the modem: is a fix session started, is the engine on?
  inds,         \* indications and errors not yet delivered to the callbacks
  trouble,      \* what went wrong so far: a request of the session was
                \* "refused", or obeyed and its answer "lost"
  env           \* what the environment did: counters, and haste (see Settled)

api   == <<clientHandle, mMask, mQmiMask, mInSession, mEngineOn, mGnssMeasurementSupported>>
modem == <<registered, service, fix, engine, inds>>
vars  == <<clientHandle, mMask, mQmiMask, mInSession, mEngineOn, mGnssMeasurementSupported,
           task, msgs, status, registered, service, fix, engine, inds,
           trouble, env>>

convertMask(mask) == UNION {EventsOf[b] : b \in mask}

adjustMaskForNoSession(qmiMask) == qmiMask \ SessionEvents

\* The environment starts, toggles, goes down, opens, and is hasty or not.
Count(s, t, d, o, hasty) ==
  env' = [starts |-> env.starts + s, toggles |-> env.toggles + t, downs |-> env.downs + d,
          opens |-> env.opens + o, haste |-> env.haste \/ hasty]

Init ==     \* the constructor, and a modem that knows no client
  /\ clientHandle = FALSE
  /\ mMask = {} /\ mQmiMask = {}
  /\ mInSession = FALSE /\ mEngineOn = FALSE
  /\ mGnssMeasurementSupported = "unknown"
  /\ task = "idle" /\ msgs = <<>> /\ status = "NONE"
  /\ registered = {} /\ service = FALSE
  /\ fix = FALSE /\ engine = FALSE /\ inds = <<>>
  /\ trouble = {}
  /\ env = [starts |-> 0, toggles |-> 0, downs |-> 0, opens |-> 0, haste |-> FALSE]
-----------------------------------------------------------------------------
(***************************************************************************)
(* Requests to the modem.  A request through an invalid handle, or to a    *)
(* service that went away, fails; another may fail when Fails.             *)
(***************************************************************************)
CanAnswer == clientHandle /\ service
MayFail   == Fails \/ ~CanAnswer

\* registerEventMask: the mask the modem is asked for, which depends on
\* mInSession, and the outcome.
Asked(qmiMask, inSession) ==
  IF inSession THEN qmiMask ELSE adjustMaskForNoSession(qmiMask)

registerEventMask(qmiMask, inSession, ok) ==
  \/ ok /\ CanAnswer /\ registered' = Asked(qmiMask, inSession) /\ UNCHANGED trouble
  \/ ~ok /\ MayFail /\ UNCHANGED registered /\ trouble' = trouble \cup {"refused"}
  \/ /\ ~ok /\ CanAnswer /\ LostAcks
     /\ registered' = Asked(qmiMask, inSession) /\ trouble' = trouble \cup {"lost"}

\* cacheGnssMeasurementSupport asks the modem once, and remembers its answer.
cacheGnssMeasurementSupport ==
  \E answer \in {"yes", "no"} :
    /\ mGnssMeasurementSupported' =
         IF mGnssMeasurementSupported = "unknown" /\ Position \in mQmiMask'
           THEN answer ELSE mGnssMeasurementSupported
    /\ answer = "no" \/ mGnssMeasurementSupported' = "yes"
-----------------------------------------------------------------------------
(***************************************************************************)
(* The MsgTask thread.                                                     *)
(***************************************************************************)
\* open with no handle: locClientOpen connects, registering what may be sent
\* outside a session.
OpenClient(newMask, ok) ==
  /\ ok \/ Fails
  /\ clientHandle' = ok /\ service' = ok
  /\ mMask' = (IF ok THEN newMask ELSE {})
  /\ mQmiMask' = (IF ok THEN convertMask(newMask) ELSE {})
  /\ registered' = (IF ok THEN adjustMaskForNoSession(convertMask(newMask)) ELSE {})
  /\ UNCHANGED trouble

\* Mutants: the new mask is kept although the modem refused it; a mask the
\* modem accepted is forgotten; it is capped as if there were no session.
OpenUpdateAnyway(newMask, ok) ==
  /\ registerEventMask(convertMask(newMask), mInSession, ok)
  /\ mMask' = newMask
  /\ mQmiMask' = (IF ok THEN convertMask(newMask) ELSE mQmiMask)
  /\ UNCHANGED <<clientHandle, service>>

OpenUpdateForgets(newMask, ok) ==
  /\ registerEventMask(convertMask(newMask), mInSession, ok)
  /\ UNCHANGED <<mMask, mQmiMask, clientHandle, service>>

OpenUpdateCapped(newMask, ok) ==
  /\ registerEventMask(convertMask(newMask), FALSE, ok)
  /\ mMask' = (IF ok THEN newMask ELSE mMask)
  /\ mQmiMask' = (IF ok THEN convertMask(newMask) ELSE mQmiMask)
  /\ UNCHANGED <<clientHandle, service>>

\* open with a handle and a new mask.
OpenUpdate(newMask, ok) ==
  /\ registerEventMask(convertMask(newMask), mInSession, ok)
  /\ mMask' = (IF ok THEN newMask ELSE mMask)
  /\ mQmiMask' = (IF ok THEN convertMask(newMask) ELSE mQmiMask)
  /\ UNCHANGED <<clientHandle, service>>

NewMask(mask) == mMask \cup (mask \ mExcludedMask)

open(mask, ok) ==
  /\ \/ ~clientHandle /\ OpenClient(NewMask(mask), ok)
     \/ clientHandle /\ NewMask(mask) # mMask /\ OpenUpdate(NewMask(mask), ok)
     \/ /\ clientHandle /\ NewMask(mask) = mMask /\ ok
        /\ UNCHANGED <<clientHandle, service, mMask, mQmiMask, registered, trouble>>
  /\ IF ok THEN cacheGnssMeasurementSupport ELSE UNCHANGED mGnssMeasurementSupported

\* An adapter is hasty when it changes masks or stops a fix while an
\* engine-state change is on its way, or after a stop until the engine is off.
Settled == inds = <<>> /\ msgs = <<>> /\ (mEngineOn => mInSession)

Open ==
  /\ task = "idle" /\ env.opens < MaxOpens
  /\ Count(0, 0, 0, 1, ~Settled)
  /\ \E mask \in Masks, ok \in BOOLEAN : open(mask, ok)
  /\ UNCHANGED <<mInSession, mEngineOn, task, msgs, status, fix, engine, inds>>

updateRegistrationMask(event, enabled) ==
  /\ task = "idle" /\ env.opens < MaxOpens
  /\ Count(0, 0, 0, 1, ~Settled)
  /\ \E ok \in BOOLEAN : open(IF enabled THEN mMask \cup {event} ELSE mMask \ {event}, ok)
  /\ UNCHANGED <<mInSession, mEngineOn, task, msgs, status, fix, engine, inds>>

\* startFix: the session's events first, whatever the modem says...
StartFix ==
  /\ task = "idle" /\ env.starts < MaxStarts
  /\ env.opens > 0                     \* the engine opens when it starts up
  /\ Count(1, 0, 0, 0, FALSE)
  /\ mInSession' = TRUE
  /\ \E ok \in BOOLEAN : registerEventMask(mQmiMask, TRUE, ok)
  /\ task' = "mode"
  /\ UNCHANGED <<clientHandle, mMask, mQmiMask, mEngineOn, mGnssMeasurementSupported,
                 msgs, status, service, fix, engine, inds>>

\* ... then the operation mode, where a timeout counts as success...
SetOperationMode ==
  /\ task = "mode"
  /\ \/ CanAnswer /\ task' = "start"
     \/ MayFail /\ task' = "idle"
  /\ UNCHANGED <<api, msgs, status, modem, trouble, env>>

\* ... then QMI_LOC_START_REQ.
SendStart ==
  /\ task = "start"
  /\ \/ CanAnswer /\ fix' = TRUE
     \/ MayFail /\ UNCHANGED fix
  /\ task' = "idle"
  /\ UNCHANGED <<api, msgs, status, registered, service, engine, inds, trouble, env>>

\* stopFix: QMI_LOC_STOP_REQ...
StopFix ==
  /\ task = "idle" /\ mInSession
  /\ Count(0, 0, 0, 0, ~Settled)
  /\ \/ CanAnswer /\ fix' = FALSE /\ UNCHANGED trouble
     \/ MayFail /\ UNCHANGED fix /\ trouble' = trouble \cup {"refused"}
  /\ task' = "stop"
  /\ UNCHANGED <<api, msgs, status, registered, service, engine, inds>>

\* ... and the events, unless an engine-off message is to come.
StopFixEnd ==
  /\ task = "stop"
  /\ mInSession' = FALSE
  /\ \/ mEngineOn /\ UNCHANGED <<registered, trouble>>
     \/ ~mEngineOn /\ \E ok \in BOOLEAN : registerEventMask(mQmiMask, FALSE, ok)
  /\ task' = "idle"
  /\ UNCHANGED <<clientHandle, mMask, mQmiMask, mEngineOn, mGnssMeasurementSupported,
                 msgs, status, service, fix, engine, inds, env>>

\* MsgUpdateEngineState: does it take the session's events back?
LateDeregister(on) == mEngineOn /\ ~mInSession /\ ~on

\* Mutant: between sessions the message is left in the queue.
ProcEngineStateInSession ==
  /\ mInSession
  /\ task = "idle" /\ msgs # <<>> /\ Head(msgs) \in {"on", "off"}
  /\ LET on == Head(msgs) = "on" IN
     /\ \/ /\ LateDeregister(on)
           /\ \E ok \in BOOLEAN : registerEventMask(mQmiMask, mInSession, ok)
        \/ ~LateDeregister(on) /\ UNCHANGED <<registered, trouble>>
     /\ mEngineOn' = on
     /\ status' = IF ~on THEN "ENGINE_OFF" ELSE IF mInSession THEN "ENGINE_ON" ELSE status
  /\ msgs' = Tail(msgs)
  /\ UNCHANGED <<clientHandle, mMask, mQmiMask, mInSession, mGnssMeasurementSupported,
                 task, service, fix, engine, inds, env>>

ProcEngineState ==
  /\ task = "idle" /\ msgs # <<>> /\ Head(msgs) \in {"on", "off"}
  /\ LET on == Head(msgs) = "on" IN
     /\ \/ /\ LateDeregister(on)
           /\ \E ok \in BOOLEAN : registerEventMask(mQmiMask, mInSession, ok)
        \/ ~LateDeregister(on) /\ UNCHANGED <<registered, trouble>>
     /\ mEngineOn' = on
     /\ status' = IF ~on THEN "ENGINE_OFF" ELSE IF mInSession THEN "ENGINE_ON" ELSE status
  /\ msgs' = Tail(msgs)
  /\ UNCHANGED <<clientHandle, mMask, mQmiMask, mInSession, mGnssMeasurementSupported,
                 task, service, fix, engine, inds, env>>

\* close: whatever qmi_client_release says, the handle is gone.
close ==
  /\ mMask' = {}
  /\ clientHandle' = FALSE
  /\ registered' = {} /\ service' = FALSE

\* The message of handleEngineUpEvent: close, then (ProcReopen) open again.
ProcReinit ==
  /\ task = "idle" /\ msgs # <<>> /\ Head(msgs) = "reinit"
  /\ close
  /\ task' = "reopen"
  /\ msgs' = Tail(msgs)
  /\ inds' = <<>>
  /\ UNCHANGED <<mQmiMask, mInSession, mEngineOn, mGnssMeasurementSupported,
                 status, fix, engine, trouble, env>>

ProcReopen ==
  /\ task = "reopen"
  /\ \E mask \in Masks, ok \in BOOLEAN : open(mask, ok)
  /\ task' = "idle"
  /\ UNCHANGED <<mInSession, mEngineOn, msgs, status, fix, engine, inds, env>>
-----------------------------------------------------------------------------
(***************************************************************************)
(* The QMI callback thread: reportEngineState and errorCb only queue.      *)
(***************************************************************************)
Deliver ==
  /\ inds # <<>>
  /\ msgs' = Append(msgs, Head(inds))
  /\ inds' = Tail(inds)
  /\ UNCHANGED <<api, task, status, registered, service, fix, engine, trouble, env>>

(***************************************************************************)
(* The modem: its engine runs during a fix and may idle between positions. *)
(***************************************************************************)
Indicate(what) ==
  inds' = IF service /\ EngineState \in registered THEN Append(inds, what) ELSE inds

EngineOn ==
  /\ fix /\ ~engine /\ env.toggles < MaxToggles
  /\ engine' = TRUE /\ Indicate("on") /\ Count(0, 1, 0, 0, FALSE)
  /\ UNCHANGED <<api, task, msgs, status, registered, service, fix, trouble>>

EngineOff ==
  /\ engine
  /\ engine' = FALSE /\ Indicate("off")
  /\ UNCHANGED <<api, task, msgs, status, registered, service, fix, trouble, env>>

ServiceDown ==
  /\ service /\ env.downs < MaxDowns
  /\ service' = FALSE /\ registered' = {} /\ fix' = FALSE /\ engine' = FALSE
  /\ inds' = Append(inds, "reinit")
  /\ Count(0, 0, 1, 0, FALSE)
  /\ UNCHANGED <<api, task, msgs, status, trouble>>

MsgTask ==
  \/ SetOperationMode \/ SendStart \/ StopFixEnd
  \/ ProcEngineState \/ ProcReinit \/ ProcReopen

Adapter ==
  \/ Open \/ StartFix \/ StopFix
  \/ \E e \in Bits, enabled \in BOOLEAN : updateRegistrationMask(e, enabled)

Next == MsgTask \/ Adapter \/ Deliver \/ EngineOn \/ EngineOff \/ ServiceDown

Spec == Init /\ [][Next]_vars

\* The threads run, and the modem turns its engine off once the fix is over.
FairSpec ==
  /\ Spec /\ WF_vars(MsgTask) /\ WF_vars(Deliver)
  /\ WF_vars(EngineOff /\ ~fix)
-----------------------------------------------------------------------------
TypeOK ==
  /\ clientHandle \in BOOLEAN /\ mInSession \in BOOLEAN /\ mEngineOn \in BOOLEAN
  /\ mMask \subseteq Bits /\ mQmiMask \subseteq Events
  /\ mGnssMeasurementSupported \in {"unknown", "yes", "no"}
  /\ task \in {"idle", "mode", "start", "stop", "reopen"}
  /\ msgs \in Seq({"on", "off", "reinit"}) /\ inds \in Seq({"on", "off", "reinit"})
  /\ status \in {"NONE", "ENGINE_ON", "ENGINE_OFF"}
  /\ trouble \subseteq {"refused", "lost"} /\ registered \subseteq Events /\ service \in BOOLEAN
  /\ fix \in BOOLEAN /\ engine \in BOOLEAN
  /\ env \in [starts : 0..MaxStarts, toggles : 0..MaxToggles,
              downs : 0..MaxDowns, opens : 0..MaxOpens, haste : BOOLEAN]

(***************************************************************************)
(* open and close keep the two copies of the mask together, across failed  *)
(* updates and re-initialisations: what registerEventMask sends is always  *)
(* the conversion of what the adapters were told is enabled.               *)
(***************************************************************************)
MasksAgree == clientHandle => mQmiMask = convertMask(mMask) /\ mMask \cap mExcludedMask = {}

(***************************************************************************)
(* "we do not update mMask here, because it did not change as the mask     *)
(* update has failed": unless an answer was lost, the modem never sends an *)
(* event that no enabled bit asks for, and nothing to a closed client.     *)
(***************************************************************************)
RegisteredIsWanted ==
  "lost" \notin trouble => registered \subseteq (IF clientHandle THEN convertMask(mMask) ELSE {})

(***************************************************************************)
(* While the service lives and obeys, a running session gets all its       *)
(* events: neither a mask update nor an engine-off message left over from  *)
(* an earlier session takes them back, however hasty the adapters are.     *)
(***************************************************************************)
SessionGetsEvents ==
  trouble = {} /\ env.downs = 0 => (mInSession /\ clientHandle => registered = mQmiMask)

(***************************************************************************)
(* "if engine on never happend, deregister events without waiting for      *)
(* Engine Off": session events stay registered after stopFix only as long  *)
(* as an engine-off that takes them back is still to come.                 *)
(***************************************************************************)
OffToCome == engine \/ (\E i \in DOMAIN inds : inds[i] = "off")
                    \/ (\E i \in DOMAIN msgs : msgs[i] = "off")

LeftoverIsTransient ==
  task = "idle" /\ ~mInSession /\ registered \cap SessionEvents # {} => mEngineOn /\ OffToCome

\* Requests are obeyed and adapters let the engine state settle.
Calm == trouble = {} /\ env.downs = 0 /\ ~env.haste

(***************************************************************************)
(* After a session, unless a new one begins, the modem is asked to stop    *)
(* its events, and adapters that saw the engine go on see it go off.       *)
(***************************************************************************)
SessionWindsUp ==
  /\ ~mInSession ~> (~Calm \/ mInSession \/ registered \cap SessionEvents = {})
  /\ (status = "ENGINE_ON" /\ ~mInSession) ~> (~Calm \/ mInSession \/ status = "ENGINE_OFF")
=============================================================================
