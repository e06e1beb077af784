-------------------------------- MODULE BtMns --------------------------------
(***************************************************************************)
(* BluetoothMns.java and BluetoothMnsObexSession.java: the message         *)
(* notification client.  When the remote device switches notifications on  *)
(* for an instance of the message access server, the client connects back  *)
(* to the device, registers the instance's content observers and sends     *)
(* every event over one OBEX session.  MNS_CONNECT and the other messages  *)
(* are handled on the main thread; connecting, disconnecting and sending   *)
(* have threads of their own.                                              *)
(***************************************************************************)
EXTENDS Naturals, Sequences, FiniteSets

CONSTANTS
  MnsClients,    \* mMnsClients, by MAS id (MAX_INSTANCES is 2)
  MnsConfigs     \* bounds on the requests of the remote device and on the events

ASSUME MnsAssumption ==
  MnsClients \subseteq {0, 1} /\ MnsConfigs \subseteq [requests : Nat, events : Nat]

VARIABLES
  mns,       \* registered; waiting (mWaitingMasId); session (mSession, 0 for null);
             \* sending (mSendingEvent) and events (mEventQueue)
  mnsQueue,  \* the handler's messages
  mnsLate,   \* is a delayed MNS_SEND_TIMEOUT queued?
  mnsTodo,   \* what is left of RFCOMM_CONNECTED: "none", "connect" or "register"
  mnsConnecting,  \* does SocketConnectThread run?
  mnsEnding, \* the threads of MNS_DISCONNECT and MNS_BLUETOOTH_OFF
  mnsTasks,  \* the SendEventTasks
  mnsSessions, \* every BluetoothMnsObexSession made: cs (mCs), open (its transport),
               \* connected, id (hsConnect), lock (its wake lock is held)
  mnsWanted, \* history: the instances the remote device last switched on
  mnsLeft,   \* how many requests and events are still to come
  mnsPast    \* history: what happened out of turn

mnsVars == <<mns, mnsQueue, mnsLate, mnsTodo, mnsConnecting, mnsEnding, mnsTasks, mnsSessions,
             mnsWanted, mnsLeft, mnsPast>>

MnsInit ==
  /\ mns = [registered |-> {}, waiting |-> {}, session |-> 0, sending |-> FALSE, events |-> <<>>]
  /\ mnsQueue = <<>> /\ mnsLate = FALSE /\ mnsTodo = "none" /\ mnsConnecting = FALSE
  /\ mnsEnding = {} /\ mnsTasks = {} /\ mnsSessions = <<>>
  /\ mnsWanted = {} /\ mnsLeft \in MnsConfigs /\ mnsPast = {}

MnsMsg(what, n) == [what |-> what, of |-> n]
MnsPost(what, n) == mnsQueue' = Append(mnsQueue, MnsMsg(what, n))
-----------------------------------------------------------------------------
(***************************************************************************)
(* The remote device, the observers and the end of the service.            *)
(***************************************************************************)
MnsRequest ==
  /\ mnsLeft.requests > 0 /\ "off" \notin mnsPast
  /\ mnsLeft' = [mnsLeft EXCEPT !.requests = @ - 1]
  /\ UNCHANGED <<mns, mnsLate, mnsTodo, mnsConnecting, mnsEnding, mnsTasks, mnsSessions, mnsPast>>

\* notification(): startMnsSession or stopMnsSession of the instance m.
MnsOn(m) ==
  /\ MnsRequest
  /\ mnsWanted' = mnsWanted \cup {m} /\ MnsPost("MNS_CONNECT", m)

MnsOff(m) ==
  /\ MnsRequest
  /\ mnsWanted' = mnsWanted \ {m} /\ MnsPost("MNS_DISCONNECT", m)

\* closeService posts MNS_BLUETOOTH_OFF; the servers that close switch off what was on.
MnsClose ==
  /\ "off" \notin mnsPast
  /\ mnsPast' = mnsPast \cup {"off"} /\ mnsWanted' = {}
  /\ LET ends(m) == IF m \in mnsWanted THEN <<MnsMsg("MNS_DISCONNECT", m)>> ELSE <<>>
     IN  mnsQueue' = Append(mnsQueue, MnsMsg("MNS_BLUETOOTH_OFF", 0)) \o ends(0) \o ends(1)
  /\ UNCHANGED <<mns, mnsLate, mnsTodo, mnsConnecting, mnsEnding, mnsTasks, mnsSessions, mnsLeft>>

\* sendMnsEvent, called by an observer of a registered instance.
MnsEvent ==
  /\ mns.registered # {} /\ mnsLeft.events > 0
  /\ mnsLeft' = [mnsLeft EXCEPT !.events = @ - 1]
  /\ MnsPost("MNS_SEND_EVENT", mnsLeft.events)
  /\ UNCHANGED <<mns, mnsLate, mnsTodo, mnsConnecting, mnsEnding, mnsTasks, mnsSessions,
                 mnsWanted, mnsPast>>
-----------------------------------------------------------------------------
\* mSession.disconnect(): an exchange that fails leaves mCs, which is closed.
MnsDisconnected(s, fails) ==
  [mnsSessions EXCEPT ![s] =
     [@ EXCEPT !.cs = fails /\ mnsSessions[s].cs, !.open = FALSE, !.lock = FALSE]]

\* stop(), with the other fields as given; what may be amiss when it comes.
MnsStop(fields, amiss) ==
  /\ mns' = [fields EXCEPT !.session = 0]
  /\ IF mns.session = 0 THEN UNCHANGED mnsSessions
     ELSE \E fails \in BOOLEAN : mnsSessions' = MnsDisconnected(mns.session, fails)
  /\ mnsPast' = mnsPast \cup amiss
       \cup (IF \E t \in mnsTasks : t.at = "enter" /\ t.session = mns.session THEN {"late"} ELSE {})

canDisconnect == mns.registered = {}
-----------------------------------------------------------------------------
(***************************************************************************)
(* EventHandler.                                                           *)
(***************************************************************************)
MnsTakes(what) == mnsTodo = "none" /\ mnsQueue # <<>> /\ Head(mnsQueue).what = what
MnsTaken       == mnsQueue' = Tail(mnsQueue)
MnsArg         == Head(mnsQueue).of

\* A thread has found that it can disconnect and has not done so yet.
MnsRace == IF \E t \in mnsEnding : t.at \in {"stop", "offstop"} THEN {"raced"} ELSE {}

\* A register() that throws has set mListener, and is undone by MNS_DISCONNECT.
MnsConnect ==
  /\ MnsTakes("MNS_CONNECT")
  /\ IF mns.session # 0 /\ mnsSessions[mns.session].connected
     THEN /\ mns' = [mns EXCEPT !.registered = @ \cup {MnsArg}]
          /\ \/ MnsTaken
             \/ /\ MnsArg \notin mns.registered
                /\ mnsQueue' = Append(Tail(mnsQueue), MnsMsg("MNS_DISCONNECT", MnsArg))
          /\ mnsPast' = mnsPast \cup MnsRace
          /\ UNCHANGED mnsConnecting
     ELSE /\ MnsTaken
          /\ mns' = [mns EXCEPT !.waiting = @ \cup {MnsArg}]
          /\ mnsConnecting' = (mnsConnecting \/ mns.waiting = {})
          /\ UNCHANGED mnsPast
  /\ UNCHANGED <<mnsLate, mnsTodo, mnsEnding, mnsTasks, mnsSessions, mnsWanted, mnsLeft>>

\* MNS_DISCONNECT: a new thread, numbered by the requests.
MnsDisconnect ==
  /\ MnsTakes("MNS_DISCONNECT") /\ MnsTaken
  /\ mnsEnding' = mnsEnding \cup {[of |-> MnsArg, at |-> "deregister",
                                   nr |-> Cardinality(mnsEnding)]}
  /\ UNCHANGED <<mns, mnsLate, mnsTodo, mnsConnecting, mnsTasks, mnsSessions, mnsWanted, mnsLeft,
                 mnsPast>>

MnsBluetoothOff ==
  /\ MnsTakes("MNS_BLUETOOTH_OFF") /\ MnsTaken
  /\ mnsEnding' = mnsEnding \cup {[of |-> 0, at |-> "off", nr |-> Cardinality(mnsEnding)]}
  /\ UNCHANGED <<mns, mnsLate, mnsTodo, mnsConnecting, mnsTasks, mnsSessions, mnsWanted, mnsLeft,
                 mnsPast>>

\* Mutant: the instances that wait are kept.
MnsRfcommErrorKeepsWaiting ==
  /\ MnsTakes("RFCOMM_ERROR") /\ MnsTaken
  /\ MnsStop([mns EXCEPT !.registered = {}], {})
  /\ UNCHANGED <<mnsLate, mnsTodo, mnsConnecting, mnsEnding, mnsTasks, mnsWanted, mnsLeft>>

MnsRfcommError ==
  /\ MnsTakes("RFCOMM_ERROR") /\ MnsTaken
  /\ MnsStop([mns EXCEPT !.registered = {}, !.waiting = {}], {})
  /\ UNCHANGED <<mnsLate, mnsTodo, mnsConnecting, mnsEnding, mnsTasks, mnsWanted, mnsLeft>>

\* startObexSession: mSession is assigned, then connect() begins.
MnsRfcommConnected ==
  /\ MnsTakes("RFCOMM_CONNECTED") /\ MnsTaken
  /\ mns' = [mns EXCEPT !.session = Len(mnsSessions) + 1]
  /\ mnsSessions' = Append(mnsSessions, [cs |-> TRUE, open |-> TRUE, connected |-> FALSE,
                                         id |-> FALSE, lock |-> TRUE])
  /\ mnsTodo' = "connect"
  /\ mnsPast' = IF mns.session # 0 THEN mnsPast \cup {"replaced"} ELSE mnsPast
  /\ UNCHANGED <<mnsLate, mnsConnecting, mnsEnding, mnsTasks, mnsWanted, mnsLeft>>

\* The end of connect(): it fails when the device refuses or another thread
\* has closed the session, and then the session stays as it is.
MnsObexConnect(accepted) ==
  LET s == Len(mnsSessions)
      succeeds == accepted /\ mnsSessions[s].open
  IN  /\ mnsTodo = "connect"
      /\ mnsTodo' = "register"
      /\ mnsSessions' = [mnsSessions EXCEPT ![s] =
           [@ EXCEPT !.connected = succeeds, !.id = succeeds, !.lock = FALSE]]
      /\ mnsPast' = IF succeeds THEN mnsPast ELSE mnsPast \cup {"refused"}
      /\ UNCHANGED <<mns, mnsQueue, mnsLate, mnsConnecting, mnsEnding, mnsTasks, mnsWanted, mnsLeft>>

\* mSession, or its mCs, is null when it is used, as a thread has called stop()
\* since it was assigned: the NullPointerException is caught.
MnsConnectThrows ==
  /\ mnsTodo = "connect" /\ mns.session = 0
  /\ mnsTodo' = "none" /\ MnsPost("RFCOMM_ERROR", 0)
  /\ mnsPast' = mnsPast \cup {"thrown"}
  /\ UNCHANGED <<mns, mnsLate, mnsConnecting, mnsEnding, mnsTasks, mnsSessions, mnsWanted, mnsLeft>>

\* register() of every instance that waits, also one switched off meanwhile;
\* that it threw is ignored here.
MnsRegisterWaiting ==
  /\ mnsTodo = "register" /\ mnsTodo' = "none"
  /\ mns' = [mns EXCEPT !.registered = @ \cup mns.waiting, !.waiting = {}]
  /\ mnsPast' = mnsPast \cup MnsRace
                       \cup (IF mns.waiting \subseteq mnsWanted THEN {} ELSE {"orphan"})
  /\ UNCHANGED <<mnsQueue, mnsLate, mnsConnecting, mnsEnding, mnsTasks, mnsSessions, mnsWanted, mnsLeft>>

MnsTask(e) == [event |-> e, at |-> "timeout", session |-> 0]

MnsSendEvent ==
  /\ MnsTakes("MNS_SEND_EVENT") /\ MnsTaken
  /\ \/ mns.sending /\ mns' = [mns EXCEPT !.events = Append(@, MnsArg)] /\ UNCHANGED mnsTasks
     \/ /\ ~mns.sending
        /\ mns' = [mns EXCEPT !.sending = TRUE] /\ mnsTasks' = mnsTasks \cup {MnsTask(MnsArg)}
  /\ UNCHANGED <<mnsLate, mnsTodo, mnsConnecting, mnsEnding, mnsSessions, mnsWanted, mnsLeft, mnsPast>>

MnsSendEventDone ==
  /\ MnsTakes("MNS_SEND_EVENT_DONE") /\ MnsTaken
  /\ IF mns.events = <<>> THEN mns' = [mns EXCEPT !.sending = FALSE] /\ UNCHANGED mnsTasks
     ELSE /\ mns' = [mns EXCEPT !.events = Tail(@)]
          /\ mnsTasks' = mnsTasks \cup {MnsTask(Head(mns.events))}
  /\ UNCHANGED <<mnsLate, mnsTodo, mnsConnecting, mnsEnding, mnsSessions, mnsWanted, mnsLeft, mnsPast>>

\* MNS_SEND_TIMEOUT leaves mSendingEvent as it is.
MnsSendTimeout ==
  /\ mnsTodo = "none" /\ mnsLate /\ mnsLate' = FALSE
  /\ MnsStop([mns EXCEPT !.registered = {}], {"timeout"})
  /\ UNCHANGED <<mnsQueue, mnsTodo, mnsConnecting, mnsEnding, mnsTasks, mnsWanted, mnsLeft>>
-----------------------------------------------------------------------------
(***************************************************************************)
(* The threads.                                                            *)
(***************************************************************************)
\* SocketConnectThread.
MnsSocketConnect(ok) ==
  /\ mnsConnecting /\ mnsConnecting' = FALSE
  /\ MnsPost(IF ok THEN "RFCOMM_CONNECTED" ELSE "RFCOMM_ERROR", 0)
  /\ mnsPast' = IF ok THEN mnsPast ELSE mnsPast \cup {"unreachable"}
  /\ UNCHANGED <<mns, mnsLate, mnsTodo, mnsEnding, mnsTasks, mnsSessions, mnsWanted, mnsLeft>>

MnsThreadGoes(t, label) == mnsEnding' = (mnsEnding \ {t}) \cup {[t EXCEPT !.at = label]}
MnsThreadEnds(t)        == mnsEnding' = mnsEnding \ {t}

\* deregister, canDisconnect and stop, each with its own lock.
MnsDeregister(t) ==
  /\ t.at = "deregister" /\ MnsThreadGoes(t, "check")
  /\ mns' = [mns EXCEPT !.registered = @ \ {t.of}]
  /\ mnsPast' = IF t.of \in mns.registered \cap mnsWanted THEN mnsPast \cup {"undone"} ELSE mnsPast
  /\ UNCHANGED mnsSessions

\* Mutant: the session is stopped with its first instance.
MnsCheckNothing(t) ==
  /\ t.at \in {"check", "off"}
  /\ MnsThreadGoes(t, IF t.at = "check" THEN "stop" ELSE "offstop")
  /\ UNCHANGED <<mns, mnsSessions, mnsPast>>

MnsCheck(t) ==
  /\ t.at \in {"check", "off"}
  /\ IF canDisconnect THEN MnsThreadGoes(t, IF t.at = "check" THEN "stop" ELSE "offstop")
     ELSE IF t.at = "off" THEN MnsThreadGoes(t, "cleanup") ELSE MnsThreadEnds(t)
  /\ UNCHANGED <<mns, mnsSessions, mnsPast>>

MnsThreadStop(t) ==
  /\ t.at \in {"stop", "offstop"}
  /\ IF t.at = "offstop" THEN MnsThreadGoes(t, "cleanup") ELSE MnsThreadEnds(t)
  /\ MnsStop(mns, IF mnsTodo = "none" THEN {} ELSE {"raced"})

\* mnsCleanupInstances.
MnsCleanup(t) ==
  /\ t.at = "cleanup" /\ MnsThreadEnds(t)
  /\ mns' = [mns EXCEPT !.registered = {}]
  /\ mnsSessions' = IF mns.session = 0 THEN mnsSessions
                    ELSE [mnsSessions EXCEPT ![mns.session] = [@ EXCEPT !.lock = FALSE]]
  /\ UNCHANGED mnsPast

MnsEndingThread(t) ==
  /\ MnsDeregister(t) \/ MnsCheck(t) \/ MnsThreadStop(t) \/ MnsCleanup(t)
  /\ UNCHANGED <<mnsQueue, mnsLate, mnsTodo, mnsConnecting, mnsTasks, mnsWanted, mnsLeft>>

MnsTaskAt(t, label, s) ==
  mnsTasks' = (mnsTasks \ {t}) \cup {[t EXCEPT !.at = label, !.session = s]}

\* setTimeout; the report is written to its file and mSession read.
MnsSetTimeout(t) ==
  /\ t.at = "timeout" /\ MnsTaskAt(t, "read", 0)
  /\ mnsLate' = TRUE /\ UNCHANGED <<mnsQueue, mnsSessions>>

MnsReadSession(t) ==
  /\ t.at = "read"
  /\ MnsTaskAt(t, IF mns.session = 0 THEN "finish" ELSE "enter", mns.session)
  /\ UNCHANGED <<mnsQueue, mnsLate, mnsSessions>>

\* acquireMnsLock, and hsConnect is dereferenced.
MnsEnter(t) ==
  /\ t.at = "enter"
  /\ mnsSessions' = [mnsSessions EXCEPT ![t.session] = [@ EXCEPT !.lock = TRUE]]
  /\ MnsTaskAt(t, IF mnsSessions[t.session].id THEN "put" ELSE "finish", t.session)
  /\ UNCHANGED <<mnsQueue, mnsLate>>

\* The exchange ends or fails, and releaseMnsLock; a null mCs throws past it.
MnsPut(t) ==
  /\ t.at = "put" /\ MnsTaskAt(t, "finish", t.session)
  /\ mnsSessions' = [mnsSessions EXCEPT ![t.session] =
       [@ EXCEPT !.lock = mnsSessions[t.session].lock /\ ~mnsSessions[t.session].cs]]
  /\ UNCHANGED <<mnsQueue, mnsLate>>

\* Mutant: the end is not reported.
MnsFinishQuietly(t) ==
  /\ t.at = "finish" /\ mnsTasks' = mnsTasks \ {t}
  /\ mnsLate' = FALSE /\ UNCHANGED <<mnsQueue, mnsSessions>>

\* removeTimeout: done is posted only when the timeout was still queued.
MnsFinish(t) ==
  /\ t.at = "finish" /\ mnsTasks' = mnsTasks \ {t}
  /\ IF mnsLate THEN mnsLate' = FALSE /\ MnsPost("MNS_SEND_EVENT_DONE", 0)
                ELSE UNCHANGED <<mnsLate, mnsQueue>>
  /\ UNCHANGED mnsSessions

MnsSendTask(t) ==
  /\ MnsSetTimeout(t) \/ MnsReadSession(t) \/ MnsEnter(t) \/ MnsPut(t) \/ MnsFinish(t)
  /\ UNCHANGED <<mns, mnsTodo, mnsConnecting, mnsEnding, mnsWanted, mnsLeft, mnsPast>>
-----------------------------------------------------------------------------
MnsHandler ==
  \/ MnsConnect \/ MnsDisconnect \/ MnsBluetoothOff \/ MnsRfcommError \/ MnsRfcommConnected
  \/ MnsSendEvent \/ MnsSendEventDone \/ MnsConnectThrows \/ MnsRegisterWaiting
  \/ \E accepted \in BOOLEAN : MnsObexConnect(accepted)

MnsThreads ==
  \/ \E ok \in BOOLEAN : MnsSocketConnect(ok)
  \/ \E t \in mnsEnding : MnsEndingThread(t)
  \/ \E t \in mnsTasks : MnsSendTask(t)

MnsNext ==
  \/ MnsHandler \/ MnsThreads \/ MnsSendTimeout \/ MnsClose \/ MnsEvent
  \/ \E m \in MnsClients : MnsOn(m) \/ MnsOff(m)

\* Looper and scheduler run what is ready, and an OBEX exchange ends.
MnsFairness == WF_mnsVars(MnsHandler) /\ WF_mnsVars(MnsThreads)

MnsSpec == MnsInit /\ [][MnsNext]_mnsVars /\ MnsFairness
-----------------------------------------------------------------------------
MnsTypeOK ==
  /\ mns.registered \subseteq MnsClients /\ mns.waiting \subseteq MnsClients
  /\ mns.session \in 0..Len(mnsSessions)
  /\ \A t \in mnsTasks : t.session \in 0..Len(mnsSessions) /\ t.event \in Nat
  /\ mnsTodo \in {"none", "connect", "register"} /\ mnsWanted \subseteq MnsClients

MnsOdd(what) == mnsPast \cap what # {}

\* No message is left to handle and no thread runs.
MnsQuiet ==
  mnsQueue = <<>> /\ mnsTodo = "none" /\ ~mnsConnecting /\ mnsEnding = {} /\ mnsTasks = {}

(***************************************************************************)
(* When all is handled no instance is left waiting (MNS_CONNECT would then *)
(* start no attempt ever again), and the registered ones are those the     *)
(* device switched on, after any order of the threads, unless the device   *)
(* could not be reached or a send timed out.  Three orders break the       *)
(* second: the thread of an earlier MNS_DISCONNECT, or of one posted       *)
(* because register() threw, deregisters what is switched on ("undone"),   *)
(* an instance switched off while the attempt is under way is registered   *)
(* at its end ("orphan"), and the stop() of a thread between the           *)
(* assignment of mSession and its use ends the attempt for an instance     *)
(* that was switched on ("thrown").                                        *)
(***************************************************************************)
MnsRegisteredIsWanted ==
  MnsQuiet =>
    /\ mns.waiting = {}
    /\ mns.registered = mnsWanted \/ MnsOdd({"unreachable", "timeout", "undone", "orphan", "thrown"})

(***************************************************************************)
(* When all is handled,                                                    *)
(*  - there is a session exactly when an instance is registered, though    *)
(*    canDisconnect and stop are two locked steps, between which an        *)
(*    instance may be registered or a session begun ("raced"), and though  *)
(*    mnsCleanupInstances leaves the session of an "orphan";               *)
(*  - no session holds its wake lock, unless an event was sent over one    *)
(*    whose OBEX connect failed ("refused") or that was stopped between    *)
(*    the reading of mSession and sendEvent ("late"): the null that is     *)
(*    dereferenced then throws past releaseMnsLock;                        *)
(*  - only the current session's transport is open, unless a session that  *)
(*    could not connect was replaced without being closed ("replaced").    *)
(***************************************************************************)
SessionsSettle ==
  MnsQuiet =>
    /\ (mns.session # 0 <=> mns.registered # {}) \/ MnsOdd({"raced", "orphan"})
    /\ \A s \in DOMAIN mnsSessions :
         /\ mnsSessions[s].lock => MnsOdd({"refused", "late"})
         /\ mnsSessions[s].open => s = mns.session \/ MnsOdd({"replaced"})

(***************************************************************************)
(* Sending comes to an end, so that the next event is sent at all, unless  *)
(* a send timed out: its MNS_SEND_TIMEOUT is no longer queued when         *)
(* removeTimeout looks for it, and MNS_SEND_EVENT_DONE is never posted.    *)
(***************************************************************************)
SendingEnds == mns.sending ~> ~mns.sending \/ MnsOdd({"timeout"})
==============================================================================
