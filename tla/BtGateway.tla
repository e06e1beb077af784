------------------------------ MODULE BtGateway ------------------------------
(***************************************************************************)
(* BluetoothSapService.java and BluetoothDunService.java: one RFCOMM       *)
(* client at a time is connected to a local server process (sapd, dund).   *)
(* Threads share static fields: the main thread (intents and handler       *)
(* messages), the accept thread, the uplink thread (client to server) and  *)
(* the downlink thread (server to client); DUN adds a thread that monitors *)
(* the modem bits.  The two services are the same program up to the        *)
(* differences that gwConfig selects.                                     *)
(*                                                                         *)
(* A connection is a number in the order of acceptance; it stands for the  *)
(* BluetoothSocket and for the remote device.                              *)
(***************************************************************************)
EXTENDS Naturals, Sequences

CONSTANT
  GwConfigs   \* what is explored: records of profile, and bounds on the connections
              \* accepted, on Bluetooth being switched on and on deaths of the server

ASSUME GatewayAssumption ==
  GwConfigs \subseteq [profile : {"sap", "dun"}, conns : Nat, ons : Nat, deaths : Nat]

VARIABLES
  gwConfig,
  gw,       \* the fields of the service: enable (mSapEnable, mDunEnable), interrupted, listen
            \* (mListenSocket is not null), rfcomm (the connection in mRfcommSocket, 0 for
            \* null), remote (mRemoteDevice), server (mSapdSocket, mDundSocket: "none",
            \* "open", "dead" when its peer is, or "unconnected" when connect() failed),
            \* waiting (mIsWaitingAuthorization)
  gwThread, \* the thread fields, "none" for null, and the locals of each thread: the streams
            \* of a connection (conn) and of a server socket that is not closed (wired), ...
  gwLock,   \* mUplinkLock, mDownlinkLock, mMonitorLock: who is inside
  gwTodo,   \* what is left of the handler the main thread runs
  gwQueue,  \* handler messages: start (is MESSAGE_START_LISTENER queued?), timeouts (of
            \* which wait, and "delayed" or "acl")
  gwWorld,  \* adapter; open: connections this side has not closed; linked: and the remote side neither;
            \* asked: put to the user and unanswered; allowed: trusted or allowed;
            \* told: devices reported as STATE_CONNECTED; crashed: a null was dereferenced
  gwPast    \* history: stale (what came out of turn) and counters

gwVars == <<gwConfig, gw, gwThread, gwLock, gwTodo, gwQueue, gwWorld, gwPast>>

GwConn == 1..gwConfig.conns
Dun    == gwConfig.profile = "dun"
GwNew(label) == [pc |-> label, conn |-> 0, wired |-> FALSE, stopped |-> FALSE,
                 interrupt |-> FALSE, intExit |-> FALSE, msg |-> "none"]
GwThreads    == {"accept", "up", "down", "mon"}

GwInit ==
  /\ gwConfig \in GwConfigs
  /\ gw = [enable |-> FALSE, interrupted |-> FALSE, listen |-> FALSE, rfcomm |-> 0, remote |-> 0,
           server |-> "none", waiting |-> FALSE]
  /\ gwThread = [t \in GwThreads |-> GwNew("none")]
  /\ gwLock = [t \in GwThreads |-> "free"]
  /\ gwTodo = <<>>
  /\ gwQueue = [start |-> FALSE, timeouts |-> {}]
  /\ gwWorld = [adapter |-> "off", open |-> {}, linked |-> {}, asked |-> {}, allowed |-> {},
                told |-> {}, crashed |-> FALSE]
  /\ gwPast = [stale |-> {}, ons |-> 0, deaths |-> 0, conns |-> 0]

Running(t) == gwThread[t].pc \notin {"none", "done"}
Pc(t, label) == gwThread[t].pc = label /\ ~gwWorld.crashed
Goes(t, label) ==
  gwThread' = [gwThread EXCEPT ![t] = IF label = "done" THEN GwNew("done")
                                      ELSE [gwThread[t] EXCEPT !.pc = label]]

\* The streams of the server's socket fail when it is closed or its peer dies.
ServerCut == [t \in GwThreads |-> [gwThread[t] EXCEPT !.wired = FALSE]]

\* Mutant: the connection is dropped without closing the link.
RfcommForgotten == [gwWorld EXCEPT !.open = @ \ {gw.rfcomm}]

\* closeRfcommSocket: whatever connection is in the field now.
RfcommClosed == [gwWorld EXCEPT !.open = @ \ {gw.rfcomm}, !.linked = @ \ {gw.rfcomm}]
-----------------------------------------------------------------------------
(***************************************************************************)
(* The main thread: a handler is a list of steps, so that the other        *)
(* threads run in between.  shutdown() sets stopped and interrupts; join() *)
(* waits for the thread to end.                                            *)
(***************************************************************************)
Restart(t)   == <<[do |-> "stop", of |-> t], [do |-> "renew", of |-> t]>>
ShutDown(t)  == <<[do |-> "stop", of |-> t], [do |-> "join", of |-> t]>>
Do(what)     == <<[do |-> what, of |-> "accept"]>>

\* Mutant: the threads are waited for before their sockets are closed.
closeServiceJoinsFirst ==
  Do("interrupt") \o (IF Dun THEN ShutDown("mon") ELSE <<>>)
  \o ShutDown("down") \o ShutDown("up") \o Do("removeStart") \o ShutDown("accept")
  \o Do("closeListen") \o Do("closeRfcomm") \o Do("closeServer")

\* Mutant: the uplink thread is left to end by itself.
closeServiceSkipsUplink ==
  Do("interrupt") \o Do("closeListen") \o Do("closeRfcomm") \o Do("closeServer")
  \o (IF Dun THEN ShutDown("mon") ELSE <<>>)
  \o ShutDown("down") \o Do("removeStart") \o ShutDown("accept")

\* closeSapService, closeDunService.
closeService ==
  Do("interrupt") \o Do("closeListen") \o Do("closeRfcomm") \o Do("closeServer")
  \o (IF Dun THEN ShutDown("mon") ELSE <<>>)
  \o ShutDown("down") \o ShutDown("up") \o Do("removeStart") \o ShutDown("accept")

startRfcommListenerThread == Restart("accept")

MainIdle == gwTodo = <<>> /\ ~gwWorld.crashed

\* closeSapService is followed by mConnection = null, in an object that is
\* not destroyed yet.
NoConnection == gwWorld.adapter = "closed" /\ ~Dun

\* ACTION_STATE_CHANGED, STATE_ON.
TurnOn ==
  /\ MainIdle /\ gwWorld.adapter \in {"off", "closed"} /\ ~NoConnection /\ ~gw.enable
  /\ gwWorld.linked = {} /\ gwPast.ons < gwConfig.ons
  /\ gwWorld' = [gwWorld EXCEPT !.adapter = "on"]
  /\ gw' = [gw EXCEPT !.interrupted = FALSE, !.enable = TRUE]
  /\ gwQueue' = [gwQueue EXCEPT !.start = TRUE, !.timeouts = {}]
  /\ gwPast' = [gwPast EXCEPT !.ons = @ + 1,
       !.stale = IF gw.rfcomm # 0 \/ gwWorld.told # {} \/ \E t \in GwThreads : gwThread[t].pc # "none"
                 THEN @ \cup {"carried"} ELSE @]
  /\ UNCHANGED <<gwConfig, gwThread, gwLock, gwTodo>>

\* STATE_ON, and the adapter service cannot be bound or the server process
\* not be started.  Nothing else happens until the next STATE_ON, so that the
\* adapter counts as off.
TurnOnFails ==
  /\ MainIdle /\ gwWorld.adapter \in {"off", "closed"} /\ ~NoConnection /\ ~gw.enable
  /\ gw' = [gw EXCEPT !.interrupted = FALSE]
  /\ UNCHANGED <<gwConfig, gwThread, gwLock, gwTodo, gwQueue, gwWorld, gwPast>>

\* STATE_ON is handled under mConnection, which SAP has set to null.
TurnOnWithoutConnection ==
  /\ MainIdle /\ NoConnection /\ ~gw.enable /\ gwPast.ons < gwConfig.ons
  /\ gw' = [gw EXCEPT !.interrupted = FALSE]
  /\ gwWorld' = [gwWorld EXCEPT !.crashed = TRUE]
  /\ UNCHANGED <<gwConfig, gwThread, gwLock, gwTodo, gwQueue, gwPast>>

\* STATE_TURNING_OFF: the service is closed and asks to be stopped.
TurnOff ==
  /\ MainIdle /\ gwWorld.adapter = "on"
  /\ gwWorld' = [gwWorld EXCEPT !.adapter = "turning_off"]
  /\ gw' = [gw EXCEPT !.interrupted = FALSE]
  /\ gwTodo' = closeService \o Do("disable")
  /\ UNCHANGED <<gwConfig, gwThread, gwLock, gwQueue, gwPast>>

\* onDestroy closes it once more and drops all messages.
Destroy ==
  /\ MainIdle /\ gwWorld.adapter = "closed"
  /\ gwTodo' = closeService \o Do("destroy")
  /\ UNCHANGED <<gwConfig, gw, gwThread, gwLock, gwQueue, gwWorld, gwPast>>

\* ACTION_ACL_DISCONNECTED, of whatever device: "let the user timeout handle
\* this case as well".
AclDisconnected ==
  /\ MainIdle /\ gwWorld.adapter = "on" /\ gw.waiting
  /\ gw' = [gw EXCEPT !.interrupted = FALSE]
  /\ gwQueue' = [gwQueue EXCEPT !.timeouts = @ \cup {<<gw.remote, "acl">>}]
  /\ UNCHANGED <<gwConfig, gwThread, gwLock, gwTodo, gwWorld, gwPast>>

\* ACTION_BOND_STATE_CHANGED, of whatever device, which only DUN receives: it
\* falls through to the removal of the timeouts.  The access permission that
\* it resets is read once, when a device has connected: Connects chooses it.
BondChanged ==
  /\ MainIdle /\ gwWorld.adapter = "on" /\ Dun
  /\ gw' = [gw EXCEPT !.interrupted = FALSE]
  /\ gwQueue' = [gwQueue EXCEPT !.timeouts = {}]
  /\ gwPast' = [gwPast EXCEPT !.stale =
       IF gw.waiting /\ gwQueue.timeouts # {} THEN @ \cup {"untimed"} ELSE @]
  /\ UNCHANGED <<gwConfig, gwThread, gwLock, gwTodo, gwWorld>>

\* An answer of the user is late when the wait it belongs to is over.
Answers(c) ==
  /\ MainIdle /\ gwWorld.adapter = "on" /\ c \in gwWorld.asked
  /\ gwPast' = [gwPast EXCEPT !.stale =
       IF gw.waiting /\ gw.remote = c THEN @ ELSE @ \cup {"answer"}]

AccessAllowed(c) ==
  /\ Answers(c)
  /\ gwWorld' = [gwWorld EXCEPT !.asked = @ \ {c}, !.allowed = @ \cup {c}]
  /\ gw' = [gw EXCEPT !.interrupted = FALSE, !.waiting = FALSE]
  /\ gwTodo' = IF gw.waiting THEN Restart("up") \o Do("removeTimeouts")
                             ELSE <<>>       \* "this reply is not for us"
  /\ UNCHANGED <<gwConfig, gwThread, gwLock, gwQueue>>

AccessDisallowed(c) ==
  /\ Answers(c)
  /\ gwWorld' = [gwWorld EXCEPT !.asked = @ \ {c}]
  /\ gw' = [gw EXCEPT !.interrupted = FALSE, !.waiting = FALSE]
  /\ gwTodo' = Do("closeRfcomm") \o startRfcommListenerThread \o Do("removeTimeouts")
  /\ UNCHANGED <<gwConfig, gwThread, gwLock, gwQueue>>

StartListener ==
  /\ MainIdle /\ gwQueue.start
  /\ gwQueue' = [gwQueue EXCEPT !.start = FALSE]
  /\ gwTodo' = IF gwWorld.adapter = "on" THEN startRfcommListenerThread ELSE <<>>
  /\ UNCHANGED <<gwConfig, gw, gwThread, gwLock, gwWorld, gwPast>>

\* MESSAGE_..._USER_TIMEOUT, also when it was sent for an earlier wait.
UserTimeout(m) ==
  /\ MainIdle /\ m \in gwQueue.timeouts
  /\ gwQueue' = [gwQueue EXCEPT !.timeouts = @ \ {m}]
  /\ gw' = [gw EXCEPT !.waiting = FALSE]
  /\ \/ gw.waiting /\ gwTodo' = Do("closeRfcomm") \o startRfcommListenerThread
     \/ ~gw.waiting /\ UNCHANGED gwTodo      \* "already handled, ignore it"
  /\ UNCHANGED <<gwConfig, gwThread, gwLock, gwWorld, gwPast>>

\* shutdown() of a thread whose field is locked by `who`.
Stop(t, who) ==
  /\ gwLock[t] = "free"
  /\ gwLock' = [gwLock EXCEPT ![t] = who]
  /\ gwThread' = [gwThread EXCEPT ![t].stopped = TRUE, ![t].interrupt = TRUE]

Joined(t, label) ==
  /\ ~Running(t)
  /\ gwLock' = [gwLock EXCEPT ![t] = "free"]
  /\ gwThread' = [gwThread EXCEPT ![t] = GwNew(label)]

Fields(step) ==
  /\ gw' = CASE step.do = "interrupt"   -> [gw EXCEPT !.interrupted = TRUE]
            [] step.do = "closeListen" -> [gw EXCEPT !.listen = FALSE]
            [] step.do = "closeRfcomm" -> [gw EXCEPT !.rfcomm = 0]
            [] step.do = "closeServer" -> [gw EXCEPT !.server = "none"]
            [] step.do = "disable"     -> [gw EXCEPT !.enable = FALSE, !.waiting = FALSE]
            [] OTHER -> gw
  /\ gwWorld' = CASE step.do = "closeRfcomm" -> RfcommClosed
                 [] step.do = "disable" -> [gwWorld EXCEPT !.adapter = "closed"]
                 [] step.do = "destroy" -> [gwWorld EXCEPT !.adapter = "off", !.asked = {}, !.told = {}]
                 [] OTHER -> gwWorld
  /\ gwQueue' = CASE step.do = "removeStart" -> [gwQueue EXCEPT !.start = FALSE]
                 [] step.do \in {"removeTimeouts", "disable"} -> [gwQueue EXCEPT !.timeouts = {}]
                 [] step.do = "destroy" -> [start |-> FALSE, timeouts |-> {}]
                 [] OTHER -> gwQueue
  /\ gwPast' = [gwPast EXCEPT !.stale =
       IF step.do = "removeTimeouts" /\ gw.waiting THEN @ \cup {"untimed"} ELSE @]
  /\ gwThread' = IF step.do = "closeServer" THEN ServerCut ELSE gwThread
  /\ gwTodo' = Tail(gwTodo)
  /\ UNCHANGED gwLock

MainStep ==
  /\ gwTodo # <<>> /\ ~gwWorld.crashed
  /\ LET step == Head(gwTodo)
         null == gwThread[step.of].pc = "none"
     IN  \/ /\ step.do = "stop" /\ ~null /\ Stop(step.of, "main")
            /\ gwTodo' = Tail(gwTodo) /\ UNCHANGED <<gw, gwWorld, gwQueue, gwPast>>
         \/ /\ step.do = "stop" /\ null /\ gwLock[step.of] = "free"
            /\ Joined(step.of, IF gwTodo[2].do = "renew" THEN "start" ELSE "none")
            /\ gwTodo' = Tail(Tail(gwTodo)) /\ UNCHANGED <<gw, gwWorld, gwQueue, gwPast>>
         \/ /\ step.do \in {"join", "renew"}
            /\ Joined(step.of, IF step.do = "renew" THEN "start" ELSE "none")
            /\ gwTodo' = Tail(gwTodo) /\ UNCHANGED <<gw, gwWorld, gwQueue, gwPast>>
         \/ step.do \notin {"stop", "join", "renew"} /\ Fields(step)
  /\ UNCHANGED gwConfig
-----------------------------------------------------------------------------
(***************************************************************************)
(* SocketAcceptThread.                                                     *)
(***************************************************************************)
ThreadOnly == UNCHANGED <<gwConfig, gwTodo, gwPast>>

AcceptStart ==
  /\ Pc("accept", "start")
  /\ Goes("accept", IF gw.listen THEN "loop" ELSE "create")
  /\ ThreadOnly /\ UNCHANGED <<gw, gwLock, gwQueue, gwWorld>>

\* initRfcommSocket: the retries end with a socket while Bluetooth is on.
CreateListenSocket ==
  /\ Pc("accept", "create")
  /\ IF gwWorld.adapter = "on" /\ ~gw.interrupted
     THEN gw' = [gw EXCEPT !.listen = TRUE] /\ Goes("accept", "created")
     ELSE UNCHANGED gw /\ Goes("accept", "done")
  /\ ThreadOnly /\ UNCHANGED <<gwLock, gwQueue, gwWorld>>

\* "close the listen socket to avoid resource leakage".
CheckInterrupted ==
  /\ Pc("accept", "created")
  /\ IF gw.interrupted
     THEN gw' = [gw EXCEPT !.listen = FALSE] /\ Goes("accept", "done")
     ELSE UNCHANGED gw /\ Goes("accept", "loop")
  /\ ThreadOnly /\ UNCHANGED <<gwLock, gwQueue, gwWorld>>

AcceptLoop ==
  /\ Pc("accept", "loop")
  /\ Goes("accept", IF gwThread["accept"].stopped \/ ~gw.listen THEN "done" ELSE "accept")
  /\ ThreadOnly /\ UNCHANGED <<gw, gwLock, gwQueue, gwWorld>>

\* mListenSocket.accept(): the field is read again.
CallAccept ==
  /\ Pc("accept", "accept")
  /\ IF gw.listen THEN Goes("accept", "blocked") /\ UNCHANGED gwWorld
                  ELSE gwWorld' = [gwWorld EXCEPT !.crashed = TRUE] /\ UNCHANGED gwThread
  /\ ThreadOnly /\ UNCHANGED <<gw, gwLock, gwQueue>>

AcceptFails ==
  /\ Pc("accept", "blocked") /\ ~gw.listen
  /\ Goes("accept", "done")
  /\ ThreadOnly /\ UNCHANGED <<gw, gwLock, gwQueue, gwWorld>>

\* A client connects, trusted or not.
Connects(trust) ==
  /\ Pc("accept", "blocked") /\ gw.listen /\ gwPast.conns < gwConfig.conns
  /\ LET c == gwPast.conns + 1
     IN  /\ gwThread' = [gwThread EXCEPT !["accept"].pc = "assign", !["accept"].conn = c]
         /\ gwWorld' = [gwWorld EXCEPT !.open = @ \cup {c}, !.linked = @ \cup {c},
                                       !.allowed = IF trust THEN @ \cup {c} ELSE @]
         /\ gwPast' = [gwPast EXCEPT !.conns = c]
  /\ UNCHANGED <<gwConfig, gw, gwLock, gwTodo, gwQueue>>

Assign ==
  /\ Pc("accept", "assign")
  /\ gw' = [gw EXCEPT !.rfcomm = gwThread["accept"].conn]
  /\ Goes("accept", "device")
  /\ ThreadOnly /\ UNCHANGED <<gwLock, gwQueue, gwWorld>>

\* Mutant: the trust state is that of the device connected before.
RemoteDeviceOldTrust ==
  /\ Pc("accept", "device")
  /\ IF gw.rfcomm = 0
     THEN Goes("accept", "done") /\ UNCHANGED gw
     ELSE /\ gw' = [gw EXCEPT !.remote = gw.rfcomm]
          /\ Goes("accept", IF {gw.rfcomm, gw.remote} \cap gwWorld.allowed # {} THEN "stop_up" ELSE "notify")
  /\ ThreadOnly /\ UNCHANGED <<gwLock, gwQueue, gwWorld>>

RemoteDevice ==
  /\ Pc("accept", "device")
  /\ IF gw.rfcomm = 0
     THEN Goes("accept", "done") /\ UNCHANGED gw
     ELSE /\ gw' = [gw EXCEPT !.remote = gw.rfcomm]
          /\ Goes("accept", IF gw.rfcomm \in gwWorld.allowed THEN "stop_up" ELSE "notify")
  /\ ThreadOnly /\ UNCHANGED <<gwLock, gwQueue, gwWorld>>

\* createSapNotification, createDunNotification ...
Notify ==
  /\ Pc("accept", "notify")
  /\ gwWorld' = [gwWorld EXCEPT !.asked = @ \cup {gw.remote}]
  /\ Goes("accept", "wait")
  /\ ThreadOnly /\ UNCHANGED <<gw, gwLock, gwQueue>>

\* ... then mIsWaitingAuthorization, without mAuthLock ...
SetWaiting ==
  /\ Pc("accept", "wait")
  /\ gw' = [gw EXCEPT !.waiting = TRUE]
  /\ Goes("accept", "timer")
  /\ ThreadOnly /\ UNCHANGED <<gwLock, gwQueue, gwWorld>>

\* ... then the delayed message.
SendTimeout ==
  /\ Pc("accept", "timer")
  /\ gwQueue' = [gwQueue EXCEPT !.timeouts = @ \cup {<<gw.remote, "delayed">>}]
  /\ Goes("accept", "done")
  /\ ThreadOnly /\ UNCHANGED <<gw, gwLock, gwWorld>>

\* startUplinkThread for a trusted device.
AcceptStopsUplink ==
  /\ Pc("accept", "stop_up") /\ gwLock["up"] = "free"
  /\ gwLock' = [gwLock EXCEPT !["up"] = "accept"]
  /\ gwThread' = [gwThread EXCEPT !["accept"].pc = "join_up", !["up"].stopped = TRUE,
                                  !["up"].interrupt = TRUE]
  /\ ThreadOnly /\ UNCHANGED <<gw, gwQueue, gwWorld>>

\* An interrupted join leaves the old thread in the field.
AcceptStartsUplink ==
  /\ Pc("accept", "join_up")
  /\ gwThread["up"].pc # "none" /\ ~gwThread["accept"].interrupt => ~Running("up")
  /\ gwLock' = [gwLock EXCEPT !["up"] = "free"]
  /\ gwThread' = [gwThread EXCEPT !["accept"] = GwNew("done"),
                    !["up"] = IF gwThread["up"].pc # "none" /\ gwThread["accept"].interrupt
                              THEN @ ELSE GwNew("start")]
  /\ ThreadOnly /\ UNCHANGED <<gw, gwQueue, gwWorld>>

AcceptThread ==
  \/ AcceptStart \/ CreateListenSocket \/ CheckInterrupted \/ AcceptLoop \/ CallAccept
  \/ AcceptFails \/ Assign \/ RemoteDevice \/ Notify \/ SetWaiting \/ SendTimeout
  \/ AcceptStopsUplink \/ AcceptStartsUplink
-----------------------------------------------------------------------------
(***************************************************************************)
(* UplinkThread.                                                           *)
(***************************************************************************)
Up == gwThread["up"]

\* initSapdClientSocket, initDundClientSocket when there is no socket yet.
\* The process of the server may not be up; the field is assigned before
\* connect(), and keeps a socket that failed to.
ConnectServer ==
  /\ Pc("up", "start") /\ gw.server = "none"
  /\ \/ gw' = [gw EXCEPT !.server = "open"] /\ Goes("up", "streams") /\ UNCHANGED <<gwWorld, gwQueue>>
     \/ /\ gw' = [gw EXCEPT !.rfcomm = 0, !.server = "unconnected"] /\ gwWorld' = RfcommClosed
        /\ gwQueue' = [gwQueue EXCEPT !.start = TRUE]
        /\ Goes("up", "done")
  /\ ThreadOnly /\ UNCHANGED gwLock

\* A socket that is left over is used again.
ReuseServer ==
  /\ Pc("up", "start") /\ gw.server # "none"
  /\ Goes("up", "streams")
  /\ ThreadOnly /\ UNCHANGED <<gw, gwLock, gwQueue, gwWorld>>

Unusable == gw.server \in {"none", "unconnected"}

\* run() returns at once, without closing the connection or listening again,
\* when it finds a socket that is not connected.
UplinkStreams ==
  /\ Pc("up", "streams")
  /\ IF Unusable \/ gw.rfcomm = 0
     THEN Goes("up", "done")
     ELSE gwThread' = [gwThread EXCEPT !["up"].pc = "start_down", !["up"].conn = gw.rfcomm,
                                       !["up"].wired = (gw.server = "open")]
  /\ gwPast' = [gwPast EXCEPT !.stale =
       IF gw.server = "unconnected" THEN @ \cup {"unconnected"} ELSE @]
  /\ UNCHANGED <<gwConfig, gw, gwLock, gwTodo, gwQueue, gwWorld>>

\* startDownlinkThread: nothing when the field is not null.
StartDownlink ==
  /\ Pc("up", "start_down") /\ gwLock["down"] = "free"
  /\ gwThread' = [gwThread EXCEPT !["up"].pc = IF Dun THEN "start_mon" ELSE "read",
                    !["down"] = IF @.pc = "none" THEN GwNew("start") ELSE @]
  /\ ThreadOnly /\ UNCHANGED <<gw, gwLock, gwQueue, gwWorld>>

StartMonitor ==
  /\ Pc("up", "start_mon") /\ gwLock["mon"] = "free"
  /\ gwThread' = [gwThread EXCEPT !["up"].pc = "read",
                    !["mon"] = IF @.pc = "none" THEN GwNew("run") ELSE @]
  /\ ThreadOnly /\ UNCHANGED <<gw, gwLock, gwQueue, gwWorld>>

Broken(c) == c \notin gwWorld.linked
Leaves(intExit) == gwThread' = [gwThread EXCEPT !["up"].pc = "end", !["up"].intExit = intExit]

\* The read fails: the connection is closed on either side.
UplinkReadFails ==
  /\ Pc("up", "read") /\ Broken(Up.conn)
  /\ Leaves(TRUE)
  /\ ThreadOnly /\ UNCHANGED <<gw, gwLock, gwQueue, gwWorld>>

\* Mutant: a failed write is no internal exit for SAP either.
UplinkForwardsQuietly ==
  /\ Pc("up", "read") /\ ~Broken(Up.conn) /\ (~Up.wired \/ Up.stopped)
  /\ Leaves(FALSE)
  /\ gwPast' = [gwPast EXCEPT !.stale = IF ~Up.wired /\ Dun THEN @ \cup {"write"} ELSE @]
  /\ UNCHANGED <<gwConfig, gw, gwLock, gwTodo, gwQueue, gwWorld>>

\* A request came.  It cannot be written to the server, which SAP counts as
\* an internal exit and DUN does not; or it can, and stopped ends the loop.
UplinkForwards ==
  /\ Pc("up", "read") /\ ~Broken(Up.conn) /\ (~Up.wired \/ Up.stopped)
  /\ Leaves(~Up.wired /\ ~Dun)
  /\ gwPast' = [gwPast EXCEPT !.stale = IF ~Up.wired /\ Dun THEN @ \cup {"write"} ELSE @]
  /\ UNCHANGED <<gwConfig, gw, gwLock, gwTodo, gwQueue, gwWorld>>

\* disconnect request to the server; closeSapdSocket, closeDundSocket.
UplinkClosesServer ==
  /\ Pc("up", "end")
  /\ gw' = [gw EXCEPT !.server = "none"]
  /\ gwThread' = [ServerCut EXCEPT !["up"].pc = "close_rfcomm"]
  /\ ThreadOnly /\ UNCHANGED <<gwLock, gwQueue, gwWorld>>

Told(c, connected) == IF connected THEN gwWorld.told \cup {c} ELSE gwWorld.told \ {c}

\* closeRfcommSocket; DUN then reports the disconnection.
UplinkClosesRfcomm ==
  /\ Pc("up", "close_rfcomm")
  /\ gw' = [gw EXCEPT !.rfcomm = 0]
  /\ gwWorld' = RfcommClosed
  /\ Goes("up", IF Dun THEN "tell" ELSE "stop_down")
  /\ ThreadOnly /\ UNCHANGED <<gwLock, gwQueue>>

\* Mutant: no report.
UplinkSilent ==
  /\ Pc("up", "tell")
  /\ Goes("up", IF Dun THEN "stop_down" ELSE "post")
  /\ ThreadOnly /\ UNCHANGED <<gw, gwLock, gwQueue, gwWorld>>

\* Reports the disconnection of the device in mRemoteDevice.
UplinkTells ==
  /\ Pc("up", "tell")
  /\ gwWorld' = [gwWorld EXCEPT !.told = Told(gw.remote, FALSE)]
  /\ Goes("up", IF Dun THEN "stop_down" ELSE "post")
  /\ ThreadOnly /\ UNCHANGED <<gw, gwLock, gwQueue>>

UplinkStops(t, next) ==
  /\ gwLock[t] = "free"
  /\ gwLock' = [gwLock EXCEPT ![t] = "up"]
  /\ gwThread' = [gwThread EXCEPT !["up"].pc = next, ![t].stopped = TRUE, ![t].interrupt = TRUE]

\* Mutant: the downlink thread is told to stop and not waited for.
UplinkJoinsNothing(t, next) ==
  /\ gwLock' = [gwLock EXCEPT ![t] = "free"]
  /\ gwThread' = [gwThread EXCEPT !["up"].pc = next, !["up"].interrupt = FALSE]

\* join(); interrupted, it leaves the thread in the field and clears the flag.
UplinkJoins(t, next) ==
  /\ gwThread[t].pc # "none" /\ ~Up.interrupt => ~Running(t)
  /\ gwLock' = [gwLock EXCEPT ![t] = "free"]
  /\ gwThread' = [gwThread EXCEPT !["up"].pc = next,
                    !["up"].interrupt = IF gwThread[t].pc = "none" THEN @ ELSE FALSE,
                    ![t] = IF @.pc # "none" /\ Up.interrupt THEN @ ELSE GwNew("none")]

UplinkEndsDownlink ==
  /\ \/ Pc("up", "stop_down") /\ UplinkStops("down", "join_down")
     \/ Pc("up", "join_down") /\ UplinkJoins("down", IF Dun THEN "stop_mon" ELSE "tell")
  /\ ThreadOnly /\ UNCHANGED <<gw, gwQueue, gwWorld>>

UplinkEndsMonitor ==
  /\ \/ Pc("up", "stop_mon") /\ UplinkStops("mon", "join_mon")
     \/ Pc("up", "join_mon") /\ UplinkJoins("mon", "post")
  /\ ThreadOnly /\ UNCHANGED <<gw, gwQueue, gwWorld>>

UplinkPosts ==
  /\ Pc("up", "post")
  /\ gwQueue' = [gwQueue EXCEPT !.start = @ \/ (Up.intExit /\ ~Up.stopped)]
  /\ Goes("up", "done")
  /\ ThreadOnly /\ UNCHANGED <<gw, gwLock, gwWorld>>

UplinkThread ==
  \/ ConnectServer \/ ReuseServer \/ UplinkStreams \/ StartDownlink \/ StartMonitor
  \/ UplinkReadFails \/ UplinkClosesServer \/ UplinkClosesRfcomm
  \/ UplinkTells \/ UplinkEndsDownlink \/ UplinkEndsMonitor \/ UplinkPosts
-----------------------------------------------------------------------------
(***************************************************************************)
(* DownlinkThread and, for DUN, MonitorThread.                             *)
(***************************************************************************)
Down == gwThread["down"]

DownlinkStreams ==
  /\ Pc("down", "start")
  /\ IF Unusable \/ gw.rfcomm = 0
     THEN Goes("down", "done")
     ELSE gwThread' = [gwThread EXCEPT !["down"].pc = "read", !["down"].conn = gw.rfcomm,
                                       !["down"].wired = (gw.server = "open")]
  /\ ThreadOnly /\ UNCHANGED <<gw, gwLock, gwQueue, gwWorld>>

\* What the server sends: a response, or the state of the connection.
DownlinkReads(m) ==
  /\ Pc("down", "read") /\ Down.wired
  /\ gwThread' = [gwThread EXCEPT !["down"].pc = "handle", !["down"].msg = m]
  /\ ThreadOnly /\ UNCHANGED <<gw, gwLock, gwQueue, gwWorld>>

DownlinkHandles ==
  /\ Pc("down", "handle")
  /\ gwThread' = [gwThread EXCEPT !["down"].msg = "none",
       !["down"].pc = IF Down.stopped \/ (Down.msg = "response" /\ Broken(Down.conn))
                      THEN "end" ELSE "read"]
  /\ IF Down.msg = "response"
     THEN UNCHANGED gwWorld
     ELSE gwWorld' = [gwWorld EXCEPT !.told = Told(gw.remote, Down.msg = "connected")]
  /\ ThreadOnly /\ UNCHANGED <<gw, gwLock, gwQueue>>

DownlinkReadFails ==
  /\ Pc("down", "read") /\ ~Down.wired
  /\ Goes("down", "end")
  /\ ThreadOnly /\ UNCHANGED <<gw, gwLock, gwQueue, gwWorld>>

\* closeSapdSocket or closeDundSocket, then closeRfcommSocket.
DownlinkCloses ==
  /\ \/ Pc("down", "end") /\ gw' = [gw EXCEPT !.server = "none"]
        /\ gwThread' = [ServerCut EXCEPT !["down"].pc = "close_rfcomm"] /\ UNCHANGED gwWorld
     \/ Pc("down", "close_rfcomm") /\ gw' = [gw EXCEPT !.rfcomm = 0]
        /\ Goes("down", "done") /\ gwWorld' = RfcommClosed
  /\ ThreadOnly /\ UNCHANGED <<gwLock, gwQueue>>

\* The monitor polls until it is interrupted or the connection is gone.
MonitorEnds ==
  /\ Pc("mon", "run") /\ (gwThread["mon"].interrupt \/ gw.rfcomm = 0)
  /\ Goes("mon", "done")
  /\ ThreadOnly /\ UNCHANGED <<gw, gwLock, gwQueue, gwWorld>>

DownlinkThread ==
  \/ DownlinkStreams \/ DownlinkHandles \/ DownlinkReadFails \/ DownlinkCloses \/ MonitorEnds

ServerSends == \E m \in {"response", "connected", "disconnected"} : DownlinkReads(m)
-----------------------------------------------------------------------------
\* The remote side goes away.
LinkLost(c) ==
  /\ c \in gwWorld.linked /\ ~gwWorld.crashed
  /\ gwWorld' = [gwWorld EXCEPT !.linked = @ \ {c}]
  /\ UNCHANGED <<gwConfig, gw, gwThread, gwLock, gwTodo, gwQueue, gwPast>>

ServerDies ==
  /\ gw.server = "open" /\ gwPast.deaths < gwConfig.deaths /\ ~gwWorld.crashed
  /\ gw' = [gw EXCEPT !.server = "dead"]
  /\ gwThread' = ServerCut
  /\ gwPast' = [gwPast EXCEPT !.deaths = @ + 1]
  /\ UNCHANGED <<gwConfig, gwLock, gwTodo, gwQueue, gwWorld>>

Client == UplinkForwards \/ \E trust \in BOOLEAN : Connects(trust)
User   == \E c \in GwConn : AccessAllowed(c) \/ AccessDisallowed(c)
MainHandler == StartListener \/ \E m \in gwQueue.timeouts : UserTimeout(m)
Intent == TurnOn \/ TurnOnFails \/ TurnOnWithoutConnection \/ TurnOff \/ Destroy
          \/ AclDisconnected \/ BondChanged
Environment == Intent \/ ServerDies \/ \E c \in GwConn : LinkLost(c)

GwNext ==
  \/ MainStep \/ MainHandler \/ AcceptThread \/ UplinkThread \/ DownlinkThread
  \/ ServerSends \/ Client \/ User \/ Environment

\* The threads run; the handler takes its messages; the stack breaks the
\* links when Bluetooth is switched off.
GwFairness ==
  /\ WF_gwVars(MainStep) /\ WF_gwVars(MainHandler)
  /\ WF_gwVars(AcceptThread) /\ WF_gwVars(UplinkThread) /\ WF_gwVars(DownlinkThread)
  /\ WF_gwVars(gwWorld.adapter # "on" /\ \E c \in GwConn : LinkLost(c))

GwSpec == GwInit /\ [][GwNext]_gwVars /\ GwFairness
-----------------------------------------------------------------------------
\* The fields hold values of their types; a live link is an open connection.
GwTypeOK ==
  /\ gwConfig \in GwConfigs
  /\ gw \in [enable : BOOLEAN, interrupted : BOOLEAN, listen : BOOLEAN, rfcomm : 0..gwConfig.conns,
             remote : 0..gwConfig.conns, server : {"none", "open", "dead", "unconnected"}, waiting : BOOLEAN]
  /\ \A t \in GwThreads : gwThread[t].conn \in 0..gwConfig.conns
  /\ gwLock \in [GwThreads -> {"free", "main", "accept", "up"}]
  /\ gwQueue.start \in BOOLEAN
  /\ gwQueue.timeouts \subseteq GwConn \X {"delayed", "acl"}
  /\ gwWorld.linked \subseteq gwWorld.open /\ gwWorld.open \subseteq GwConn
  /\ gwWorld.told \subseteq GwConn /\ gwWorld.asked \subseteq GwConn

\* Something of the kind has happened.
GwOdd(what) == gwPast.stale \cap what # {}

(***************************************************************************)
(* A client whose requests the uplink thread forwards is one the user      *)
(* trusts or has allowed.  Excepted are two kinds of behaviour.  The       *)
(* answer names no device, so an answer that comes after its own wait is   *)
(* over is taken for the wait of the moment, and restarts a listener that  *)
(* accepts while the uplink thread still serves ("answer"); and a service  *)
(* that is closed but not destroyed is started again with the threads and  *)
(* the connection it had ("carried").                                      *)
(***************************************************************************)
OnlyAllowedForwarded ==
  Pc("up", "read") => Up.conn \in gwWorld.allowed \/ GwOdd({"answer", "carried"})

(***************************************************************************)
(* The two forwarding threads serve the same client: no response of the    *)
(* server for one client is written to the next one, whatever the order in *)
(* which sockets are closed and threads are joined, with the same          *)
(* exceptions: then two connections may be served at once.                 *)
(***************************************************************************)
NoCrossTalk ==
  Pc("up", "read") /\ Down.pc \in {"read", "handle"} =>
    Down.conn = Up.conn \/ GwOdd({"answer", "carried"})

(***************************************************************************)
(* After onDestroy nothing is left of the service: no thread that accepts  *)
(* or forwards, no connection, no wait for the user, no lock.  Two things  *)
(* may stay in the static fields, and are left out: the socket to the      *)
(* server, when the uplink thread connects after closeSapdSocket, and a    *)
(* downlink or monitor thread whose join was interrupted; it then finds    *)
(* its socket closed.  A connection that was overwritten in mRfcommSocket, *)
(* which takes a late answer or a service started twice, stays open.       *)
(***************************************************************************)
DestroyedMeansClosed ==
  gwWorld.adapter = "off" /\ MainIdle =>
    /\ gwThread["accept"].pc = "none" /\ gwThread["up"].pc = "none"
    /\ Down.pc \notin {"read", "handle"}
    /\ \A t \in GwThreads : gwLock[t] = "free"
    /\ ~gw.listen /\ gw.rfcomm = 0 /\ ~gw.waiting
    /\ gwWorld.open = {} \/ GwOdd({"answer", "carried"})

(***************************************************************************)
(* While Bluetooth is on, the SAP service reports no device as connected   *)
(* when no thread serves it.  DUN reports the disconnection before it      *)
(* waits for the downlink thread, which may still report a connection.     *)
(* Excepted: a late answer, and what a service that was closed but not     *)
(* destroyed carries over.                                                 *)
(***************************************************************************)
DisconnectionTold ==
  ~Dun /\ gwWorld.adapter = "on" /\ ~Running("up") /\ ~Running("down") =>
    gwWorld.told = {} \/ GwOdd({"answer", "carried"})

(***************************************************************************)
(* While Bluetooth is on, the service comes back to waiting for a client   *)
(* or to serving one, whatever the client, the user and the server do, and *)
(* though timeouts of earlier waits are still queued and mListenSocket is  *)
(* read a second time without a test for null.  Four things prevent it: an *)
(* answer that is late restarts the listener while its thread is blocked   *)
(* in accept() ("answer"); the timeout of a wait is removed with those of  *)
(* an old one, or by a change of a bond ("untimed"); DUN's uplink thread   *)
(* ends without MESSAGE_START_LISTENER when dund cannot be written to      *)
(* ("write"); and the connection after one for which the server could not  *)
(* be reached finds the socket that failed, and is left open and unread    *)
(* ("unconnected").                                                        *)
(***************************************************************************)
Relistens ==
  gwWorld.adapter = "on" ~>
    \/ Pc("accept", "blocked")
    \/ Pc("up", "read") /\ ~Broken(Up.conn)
    \/ gwWorld.adapter # "on" \/ {"answer", "untimed", "write", "unconnected"} \cap gwPast.stale # {}

(***************************************************************************)
(* No handler blocks the main thread for ever in a join: each thread is    *)
(* woken by the closing of its socket.  Excepted are a late answer, and    *)
(* threads carried over from before the service was closed.                *)
(***************************************************************************)
HandlersReturn ==
  gwTodo # <<>> ~>
    gwTodo = <<>> \/ gwWorld.crashed \/ {"answer", "carried"} \cap gwPast.stale # {}
=============================================================================
