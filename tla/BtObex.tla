------------------------------- MODULE BtObex -------------------------------
(***************************************************************************)
(* BluetoothFtpService.java and BluetoothMasService.java: OBEX servers for *)
(* file transfer (one instance) and message access (an instance for        *)
(* SMS/MMS and one for e-mail).  Each instance has a listening socket, an  *)
(* accept thread, a connection and an OBEX session, whose own thread       *)
(* reports its end with MSG_SERVERSESSION_CLOSE.  Connections are numbered *)
(* in the order of acceptance.                                             *)
(***************************************************************************)
EXTENDS Naturals, Sequences

CONSTANTS
  ObConfigs,   \* records of profile ("ftp" or "mas"), a bound on the connections,
               \* and the faults of the environment that may happen
  ObDevices    \* 1..n, in the order of their first connection

ObFaults == {"off", "acl", "giveup"}

ASSUME ObexAssumption ==
  /\ ObConfigs \subseteq [profile : {"ftp", "mas"}, conns : Nat, faults : SUBSET ObFaults]
  /\ ObDevices \subseteq Nat

VARIABLES
  obConfig,
  ob,       \* per instance: listen (mRfcommServerSocket, mServerSocket), sock (mConnSocket),
            \* session (mServerSession), waiting (isWaitingAuthorization,
            \* mWaitingForConfirmation); the accept thread: pc, conn, stopped
  obMain,   \* remote (mRemoteDevice, by its connection), notified (mIsRequestBeingNotified),
            \* and the queued messages: start, timeouts, closes
  obTodo,   \* what is left of the handler the main thread runs
  obWorld,  \* adapter; conns: the connections; linked, and not closed on either side;
            \* asked: put to the user; allowed: devices trusted or allowed; alive: sessions
            \* that have not called onClose; crashed: a null was dereferenced
  obPast    \* history: what happened out of turn

obVars == <<obConfig, ob, obMain, obTodo, obWorld, obPast>>

Ftp     == obConfig.profile = "ftp"
ObInsts == IF Ftp THEN {0} ELSE {0, 1}
ObConn  == 1..Len(obWorld.conns)
ObDev(c)  == obWorld.conns[c].dev

ObInit ==
  /\ obConfig \in ObConfigs
  /\ ob = [i \in ObInsts |-> [listen |-> FALSE, sock |-> 0, session |-> 0, waiting |-> FALSE,
                              pc |-> "none", conn |-> 0, stopped |-> FALSE]]
  /\ obMain = [remote |-> 0, notified |-> FALSE, start |-> FALSE, timeouts |-> {}, closes |-> {}]
  /\ obTodo = <<>>
  /\ obWorld = [adapter |-> "off", conns |-> <<>>, linked |-> {}, asked |-> {}, allowed |-> {},
                alive |-> {}, crashed |-> FALSE]
  /\ obPast = {}

\* Closing the connection c of an instance; 0 for none.
ObUnlinked(c) == [obWorld EXCEPT !.linked = @ \ {c}]
-----------------------------------------------------------------------------
(***************************************************************************)
(* The main thread.                                                        *)
(***************************************************************************)
ObTask(what, i) == [do |-> what, of |-> i]
ObDo(what, i)   == <<ObTask(what, i)>>

\* Mutant: the listener is not started again.
stopWithoutListening(i) ==
  <<ObTask("closeSession", i), ObTask("stop", i), ObTask("join", i), ObTask("closeSock", i)>>

stopObexServerSession(i) ==
  IF Ftp THEN <<ObTask("closeSession", i), ObTask("stop", i), ObTask("join", i), ObTask("closeSock", i),
                ObTask("listen", i)>>
  ELSE <<ObTask("closeSock", i), ObTask("stop", i), ObTask("join", i), ObTask("closeSession", i),
         ObTask("listen", i)>>

\* Mutant: the session is left open.
closeConnectionOnly(i) ==
  <<ObTask("closeListen", i), ObTask("closeSock", i), ObTask("stop", i), ObTask("join", i)>>

\* Mutant: the thread is joined while accept() still blocks.
closeConnectionJoinsFirst(i) ==
  <<ObTask("stop", i), ObTask("join", i), ObTask("closeListen", i), ObTask("closeSock", i),
    ObTask("closeSession", i)>>

\* closeService of FTP; closeConnection of MAS.
closeConnection(i) ==
  IF Ftp THEN <<ObTask("closeListen", i), ObTask("stop", i), ObTask("join", i), ObTask("closeSock", i),
                ObTask("closeSession", i)>>
  ELSE <<ObTask("closeListen", i), ObTask("closeSock", i), ObTask("stop", i), ObTask("join", i),
         ObTask("closeSession", i)>>

\* The steps of every instance in turn.
ForAll(steps) == IF Ftp THEN steps[0] ELSE steps[0] \o steps[1]

ObCloseAll == ForAll([i \in ObInsts |-> closeConnection(i)])

ObIdle == obTodo = <<>> /\ ~obWorld.crashed

ObTurnOn ==
  /\ ObIdle /\ obWorld.adapter = "off" /\ obWorld.conns = <<>>
  /\ obWorld' = [obWorld EXCEPT !.adapter = "on"]
  /\ obMain' = [obMain EXCEPT !.start = TRUE]
  /\ UNCHANGED <<obConfig, ob, obTodo, obPast>>

\* FTP closes on STATE_TURNING_OFF and again in onDestroy, MAS in onDestroy.
ObTurnOff ==
  /\ ObIdle /\ obWorld.adapter = "on" /\ "off" \in obConfig.faults
  /\ obWorld' = [obWorld EXCEPT !.adapter = "closing"]
  /\ obTodo' = ObCloseAll \o (IF Ftp THEN closeConnection(0) ELSE <<>>) \o ObDo("off", 0)
  /\ UNCHANGED <<obConfig, ob, obMain, obPast>>

\* MSG_INTERNAL_START_LISTENER.
ObStartListener ==
  /\ ObIdle /\ obMain.start
  /\ obMain' = [obMain EXCEPT !.start = FALSE]
  /\ obTodo' = IF obWorld.adapter = "on" THEN ForAll([i \in ObInsts |-> ObDo("listen", i)])
               ELSE ObCloseAll
  /\ UNCHANGED <<obConfig, ob, obWorld, obPast>>

\* The user's answer does not say to the service which device it is for.
ObAnswers(c) ==
  /\ ObIdle /\ obWorld.adapter = "on" /\ c \in obWorld.asked
  /\ obPast' = obPast \cup (IF \E i \in ObInsts : ob[i].waiting /\ ob[i].sock = c /\ obMain.remote = c
                            THEN {} ELSE {"answer"})
  /\ UNCHANGED obConfig

\* FTP: "this reply is not for us" unless it waits; MAS starts whatever waits.
ObAllowed(c) ==
  /\ ObAnswers(c)
  /\ obWorld' = [obWorld EXCEPT !.asked = @ \ {c}, !.allowed = @ \cup {ObDev(c)}]
  /\ obTodo' = IF Ftp /\ ~ob[0].waiting THEN <<>>
               ELSE ForAll([i \in ObInsts |-> ObDo("admit", i)]) \o ObDo("removeTimeouts", 0)
  /\ UNCHANGED <<ob, obMain>>

\* stopObexServerSessionWaiting; FTP stops in any case.
ObRefuse == ForAll([i \in ObInsts |-> ObDo("refuse", i)])

ObDisallowed(c) ==
  /\ ObAnswers(c)
  /\ obWorld' = [obWorld EXCEPT !.asked = @ \ {c}]
  /\ obMain' = [obMain EXCEPT !.notified = FALSE]
  /\ obTodo' = ObRefuse \o ObDo("removeTimeouts", 0)
  /\ UNCHANGED ob

\* MSG_INTERNAL_USER_TIMEOUT.
ObUserTimeout(m) ==
  /\ ObIdle /\ m \in obMain.timeouts
  /\ obMain' = [obMain EXCEPT !.timeouts = @ \ {m}, !.notified = FALSE]
  /\ obTodo' = ObRefuse
  /\ obPast' = IF \E i \in ObInsts : ob[i].waiting /\ ob[i].sock = m[1] THEN obPast
               ELSE obPast \cup {"timeout"}
  /\ UNCHANGED <<obConfig, ob, obWorld>>

\* ACTION_ACL_DISCONNECTED of the device d: FTP compares it, MAS does not.
ObAclDisconnected(d) ==
  /\ ObIdle /\ obWorld.adapter = "on" /\ obMain.remote # 0 /\ "acl" \in obConfig.faults
  /\ \A c \in obWorld.linked : ObDev(c) # d
  /\ \/ /\ Ftp /\ ob[0].waiting /\ ObDev(obMain.remote) = d
        /\ obTodo' = ObDo("refuse", 0) \o ObDo("removeTimeouts", 0)
        /\ UNCHANGED obMain
     \/ /\ ~Ftp /\ obMain.notified
        /\ obMain' = [obMain EXCEPT !.timeouts = @ \cup {<<obMain.remote, "acl">>}]
        /\ UNCHANGED obTodo
  /\ obPast' = obPast \cup {"acl"}
  /\ UNCHANGED <<obConfig, ob, obWorld>>

\* Intents that fall through to the removal of the timeouts: an answer to an
\* authentication challenge, which a session had; for FTP also a change of a
\* bond, or another device that disconnects.  The access permission that a
\* bond resets is read once, when a device has connected: ObConnects chooses it.
ObTimeoutsDropped ==
  /\ ObIdle /\ obWorld.adapter = "on" /\ (Ftp \/ obWorld.allowed # {})
  /\ obMain' = [obMain EXCEPT !.timeouts = {}, !.notified = FALSE]
  /\ obPast' = IF obMain.timeouts # {} /\ \E i \in ObInsts : ob[i].waiting
               THEN obPast \cup {"untimed"} ELSE obPast
  /\ UNCHANGED <<obConfig, ob, obTodo, obWorld>>

\* MSG_SERVERSESSION_CLOSE: MAS looks for a connection, FTP does not.
ObServerSessionClose(m) ==
  /\ ObIdle /\ m \in obMain.closes
  /\ obMain' = [obMain EXCEPT !.closes = @ \ {m}]
  /\ LET i == m[1]
     IN  /\ obTodo' = IF Ftp \/ ob[i].sock # 0 THEN stopObexServerSession(i) ELSE <<>>
         /\ obPast' = IF ob[i].sock = m[2] \/ obTodo' = <<>> THEN obPast ELSE obPast \cup {"stolen"}
  /\ UNCHANGED <<obConfig, ob, obWorld>>

\* FTP: MSG_INTERNAL_AUTH_TIMEOUT.  MAS: the e-mail account was removed and
\* the session asks for its own end.
ObSessionGivenUp ==
  /\ ObIdle /\ "giveup" \in obConfig.faults \ obPast
  /\ \/ /\ Ftp /\ ob[0].session \in obWorld.alive
        /\ obTodo' = stopObexServerSession(0) /\ UNCHANGED obMain
     \/ /\ ~Ftp /\ ob[1].session \in obWorld.alive
        /\ obMain' = [obMain EXCEPT !.closes = @ \cup {<<1, ob[1].session>>}] /\ UNCHANGED obTodo
  /\ obPast' = obPast \cup {"giveup"}
  /\ UNCHANGED <<obConfig, ob, obWorld>>

\* startObexServerSession on the connection of the moment.
ObSessionOn(i) ==
  /\ obWorld' = [obWorld EXCEPT !.alive = @ \cup {ob[i].sock}]
  /\ UNCHANGED <<obMain, obPast>>

\* ServerSession.close() calls onClose once, which posts the message.
ObCloseSession(i) ==
  LET c == ob[i].session
  IN  /\ ob' = [ob EXCEPT ![i].session = 0]
      /\ obWorld' = [ObUnlinked(c) EXCEPT !.alive = @ \ {c}]
      /\ obMain' = [obMain EXCEPT !.closes = IF c \in obWorld.alive THEN @ \cup {<<i, c>>} ELSE @]
      /\ UNCHANGED obPast

ObStep(do, i) ==
  \/ /\ do = "closeListen" /\ ob' = [ob EXCEPT ![i].listen = FALSE]
     /\ UNCHANGED <<obMain, obWorld, obPast>>
  \/ /\ do = "closeSock" /\ ob' = [ob EXCEPT ![i].sock = 0]
     /\ obWorld' = ObUnlinked(ob[i].sock) /\ UNCHANGED <<obMain, obPast>>
  \/ do = "closeSession" /\ ObCloseSession(i)
  \/ /\ do = "stop" /\ ob' = [ob EXCEPT ![i].stopped = (@ \/ ob[i].pc # "none")]
     /\ UNCHANGED <<obMain, obWorld, obPast>>
  \/ /\ do = "join" /\ ob[i].pc \in {"none", "done"}
     /\ ob' = [ob EXCEPT ![i].pc = "none", ![i].conn = 0, ![i].stopped = FALSE]
     /\ UNCHANGED <<obMain, obWorld, obPast>>
  \/ /\ do = "listen"
     /\ ob' = IF obWorld.adapter = "on" /\ ob[i].pc = "none"
              THEN [ob EXCEPT ![i].pc = IF Ftp /\ ~ob[i].listen THEN "create" ELSE "loop",
                              ![i].listen = @ \/ ~Ftp]
              ELSE ob
     /\ UNCHANGED <<obMain, obWorld, obPast>>
  \/ /\ do = "removeTimeouts"
     /\ obMain' = [obMain EXCEPT !.timeouts = {}, !.notified = FALSE]
     /\ obPast' = IF \E j \in ObInsts : ob[j].waiting THEN obPast \cup {"untimed"} ELSE obPast
     /\ UNCHANGED <<ob, obWorld>>
  \/ /\ do = "off"
     /\ obWorld' = [obWorld EXCEPT !.adapter = "off", !.asked = {}, !.linked = {}]
     /\ UNCHANGED <<ob, obMain, obPast>>

ObMainStep ==
  /\ obTodo # <<>> /\ ~obWorld.crashed
  /\ LET do == Head(obTodo).do
         i  == Head(obTodo).of
         waits == ob[i].sock # 0 /\ ob[i].waiting
     IN  \/ /\ do \notin {"admit", "refuse"} /\ ObStep(do, i)
            /\ obTodo' = Tail(obTodo)
         \/ /\ do = "admit" /\ waits /\ ObSessionOn(i)
            /\ ob' = [ob EXCEPT ![i].waiting = FALSE, ![i].session = ob[i].sock]
            /\ obTodo' = Tail(obTodo)
         \/ /\ do = "admit" /\ ~waits
            /\ ob' = IF Ftp THEN [ob EXCEPT ![i].waiting = FALSE] ELSE ob
            /\ obTodo' = (IF Ftp THEN stopObexServerSession(i) ELSE <<>>) \o Tail(obTodo)
            /\ UNCHANGED <<obMain, obWorld, obPast>>
         \/ /\ do = "refuse"
            /\ ob' = IF Ftp \/ waits THEN [ob EXCEPT ![i].waiting = FALSE] ELSE ob
            /\ obTodo' = (IF Ftp \/ waits THEN stopObexServerSession(i) ELSE <<>>) \o Tail(obTodo)
            /\ UNCHANGED <<obMain, obWorld, obPast>>
  /\ UNCHANGED obConfig
-----------------------------------------------------------------------------
(***************************************************************************)
(* The accept threads.                                                     *)
(***************************************************************************)
ObPc(i, label) == ob[i].pc = label /\ ~obWorld.crashed
ObGoes(i, label) == ob' = [ob EXCEPT ![i].pc = label]
ObThread == UNCHANGED <<obConfig, obTodo>>

\* initRfcommSocket of FTP; the retries end with a socket while Bluetooth is on.
\* When they fail the thread calls closeService itself: it has no connection or
\* session to close yet, and its join of itself is ended by its own interrupt.
ObCreate(i) ==
  /\ ObPc(i, "create")
  /\ ob' = IF obWorld.adapter = "on" THEN [ob EXCEPT ![i].listen = TRUE, ![i].pc = "loop"]
           ELSE [ob EXCEPT ![i].pc = "done"]
  /\ ObThread /\ UNCHANGED <<obMain, obWorld, obPast>>

\* The tests of the loop, and accept() is called.
ObLoop(i) ==
  /\ ObPc(i, "loop")
  /\ ObGoes(i, IF ob[i].stopped \/ ~ob[i].listen THEN "done" ELSE "blocked")
  /\ ObThread /\ UNCHANGED <<obMain, obWorld, obPast>>

ObAcceptFails(i) ==
  /\ ObPc(i, "blocked") /\ ~ob[i].listen
  /\ ObGoes(i, "done")
  /\ ObThread /\ UNCHANGED <<obMain, obWorld, obPast>>

ObConnects(i, d, trust) ==
  /\ ObPc(i, "blocked") /\ ob[i].listen /\ Len(obWorld.conns) < obConfig.conns
  /\ \A e \in ObDevices : e < d => \E c \in ObConn : ObDev(c) = e
  /\ LET c == Len(obWorld.conns) + 1
     IN  /\ ob' = [ob EXCEPT ![i].pc = "remote", ![i].conn = c, ![i].sock = c]
         /\ obWorld' = [obWorld EXCEPT !.conns = Append(@, [dev |-> d, inst |-> i]),
                          !.linked = @ \cup {c}, !.allowed = IF trust THEN @ \cup {d} ELSE @]
  /\ ObThread /\ UNCHANGED <<obMain, obPast>>

\* mRemoteDevice is one field for all instances.
ObRemote(i) ==
  /\ ObPc(i, "remote")
  /\ IF ob[i].sock = 0 THEN ObGoes(i, "done") /\ UNCHANGED obMain
     ELSE obMain' = [obMain EXCEPT !.remote = ob[i].sock] /\ ObGoes(i, IF Ftp THEN "trust" ELSE "check")
  /\ ObThread /\ UNCHANGED <<obWorld, obPast>>

\* The first instance with a connection decides, be it the one that asks.
isAllowedConnection(d) ==
  LET taken == {i \in ObInsts : ob[i].sock # 0}
  IN  taken # {} => ObDev(ob[CHOOSE i \in taken : \A j \in taken : i <= j].sock) = d

\* The other accept thread has replaced mRemoteDevice.
ObSwapped(i) == IF ObDev(obMain.remote) # ObDev(ob[i].conn) THEN {"swapped"} ELSE {}

\* Mutant: a connection is accepted whatever the other instance serves.
ObCheckNothing(i) ==
  /\ ObPc(i, "check")
  /\ ObGoes(i, "trust")
  /\ obPast' = obPast \cup ObSwapped(i)
       \cup (IF i = 0 /\ ob[1].sock # 0 /\ ObDev(ob[1].sock) # ObDev(ob[0].conn)
             THEN {"masked"} ELSE {})
  /\ ObThread /\ UNCHANGED <<obMain, obWorld>>

ObCheck(i) ==
  /\ ObPc(i, "check")
  /\ IF isAllowedConnection(ObDev(obMain.remote))
     THEN ObGoes(i, "trust") /\ UNCHANGED obWorld
     ELSE /\ ob' = [ob EXCEPT ![i].sock = 0, ![i].pc = "loop"]
          /\ obWorld' = [ObUnlinked(ob[i].sock) EXCEPT !.crashed = (ob[i].sock = 0)]
  /\ obPast' = obPast
       \cup (IF i = 0 /\ ob[1].sock # 0 /\ ObDev(ob[1].sock) # ObDev(ob[0].conn)
             THEN {"masked"} ELSE {})
       \cup ObSwapped(i)
  /\ ObThread /\ UNCHANGED obMain

\* MAS: a notification that is shown serves this connection as well.
ObTrust(i) ==
  /\ ObPc(i, "trust")
  /\ ObGoes(i, IF obMain.notified THEN "join"
               ELSE IF ObDev(obMain.remote) \in obWorld.allowed THEN "session" ELSE "wait")
  /\ obPast' = obPast \cup ObSwapped(i)
  /\ ObThread /\ UNCHANGED <<obMain, obWorld>>

\* setWaitingForConfirmation after mIsRequestBeingNotified was read.
ObJoins(i) ==
  /\ ObPc(i, "join")
  /\ ob' = [ob EXCEPT ![i].waiting = TRUE, ![i].pc = "done"]
  /\ obPast' = IF obMain.notified THEN obPast ELSE obPast \cup {"missed"}
  /\ ObThread /\ UNCHANGED <<obMain, obWorld>>

ObSession(i) ==
  /\ ObPc(i, "session")
  /\ IF ob[i].sock = 0
     THEN /\ ObGoes(i, "done")
          /\ obWorld' = IF Ftp THEN obWorld ELSE [obWorld EXCEPT !.crashed = TRUE]
          /\ UNCHANGED <<obMain, obPast>>
     ELSE ob' = [ob EXCEPT ![i].session = ob[i].sock, ![i].pc = "done"] /\ ObSessionOn(i)
  /\ ObThread

\* The instance waits, and the user is asked about mRemoteDevice.
ObWait(i) ==
  /\ ObPc(i, "wait")
  /\ ob' = [ob EXCEPT ![i].waiting = TRUE, ![i].pc = "timer"]
  /\ obWorld' = [obWorld EXCEPT !.asked = @ \cup {obMain.remote}]
  /\ obMain' = [obMain EXCEPT !.notified = ~Ftp]
  /\ ObThread /\ UNCHANGED obPast

ObTimer(i) ==
  /\ ObPc(i, "timer")
  /\ obMain' = [obMain EXCEPT !.timeouts = @ \cup {<<obMain.remote, "delayed">>}]
  /\ ObGoes(i, "done")
  /\ ObThread /\ UNCHANGED <<obWorld, obPast>>

ObAcceptThread(i) ==
  \/ ObCreate(i) \/ ObLoop(i) \/ ObAcceptFails(i) \/ ObRemote(i) \/ ObCheck(i) \/ ObTrust(i)
  \/ ObJoins(i) \/ ObSession(i) \/ ObWait(i) \/ ObTimer(i)
-----------------------------------------------------------------------------
\* The session's thread finds its connection closed and calls onClose, also
\* when mServerSession is no longer this session.
ObSessionEnds(c) ==
  /\ c \in obWorld.alive /\ c \notin obWorld.linked /\ ~obWorld.crashed
  /\ obWorld' = [obWorld EXCEPT !.alive = @ \ {c}]
  /\ obMain' = [obMain EXCEPT !.closes = @ \cup {<<obWorld.conns[c].inst, c>>}]
  /\ UNCHANGED <<obConfig, ob, obTodo, obPast>>

ObLinkLost(c) ==
  /\ c \in obWorld.linked /\ ~obWorld.crashed
  /\ obWorld' = ObUnlinked(c)
  /\ UNCHANGED <<obConfig, ob, obMain, obTodo, obPast>>

ObHandler ==
  \/ ObStartListener
  \/ \E m \in obMain.timeouts : ObUserTimeout(m)
  \/ \E m \in obMain.closes : ObServerSessionClose(m)

ObEnvironment ==
  \/ ObTurnOn \/ ObTurnOff \/ ObSessionGivenUp
  \/ \E d \in ObDevices : ObAclDisconnected(d)
  \/ \E c \in ObConn : ObAllowed(c) \/ ObDisallowed(c) \/ ObLinkLost(c)
  \/ \E i \in ObInsts, d \in ObDevices, trust \in BOOLEAN : ObConnects(i, d, trust)

ObRuns ==
  \/ ObMainStep \/ ObHandler \/ ObEnvironment
  \/ \E i \in ObInsts : ObAcceptThread(i)
  \/ \E c \in obWorld.alive : ObSessionEnds(c)

ObNext == ObRuns \/ ObTimeoutsDropped

ObFairness ==
  /\ WF_obVars(ObMainStep) /\ WF_obVars(ObHandler)
  /\ \A i \in {0, 1} : WF_obVars(i \in ObInsts /\ ObAcceptThread(i))
  /\ WF_obVars(\E c \in obWorld.alive : ObSessionEnds(c))

ObSpec == ObInit /\ [][ObNext]_obVars /\ ObFairness
-----------------------------------------------------------------------------
ObTypeOK ==
  /\ \A i \in ObInsts : {ob[i].sock, ob[i].session, ob[i].conn} \subseteq {0} \cup ObConn
  /\ \A c \in ObConn : obWorld.conns[c].inst \in ObInsts
  /\ obWorld.alive \subseteq ObConn /\ obWorld.linked \subseteq ObConn
  /\ obMain.timeouts \subseteq ObConn \X {"delayed", "acl"}
  /\ obMain.closes \subseteq ObInsts \X ObConn

\* Something of the kind has happened.
Odd(what) == obPast \cap what # {}

(***************************************************************************)
(* A session is opened only for a device the user trusts or has allowed:   *)
(* the connection that startObexServerSession takes may be another than    *)
(* the one the user was asked about.  It fails in four ways: an answer     *)
(* that comes when another connection waits ("answer"), the other accept   *)
(* thread replacing mRemoteDevice between its assignment and the reading   *)
(* of its trust ("swapped"), a second device that reaches instance 0 while *)
(* instance 1 is asked about ("masked"), and a CLOSE of an earlier session *)
(* that stops the connection of the moment, which leaves the flag of the   *)
(* waiting set for the next one ("stolen").                                *)
(*                                                                         *)
(* And both message instances serve the same device.  isAllowedConnection  *)
(* finds instance 0's own new connection first, so instance 0 lets in      *)
(* another device than the one instance 1 serves ("masked").               *)
(***************************************************************************)
ObServesOne ==
  /\ \A i \in ObInsts : ob[i].session # 0 =>
       ObDev(ob[i].session) \in obWorld.allowed \/ Odd({"answer", "swapped", "masked", "stolen"})
  /\ \A i, j \in ObInsts : {ob[i].session, ob[j].session} \subseteq obWorld.linked =>
       ObDev(ob[i].session) = ObDev(ob[j].session) \/ Odd({"masked", "stolen"})

(***************************************************************************)
(* Once the service has closed, no session runs, no thread is left and     *)
(* nothing listens, whatever the threads did meanwhile.  Only a session    *)
(* that was replaced in mServerSession is left to find its connection      *)
(* closed: that takes a listener restarted by a late answer, an old        *)
(* timeout or a CLOSE of an earlier session.                               *)
(***************************************************************************)
ObClosed ==
  obWorld.adapter = "off" /\ ObIdle =>
    /\ obWorld.alive = {} \/ Odd({"answer", "timeout", "stolen"})
    /\ \A i \in ObInsts : ob[i].pc = "none" /\ ~ob[i].listen /\ ob[i].session = 0

(***************************************************************************)
(* Every handler of the main thread returns: no join() waits for a thread  *)
(* blocked in accept().  stopObexServerSession leaves the server socket    *)
(* open, so a stop that comes when the service listens again, from a late  *)
(* answer, an old timeout or a CLOSE of an earlier session, blocks it.     *)
(***************************************************************************)
ObHandlersReturn ==
  obTodo # <<>> ~> obTodo = <<>> \/ obWorld.crashed \/ Odd({"answer", "timeout", "stolen"})

(***************************************************************************)
(* "When the remote disconnect,this thread shall run again waiting for     *)
(* next request": while Bluetooth is on each instance comes back to        *)
(* listening or serves a device.  It fails for an instance that waits when *)
(* the timeouts are removed, by an answer for another connection or by an  *)
(* intent that has nothing to do with the wait ("untimed"), or when the    *)
(* answer it was to share has come ("missed"): it then waits for ever.     *)
(***************************************************************************)
ObRelistens ==
  \A i \in {0, 1} : (obWorld.adapter = "on" /\ i \in ObInsts) ~>
    \/ obWorld.adapter # "on" \/ obWorld.crashed
    \/ i \in ObInsts /\ (ob[i].pc = "blocked" \/ ob[i].session \in obWorld.linked)
    \/ Odd({"untimed", "missed"})
=============================================================================
