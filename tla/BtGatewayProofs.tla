--------------------------- MODULE BtGatewayProofs ---------------------------
(***************************************************************************)
(* Theorems about the SIM access and the dial-up service: BtGateway, for any *)
(* number of connections, of times Bluetooth is switched on and of deaths of *)
(* the server.                                                             *)
(***************************************************************************)
EXTENDS BtGateway, SequenceTheorems, TLAPS

(***************************************************************************)
(* The threads: where each is, and what a step does to it.                 *)
(***************************************************************************)
\* The labels of the threads, and their locals.
GwLabels == {"none", "start", "create", "created", "loop", "accept", "blocked", "assign",
             "device", "notify", "wait", "timer", "stop_up", "join_up", "done", "streams",
             "start_down", "start_mon", "read", "end", "close_rfcomm", "tell", "stop_down",
             "join_down", "stop_mon", "join_mon", "post", "handle", "run"}
GwLocal(S) == [pc : GwLabels, conn : S, wired : BOOLEAN, stopped : BOOLEAN,
            interrupt : BOOLEAN, intExit : BOOLEAN,
            msg : {"none", "response", "connected", "disconnected"}]
GwLocals(S) == gwThread \in [GwThreads -> GwLocal(S)]

\* A new thread has the locals of its type.
LEMMA GwNewLocal == ASSUME NEW S, 0 \in S, NEW label \in GwLabels
  PROVE GwNew(label) \in GwLocal(S) /\ GwNew(label).pc = label
  BY DEF GwNew, GwLocal

\* What Goes does to the thread, and that it leaves the others alone.
LEMMA GwGoesEffect ==
  ASSUME NEW S, 0 \in S, GwLocals(S), NEW t \in GwThreads, NEW label \in GwLabels, Goes(t, label)
  PROVE  /\ GwLocals(S)'
         /\ gwThread'[t].pc = label
         /\ label # "done" => /\ gwThread'[t].conn = gwThread[t].conn
                              /\ gwThread'[t].interrupt = gwThread[t].interrupt
         /\ \A u \in GwThreads \ {t} : gwThread'[u] = gwThread[u]
  <1>1. GwNew("done") \in GwLocal(S) /\ GwNew("done").pc = "done" BY GwNewLocal DEF GwLabels
  <1>2. gwThread[t] \in GwLocal(S) BY DEF GwLocals
  <1>3. [gwThread[t] EXCEPT !.pc = label] \in GwLocal(S) BY <1>2 DEF GwLocal
  <1>4. /\ [gwThread[t] EXCEPT !.pc = label].pc = label
        /\ [gwThread[t] EXCEPT !.pc = label].conn = gwThread[t].conn
        /\ [gwThread[t] EXCEPT !.pc = label].interrupt = gwThread[t].interrupt
     BY <1>2 DEF GwLocal
  <1> DEFINE r == IF label = "done" THEN GwNew("done") ELSE [gwThread[t] EXCEPT !.pc = label]
  <1>5. /\ r \in GwLocal(S) /\ r.pc = label
        /\ (label # "done" => r.conn = gwThread[t].conn /\ r.interrupt = gwThread[t].interrupt)
     BY <1>1, <1>3, <1>4
  <1>6. gwThread' = [gwThread EXCEPT ![t] = r] BY DEF Goes
  <1> HIDE DEF r
  <1> QED BY <1>5, <1>6 DEF GwLocals

\* The uplink thread tells another one to stop.
LEMMA GwStopsEffect ==
  ASSUME NEW S, 0 \in S, GwLocals(S), NEW t \in {"down", "mon"}, NEW next \in GwLabels, UplinkStops(t, next)
  PROVE  /\ GwLocals(S)'
         /\ gwThread'["up"] = [gwThread["up"] EXCEPT !.pc = next]
         /\ gwThread'[t].pc = gwThread[t].pc /\ gwThread'[t].conn = gwThread[t].conn
         /\ \A u \in GwThreads \ {t, "up"} : gwThread'[u] = gwThread[u]
  <1>1. gwThread' = [gwThread EXCEPT !["up"].pc = next, ![t].stopped = TRUE, ![t].interrupt = TRUE]
     BY DEF UplinkStops
  <1>2. gwThread["up"] \in GwLocal(S) /\ gwThread[t] \in GwLocal(S) /\ t # "up" /\ t \in GwThreads
    BY DEF GwLocals, GwThreads
  <1> DEFINE a == [gwThread["up"] EXCEPT !.pc = next]
             b == [gwThread[t] EXCEPT !.stopped = TRUE, !.interrupt = TRUE]
  <1>3. a \in GwLocal(S) BY <1>2 DEF GwLocal
  <1>4. b \in GwLocal(S) /\ b.pc = gwThread[t].pc /\ b.conn = gwThread[t].conn BY <1>2 DEF GwLocal
  <1>5. gwThread' = [gwThread EXCEPT !["up"] = a, ![t] = b] BY <1>1, <1>2 DEF GwLocals, GwThreads
  <1> HIDE DEF b
  <1> QED BY <1>2, <1>3, <1>4, <1>5 DEF GwLocals, GwThreads
\* One thread's record, or two, are replaced.
LEMMA GwOneThread ==
  ASSUME NEW S, GwLocals(S), NEW t \in GwThreads, NEW r \in GwLocal(S),
         gwThread' = [gwThread EXCEPT ![t] = r]
  PROVE  /\ GwLocals(S)' /\ gwThread'[t] = r
         /\ \A u \in GwThreads \ {t} : gwThread'[u] = gwThread[u]
  BY DEF GwLocals

\* The main thread tells a thread to stop: it is where it was.
LEMMA GwStopEffect ==
  ASSUME NEW S, GwLocals(S), NEW t \in GwThreads, NEW who, Stop(t, who)
  PROVE  /\ GwLocals(S)'
         /\ gwThread'[t].pc = gwThread[t].pc /\ gwThread'[t].conn = gwThread[t].conn
         /\ \A u \in GwThreads \ {t} : gwThread'[u] = gwThread[u]
  <1> DEFINE r == [gwThread[t] EXCEPT !.stopped = TRUE, !.interrupt = TRUE]
  <1>1. gwThread[t] \in GwLocal(S) BY DEF GwLocals
  <1>2. r \in GwLocal(S) /\ r.pc = gwThread[t].pc /\ r.conn = gwThread[t].conn BY <1>1 DEF GwLocal
  <1>3. gwThread' = [gwThread EXCEPT ![t] = r] BY DEF Stop, GwLocals
  <1> HIDE DEF r
  <1> QED BY <1>2, <1>3, GwOneThread

\* A thread that has ended is replaced.
LEMMA GwJoinedEffect ==
  ASSUME NEW S, 0 \in S, GwLocals(S), NEW t \in GwThreads, NEW label \in GwLabels, Joined(t, label)
  PROVE  /\ GwLocals(S)' /\ gwThread'[t] = GwNew(label)
         /\ \A u \in GwThreads \ {t} : gwThread'[u] = gwThread[u]
  <1>1. GwNew(label) \in GwLocal(S) BY GwNewLocal
  <1>2. gwThread' = [gwThread EXCEPT ![t] = GwNew(label)] BY DEF Joined
  <1> QED BY <1>1, <1>2, GwOneThread

\* The server's socket is closed or broken, and the thread t goes on.
LEMMA GwCutEffect ==
  ASSUME NEW S, GwLocals(S), NEW u \in GwThreads
  PROVE  /\ ServerCut \in [GwThreads -> GwLocal(S)]
         /\ ServerCut[u].pc = gwThread[u].pc /\ ServerCut[u].conn = gwThread[u].conn
         /\ ServerCut[u].interrupt = gwThread[u].interrupt
  <1>1. \A t \in GwThreads : gwThread[t] \in GwLocal(S) BY DEF GwLocals
  <1>2. \A t \in GwThreads : [gwThread[t] EXCEPT !.wired = FALSE] \in GwLocal(S) BY <1>1 DEF GwLocal
  <1>3. ServerCut[u] = [gwThread[u] EXCEPT !.wired = FALSE] BY DEF ServerCut
  <1>4. ServerCut \in [GwThreads -> GwLocal(S)] BY <1>2 DEF ServerCut
  <1> QED BY <1>1, <1>3, <1>4 DEF GwLocal

\* ... when the thread that closes it goes on.
LEMMA GwCutGoesEffect ==
  ASSUME NEW S, GwLocals(S), NEW t \in GwThreads, NEW label \in GwLabels,
         gwThread' = [ServerCut EXCEPT ![t].pc = label]
  PROVE  /\ GwLocals(S)' /\ gwThread'[t].pc = label
         /\ \A u \in GwThreads \ {t} : gwThread'[u].pc = gwThread[u].pc
         /\ \A u \in GwThreads : /\ gwThread'[u].conn = gwThread[u].conn
                                 /\ gwThread'[u].interrupt = gwThread[u].interrupt
  <1>1. \A u \in GwThreads :
          /\ ServerCut \in [GwThreads -> GwLocal(S)]
          /\ ServerCut[u].pc = gwThread[u].pc /\ ServerCut[u].conn = gwThread[u].conn
          /\ ServerCut[u].interrupt = gwThread[u].interrupt
     BY GwCutEffect
  <1> DEFINE r == [ServerCut[t] EXCEPT !.pc = label]
  <1>2. r \in GwLocal(S) /\ r.pc = label /\ r.conn = ServerCut[t].conn /\ r.interrupt = ServerCut[t].interrupt
     <2>1. ServerCut[t] \in GwLocal(S) BY <1>1
     <2> QED BY <2>1 DEF GwLocal
  <1>3. gwThread' = [ServerCut EXCEPT ![t] = r] OBVIOUS
  <1> HIDE DEF r
  <1> QED BY <1>1, <1>2, <1>3 DEF GwLocals

\* The uplink thread waits for another one: the field is cleared unless the wait is interrupted.
LEMMA GwJoinsEffect ==
  ASSUME NEW S, 0 \in S, GwLocals(S), NEW t \in {"down", "mon"}, NEW next \in GwLabels, UplinkJoins(t, next)
  PROVE  /\ GwLocals(S)'
         /\ gwThread'["up"].pc = next /\ gwThread'["up"].conn = gwThread["up"].conn
         /\ ~Up.interrupt => gwThread'[t].pc = "none" /\ ~gwThread'["up"].interrupt
         /\ gwThread'[t].pc = "none" \/ gwThread'[t] = gwThread[t]
         /\ \A u \in GwThreads \ {t, "up"} : gwThread'[u] = gwThread[u]
  <1> DEFINE i == IF gwThread[t].pc = "none" THEN gwThread["up"].interrupt ELSE FALSE
             a == [gwThread["up"] EXCEPT !.pc = next, !.interrupt = i]
             b == IF gwThread[t].pc # "none" /\ Up.interrupt THEN gwThread[t] ELSE GwNew("none")
  <1>1. gwThread["up"] \in GwLocal(S) /\ gwThread[t] \in GwLocal(S) /\ t \in GwThreads \ {"up"}
        /\ "up" \in GwThreads
     BY DEF GwLocals, GwThreads
  <1>2. GwNew("none") \in GwLocal(S) /\ GwNew("none").pc = "none" BY GwNewLocal DEF GwLabels
  <1>3. i \in BOOLEAN /\ (~Up.interrupt => ~i)
     <2>1. gwThread["up"].interrupt \in BOOLEAN BY <1>1 DEF GwLocal
     <2> QED BY <2>1 DEF Up
  <1> HIDE DEF i
  <1>4. a \in GwLocal(S) /\ a.pc = next /\ a.conn = gwThread["up"].conn /\ a.interrupt = i
     BY <1>1, <1>3 DEF GwLocal
  <1>5. b \in GwLocal(S) /\ (b.pc = "none" \/ b = gwThread[t]) /\ (~Up.interrupt => b.pc = "none")
     BY <1>1, <1>2
  <1>6. gwThread' = [gwThread EXCEPT !["up"] = a, ![t] = b]
     BY <1>1 DEF UplinkJoins, GwLocals, i
  <1> HIDE DEF a, b
  <1>7. /\ GwLocals(S)' /\ gwThread'["up"] = a /\ gwThread'[t] = b
        /\ \A u \in GwThreads \ {"up", t} : gwThread'[u] = gwThread[u]
     BY <1>1, <1>4, <1>5, <1>6 DEF GwLocals
  <1> QED BY <1>3, <1>4, <1>5, <1>7

(***************************************************************************)
(* The inductive invariant.  What holds whatever the user does, and, as long *)
(* as no answer is late and nothing is carried over (GwCalm), that the     *)
(* service accepts, waits for the user or serves, one at a time.           *)
(***************************************************************************)
\* Where the three threads are.
GwA == gwThread["accept"].pc
GwU == gwThread["up"].pc
GwD == gwThread["down"].pc
GwAConn == gwThread["accept"].conn
GwUConn == gwThread["up"].conn
GwDConn == gwThread["down"].conn
GwUInt == gwThread["up"].interrupt
GwOn == gwWorld.adapter = "on"
GwCalm == ~GwOdd({"answer", "carried"})

\* The types of the variables.
GwFieldsOK ==
  gw \in [enable : BOOLEAN, interrupted : BOOLEAN, listen : BOOLEAN, rfcomm : 0..gwConfig.conns,
          remote : 0..gwConfig.conns, server : {"none", "open", "dead", "unconnected"}, waiting : BOOLEAN]
GwLocksOK == gwLock \in [GwThreads -> {"free", "main", "accept", "up"}]
GwQueueOK == gwQueue \in [start : BOOLEAN, timeouts : SUBSET (GwConn \X {"delayed", "acl"})]
GwWorldOK ==
  /\ gwWorld \in [adapter : {"off", "on", "turning_off", "closed"}, open : SUBSET GwConn,
                  linked : SUBSET GwConn, asked : SUBSET GwConn, allowed : SUBSET GwConn,
                  told : SUBSET GwConn, crashed : BOOLEAN]
  /\ gwWorld.linked \subseteq gwWorld.open
GwPastOK ==
  gwPast \in [stale : SUBSET {"answer", "carried", "untimed", "write", "unconnected"}, ons : Nat, deaths : Nat,
              conns : 0..gwConfig.conns]
GwTyped ==
  /\ gwConfig \in GwConfigs
  /\ gwConfig \in [profile : {"sap", "dun"}, conns : Nat, ons : Nat, deaths : Nat]
  /\ GwFieldsOK /\ GwLocals(0..gwConfig.conns) /\ GwLocksOK /\ GwQueueOK /\ GwWorldOK /\ GwPastOK

\* The steps of the main thread.
GwTask(what, t) == [do |-> what, of |-> t]
GwDoes == {"stop", "join", "renew", "interrupt", "closeListen", "closeRfcomm", "closeServer", "removeStart",
           "removeTimeouts", "disable", "destroy"}
GwTasks == [do : GwDoes, of : GwThreads]
GwCloseRfcomm == GwTask("closeRfcomm", "accept")
GwRemove == GwTask("removeTimeouts", "accept")
GwHalt(t) == GwTask("stop", t)
GwRenew(t) == GwTask("renew", t)
GwJoin(t) == GwTask("join", t)

\* What is left of a handler while Bluetooth is on: a new listener, perhaps after the
\* connection is closed; a new uplink thread; nothing, or the removal of the timeouts.
GwClosesFirst ==
  gwTodo \in {<<GwCloseRfcomm, GwHalt("accept"), GwRenew("accept")>>,
              <<GwCloseRfcomm, GwHalt("accept"), GwRenew("accept"), GwRemove>>}
GwRelists ==
  gwTodo \in {<<GwHalt("accept"), GwRenew("accept")>>, <<GwRenew("accept")>>,
              <<GwHalt("accept"), GwRenew("accept"), GwRemove>>, <<GwRenew("accept"), GwRemove>>}
GwReups == gwTodo \in {<<GwHalt("up"), GwRenew("up"), GwRemove>>, <<GwRenew("up"), GwRemove>>}
GwRests == gwTodo \in {<<>>, <<GwRemove>>}

\* closeService: the step that is n steps before the end.
GwCloseLen == IF Dun THEN 14 ELSE 12
GwLast == IF gwWorld.adapter = "closed" THEN "destroy" ELSE "disable"
GwCloseStep(n) ==
  CASE n = 1 -> GwTask(GwLast, "accept") [] n = 2 -> GwJoin("accept") [] n = 3 -> GwHalt("accept")
    [] n = 4 -> GwTask("removeStart", "accept") [] n = 5 -> GwJoin("up") [] n = 6 -> GwHalt("up")
    [] n = 7 -> GwJoin("down") [] n = 8 -> GwHalt("down")
    [] n = 9 /\ Dun -> GwJoin("mon") [] n = 10 /\ Dun -> GwHalt("mon")
    [] n = GwCloseLen - 3 -> GwTask("closeServer", "accept") [] n = GwCloseLen - 2 -> GwCloseRfcomm
    [] n = GwCloseLen - 1 -> GwTask("closeListen", "accept") [] OTHER -> GwTask("interrupt", "accept")
GwCloses ==
  /\ gwTodo \in Seq(GwTasks) /\ Len(gwTodo) <= GwCloseLen
  /\ \A k \in 1..Len(gwTodo) : gwTodo[k] = GwCloseStep(Len(gwTodo) - k + 1)

\* The list of the main thread, in each state of the adapter.
GwTodoOK ==
  /\ gwWorld.adapter = "off" => gwTodo = <<>>
  /\ GwOn => GwClosesFirst \/ GwRelists \/ GwReups \/ GwRests
  /\ gwWorld.adapter \in {"turning_off", "closed"} => GwCloses
  /\ gwWorld.adapter = "turning_off" => gwTodo # <<>>

\* Who is inside the locks of the thread fields.
GwJoins(t) == gwTodo # <<>> /\ Head(gwTodo) \in {GwJoin(t), GwRenew(t)}
GwLocked ==
  /\ \A t \in GwThreads : gwLock[t] = "main" <=> GwJoins(t)
  /\ gwLock["accept"] \in {"free", "main"}
  /\ gwLock["up"] # "up" /\ (gwLock["up"] = "accept" <=> GwA = "join_up")
  /\ gwLock["down"] # "accept" /\ (gwLock["down"] = "up" <=> GwU = "join_down")
  /\ gwLock["mon"] # "accept" /\ (gwLock["mon"] = "up" <=> GwU = "join_mon")

\* What is closed already.
GwLeft(n) == gwWorld.adapter = "off" \/ (gwWorld.adapter = "closed" /\ gwTodo # <<>> /\ Len(gwTodo) < n)
GwNoListen == gwWorld.adapter = "turning_off" /\ Len(gwTodo) < GwCloseLen - 1
GwNoAccept == gwWorld.adapter = "turning_off" /\ Len(gwTodo) < 2
GwDropped == GwLeft(GwCloseLen - 2)
GwDownGone == GwLeft(7)
GwUpGone == GwLeft(5)
GwClosed ==
  /\ GwNoListen => ~gw.listen
  /\ GwNoAccept => GwA = "none"
  /\ gwWorld.adapter \in {"closed", "off"} => GwA = "none" /\ ~gw.listen /\ ~gw.waiting
  /\ GwDropped => gw.rfcomm = 0
  /\ GwDownGone => GwD \in {"none", "start", "done"}
  /\ GwUpGone => GwU = "none"

\* mRemoteDevice is set before anybody is asked or served.
GwNamed ==
  \/ GwU # "none" \/ GwD # "none" \/ gw.waiting \/ (GwOn /\ GwReups)
  \/ GwA \in {"notify", "wait", "timer", "stop_up", "join_up"}
  => gw.remote # 0

\* The service accepts, waits for the user or serves, one at a time.
GwURuns == GwU \notin {"none", "done"}
GwOver == GwA \in {"none", "done", "timer"}
GwServes == GwU \in {"start_mon", "read", "end", "close_rfcomm", "stop_down", "join_down"} \/ (Dun /\ GwU = "tell")
GwTaken == GwU \in {"start_down", "start_mon", "read", "end", "close_rfcomm", "tell", "stop_down", "join_down",
                    "stop_mon", "join_mon", "post"}
GwBusy == GwClosesFirst \/ GwRelists \/ GwReups
GwFree == GwOver /\ ~GwURuns /\ GwD = "none"

GwOneAtATime ==
  /\ GwURuns \/ GwD # "none" => GwOver
  /\ GwU \in {"start", "streams"} => GwD = "none"
  /\ GwOn => /\ GwURuns => ~GwUInt
             /\ GwD # "none" => GwServes
             /\ gwQueue.start \/ gw.waiting \/ GwBusy => GwFree
             /\ ~(gwQueue.start /\ gw.waiting) /\ ~(gwQueue.start /\ GwBusy) /\ ~(gw.waiting /\ GwBusy)

\* The connection that is served is allowed, and the two threads agree about it.
GwServesAllowed ==
  /\ GwU \in {"start", "streams"} \/ GwA \in {"stop_up", "join_up"} \/ (GwOn /\ GwReups) =>
       gw.rfcomm \in gwWorld.allowed \cup {0}
  /\ GwTaken => GwUConn \in gwWorld.allowed /\ gw.rfcomm \in {0, GwUConn}
  /\ GwTaken /\ GwD \in {"read", "handle"} => GwDConn = GwUConn
  /\ GwOn /\ (gw.waiting \/ GwA \in {"notify", "wait"}) => gw.rfcomm \in {0, gw.remote}

\* No connection but the one in mRfcommSocket is open.
GwOneOpen ==
  /\ gwWorld.open \subseteq {gw.rfcomm} \cup (IF GwA = "assign" THEN {GwAConn} ELSE {})
  /\ \/ GwA \in {"start", "create", "created", "loop", "accept", "blocked", "assign"}
     \/ GwU \in {"stop_down", "join_down", "stop_mon", "join_mon", "tell", "post"}
     \/ GwOn /\ (gwQueue.start \/ GwRelists)
     => gw.rfcomm = 0

\* SAP: only the device that is served is reported as connected.
GwReports ==
  GwOn /\ ~Dun => gwWorld.told \subseteq {gw.remote}
                  /\ (gwWorld.told # {} => GwServes \/ GwU = "tell")

GwRegular == GwCalm => GwOneAtATime /\ GwServesAllowed /\ GwOneOpen /\ GwReports

GwInv == GwTyped /\ GwTodoOK /\ GwLocked /\ GwClosed /\ GwNamed /\ GwRegular

(***************************************************************************)
(* The lists of steps that the main thread runs.                           *)
(***************************************************************************)
\* The first step of a list of the main thread, and what follows it.
LEMMA GwLists ==
  ASSUME NEW a, NEW b, NEW c, NEW d
  PROVE  /\ <<a>> # <<>> /\ Head(<<a>>) = a /\ Tail(<<a>>) = <<>>
         /\ <<a, b>> # <<>> /\ Head(<<a, b>>) = a /\ Tail(<<a, b>>) = <<b>> /\ <<a, b>>[2] = b
         /\ <<a, b, c>> # <<>> /\ Head(<<a, b, c>>) = a /\ Tail(<<a, b, c>>) = <<b, c>> /\ <<a, b, c>>[2] = b
         /\ <<a, b, c, d>> # <<>> /\ Head(<<a, b, c, d>>) = a /\ Tail(<<a, b, c, d>>) = <<b, c, d>>
         /\ <<a, b, c, d>>[2] = b
OBVIOUS

\* The lists while Bluetooth is on begin as their names say.
LEMMA GwHeads ==
  /\ GwClosesFirst => gwTodo # <<>> /\ Head(gwTodo) = GwCloseRfcomm
  /\ GwRelists => gwTodo # <<>> /\ Head(gwTodo) \in {GwHalt("accept"), GwRenew("accept")}
  /\ GwReups => gwTodo # <<>> /\ Head(gwTodo) \in {GwHalt("up"), GwRenew("up")}
  /\ GwRests => gwTodo = <<>> \/ Head(gwTodo) = GwRemove
<1>1. GwClosesFirst => gwTodo # <<>> /\ Head(gwTodo) = GwCloseRfcomm BY DEF GwClosesFirst
<1>2. GwRelists => gwTodo # <<>> /\ Head(gwTodo) \in {GwHalt("accept"), GwRenew("accept")} BY DEF GwRelists
<1>3. GwReups => gwTodo # <<>> /\ Head(gwTodo) \in {GwHalt("up"), GwRenew("up")} BY DEF GwReups
<1>4. GwRests => gwTodo = <<>> \/ Head(gwTodo) = GwRemove BY DEF GwRests
<1> QED BY <1>1, <1>2, <1>3, <1>4

\* ... so that they are apart.
LEMMA GwApart ==
  /\ GwClosesFirst => ~GwRelists /\ ~GwReups /\ ~GwRests
  /\ GwRelists => ~GwReups /\ ~GwRests
  /\ GwReups => ~GwRests
<1>1. /\ GwCloseRfcomm.do = "closeRfcomm" /\ GwRemove.do = "removeTimeouts"
      /\ \A t : GwHalt(t).do = "stop" /\ GwRenew(t).do = "renew"
      /\ \A t : GwHalt(t).of = t /\ GwRenew(t).of = t
  BY DEF GwCloseRfcomm, GwRemove, GwHalt, GwRenew, GwTask
<1> QED BY <1>1, GwHeads

\* A list whose first step is no join holds no lock.
LEMMA GwNoJoin ==
  ASSUME gwTodo = <<>> \/ Head(gwTodo).do \notin {"join", "renew"}
  PROVE  \A t : ~GwJoins(t)
BY DEF GwJoins, GwJoin, GwRenew, GwTask

\* What the main thread does about the thread t.
GwSame == UNCHANGED <<gwConfig, gw, gwWorld, gwQueue, gwPast>>
GwOnlyJoins(t) == \A u \in GwThreads : GwJoins(u) <=> u = t
GwJoinsNone == \A u \in GwThreads : ~GwJoins(u)
GwMStops(t) == GwSame /\ Stop(t, "main") /\ gwThread[t].pc # "none" /\ GwOnlyJoins(t)'
GwMEnds(t, label) ==
  GwSame /\ Joined(t, label) /\ (gwLock[t] = "free" \/ gwLock[t] = "main") /\ GwJoinsNone'

\* One step of the main thread's list, by its kind.
LEMMA GwStopStep ==
  ASSUME NEW t, NEW what \in {"renew", "join"}, NEW label,
         label = IF what = "renew" THEN "start" ELSE "none",
         MainStep, Head(gwTodo) = GwHalt(t), gwTodo[2] = GwTask(what, t)
  PROVE  /\ GwSame
         /\ \/ Stop(t, "main") /\ gwThread[t].pc # "none" /\ gwTodo' = Tail(gwTodo)
            \/ Joined(t, label) /\ gwLock[t] = "free" /\ gwTodo' = Tail(Tail(gwTodo))
<1>1. Head(gwTodo).do = "stop" /\ Head(gwTodo).of = t BY DEF GwHalt, GwTask
<1>2. gwTodo[2].do = what BY DEF GwTask
<1>3. UNCHANGED gwConfig BY DEF MainStep
<1>4. CASE gwThread[t].pc # "none" BY <1>1, <1>3, <1>4 DEF MainStep, GwSame
<1>5. CASE gwThread[t].pc = "none" BY <1>1, <1>2, <1>3, <1>5 DEF MainStep, GwSame
<1> QED BY <1>4, <1>5

\* ... a join, ...
LEMMA GwJoinStep ==
  ASSUME NEW t, NEW what \in {"renew", "join"}, NEW label,
         label = IF what = "renew" THEN "start" ELSE "none",
         MainStep, Head(gwTodo) = GwTask(what, t)
  PROVE  GwSame /\ Joined(t, label) /\ gwTodo' = Tail(gwTodo)
<1>1. Head(gwTodo).do = what /\ Head(gwTodo).of = t BY DEF GwTask
<1> QED BY <1>1 DEF MainStep, GwSame

\* ... a change of the fields.
LEMMA GwFieldStep ==
  ASSUME MainStep, Head(gwTodo).do \notin {"stop", "join", "renew"}
  PROVE  gwTodo # <<>> /\ UNCHANGED gwConfig /\ Fields(Head(gwTodo))
BY DEF MainStep

\* A stop holds the lock for the join after it.
LEMMA GwJoinNext ==
  ASSUME NEW t, NEW what \in {"renew", "join"}, gwTodo # <<>>, Head(gwTodo) = GwTask(what, t)
  PROVE  GwOnlyJoins(t)
<1>1. \A u : GwJoins(u) <=> Head(gwTodo) \in {GwTask("join", u), GwTask("renew", u)}
  BY DEF GwJoins, GwJoin, GwRenew
<1>2. \A u, v, w, x : GwTask(u, v) = GwTask(w, x) <=> u = w /\ v = x BY DEF GwTask
<1> QED BY <1>1, <1>2 DEF GwOnlyJoins

\* The main thread while Bluetooth is on.
LEMMA GwMainOn ==
  ASSUME MainStep, GwClosesFirst \/ GwRelists \/ GwReups \/ GwRests,
         \A t \in GwThreads : gwLock[t] = "main" <=> GwJoins(t)
  PROVE  \/ /\ GwClosesFirst /\ UNCHANGED gwConfig /\ Fields(GwCloseRfcomm)
            /\ GwRelists' /\ GwJoinsNone'
         \/ GwRelists /\ GwMStops("accept") /\ GwRelists'
         \/ GwRelists /\ GwMEnds("accept", "start") /\ GwRests'
         \/ GwReups /\ GwMStops("up") /\ GwReups'
         \/ GwReups /\ GwMEnds("up", "start") /\ GwRests'
         \/ /\ GwRests /\ UNCHANGED gwConfig /\ Fields(GwRemove)
            /\ GwRests' /\ GwJoinsNone'
<1>0. \A w, x : GwTask(w, x).do = w /\ GwTask(w, x).of = x BY DEF GwTask
<1>t. "accept" \in GwThreads /\ "up" \in GwThreads BY DEF GwThreads
<1>n. gwTodo # <<>> BY DEF MainStep
<1>1. CASE GwClosesFirst
  <2>1. Head(gwTodo) = GwCloseRfcomm /\ GwCloseRfcomm.do = "closeRfcomm"
    BY <1>0, <1>1, GwHeads DEF GwCloseRfcomm
  <2>2. UNCHANGED gwConfig /\ Fields(GwCloseRfcomm) BY <2>1, GwFieldStep
  <2>3. gwTodo' = Tail(gwTodo) BY <2>2 DEF Fields
  <2>4. GwRelists' /\ gwTodo' # <<>> /\ Head(gwTodo') = GwHalt("accept")
    <3>1. CASE gwTodo = <<GwCloseRfcomm, GwHalt("accept"), GwRenew("accept")>>
      BY <2>3, <3>1 DEF GwRelists
    <3>2. CASE gwTodo = <<GwCloseRfcomm, GwHalt("accept"), GwRenew("accept"), GwRemove>>
      BY <2>3, <3>2 DEF GwRelists
    <3> QED BY <1>1, <3>1, <3>2 DEF GwClosesFirst
  <2>5. GwJoinsNone' BY <1>0, <2>4 DEF GwJoinsNone, GwJoins, GwJoin, GwRenew, GwHalt
  <2> QED BY <1>1, <2>2, <2>4, <2>5
<1>2. ASSUME NEW t \in {"accept", "up"}, NEW rest \in {<<>>, <<GwRemove>>},
             gwTodo = IF rest = <<>> THEN <<GwHalt(t), GwRenew(t)>> ELSE <<GwHalt(t), GwRenew(t), GwRemove>>
      PROVE  \/ /\ GwMStops(t)
                /\ gwTodo' = IF rest = <<>> THEN <<GwRenew(t)>> ELSE <<GwRenew(t), GwRemove>>
             \/ GwMEnds(t, "start") /\ GwRests'
  <2> DEFINE next == IF rest = <<>> THEN <<GwRenew(t)>> ELSE <<GwRenew(t), GwRemove>>
  <2>1. /\ Head(gwTodo) = GwHalt(t) /\ gwTodo[2] = GwTask("renew", t)
        /\ Tail(gwTodo) = next /\ Tail(Tail(gwTodo)) = rest
        /\ next # <<>> /\ Head(next) = GwTask("renew", t)
    <3>1. CASE rest = <<>> BY <1>2, <3>1 DEF GwRenew
    <3>2. CASE rest = <<GwRemove>>
      <4>1. gwTodo = <<GwHalt(t), GwRenew(t), GwRemove>> /\ next = <<GwRenew(t), GwRemove>> BY <1>2, <3>2
      <4> HIDE DEF next
      <4> QED BY <3>2, <4>1 DEF GwRenew
    <3> QED BY <3>1, <3>2
  <2> HIDE DEF next
  <2>2. /\ GwSame
        /\ \/ Stop(t, "main") /\ gwThread[t].pc # "none" /\ gwTodo' = Tail(gwTodo)
           \/ Joined(t, "start") /\ gwLock[t] = "free" /\ gwTodo' = Tail(Tail(gwTodo))
    BY <2>1, GwStopStep
  <2>3. gwTodo' = Tail(gwTodo) => GwOnlyJoins(t)'
    <3> SUFFICES ASSUME gwTodo' = next PROVE GwOnlyJoins(t)' BY <2>1
    <3>1. gwTodo' # <<>> /\ Head(gwTodo') = GwTask("renew", t) BY <2>1
    <3>2. \A u, v, w, x : GwTask(u, v) = GwTask(w, x) <=> u = w /\ v = x BY DEF GwTask
    <3> QED BY <3>1, <3>2 DEF GwOnlyJoins, GwJoins, GwJoin, GwRenew
  <2>4. gwTodo' = rest => GwJoinsNone' /\ GwRests'
    BY <1>0 DEF GwJoinsNone, GwJoins, GwJoin, GwRenew, GwRemove, GwRests
  <2> QED BY <2>1, <2>2, <2>3, <2>4 DEF GwMStops, GwMEnds, next
<1>3. ASSUME NEW t \in {"accept", "up"}, NEW rest \in {<<>>, <<GwRemove>>},
             gwTodo = IF rest = <<>> THEN <<GwRenew(t)>> ELSE <<GwRenew(t), GwRemove>>
      PROVE  GwMEnds(t, "start") /\ GwRests'
  <2>1. Head(gwTodo) = GwTask("renew", t) /\ Tail(gwTodo) = rest
    <3>1. CASE rest = <<>> BY <1>3, <3>1 DEF GwRenew
    <3>2. CASE rest = <<GwRemove>>
      <4>1. gwTodo = <<GwRenew(t), GwRemove>> BY <1>3, <3>2
      <4> QED BY <3>2, <4>1 DEF GwRenew
    <3> QED BY <3>1, <3>2
  <2>2. GwSame /\ Joined(t, "start") /\ gwTodo' = rest BY <2>1, GwJoinStep
  <2>3. gwLock[t] = "main" BY <1>t, <1>n, <2>1 DEF GwJoins, GwRenew
  <2>4. GwJoinsNone' /\ GwRests'
    BY <1>0, <2>2 DEF GwJoinsNone, GwJoins, GwJoin, GwRenew, GwRemove, GwRests
  <2> QED BY <2>2, <2>3, <2>4 DEF GwMEnds
<1>4. <<GwRemove>> # <<>> OBVIOUS
<1>5. CASE GwRelists
  <2>1. CASE gwTodo = <<GwHalt("accept"), GwRenew("accept")>> BY <1>2, <1>5, <2>1 DEF GwRelists
  <2>2. CASE gwTodo = <<GwHalt("accept"), GwRenew("accept"), GwRemove>>
    <3>1. \/ GwMStops("accept") /\ gwTodo' = <<GwRenew("accept"), GwRemove>>
          \/ GwMEnds("accept", "start") /\ GwRests'
      BY <1>2, <1>4, <2>2
    <3>2. gwTodo' = <<GwRenew("accept"), GwRemove>> => GwRelists' BY DEF GwRelists
    <3> QED BY <1>5, <3>1, <3>2
  <2>3. CASE gwTodo = <<GwRenew("accept")>> BY <1>3, <1>5, <2>3
  <2>4. CASE gwTodo = <<GwRenew("accept"), GwRemove>>
    <3>1. GwMEnds("accept", "start") /\ GwRests' BY <1>3, <1>4, <2>4
    <3> QED BY <1>5, <3>1
  <2> QED BY <1>5, <2>1, <2>2, <2>3, <2>4 DEF GwRelists
<1>6. CASE GwReups
  <2>1. CASE gwTodo = <<GwHalt("up"), GwRenew("up"), GwRemove>>
    <3>1. \/ GwMStops("up") /\ gwTodo' = <<GwRenew("up"), GwRemove>>
          \/ GwMEnds("up", "start") /\ GwRests'
      BY <1>2, <1>4, <2>1
    <3>2. gwTodo' = <<GwRenew("up"), GwRemove>> => GwReups' BY DEF GwReups
    <3> QED BY <1>6, <3>1, <3>2
  <2>2. CASE gwTodo = <<GwRenew("up"), GwRemove>>
    <3>1. GwMEnds("up", "start") /\ GwRests' BY <1>3, <1>4, <2>2
    <3> QED BY <1>6, <3>1
  <2> QED BY <1>6, <2>1, <2>2 DEF GwReups
<1>7. CASE GwRests
  <2>0. gwTodo = <<GwRemove>> BY <1>n, <1>7 DEF GwRests
  <2>1. Head(gwTodo) = GwRemove /\ Tail(gwTodo) = <<>> BY <2>0
  <2>2. UNCHANGED gwConfig /\ Fields(GwRemove) BY <1>0, <2>1, GwFieldStep DEF GwRemove
  <2>3. gwTodo' = <<>> BY <2>1, <2>2 DEF Fields
  <2>4. GwRests' /\ GwJoinsNone' BY <2>3 DEF GwRests, GwJoinsNone, GwJoins
  <2> QED BY <1>7, <2>2, <2>4
<1> QED BY <1>1, <1>5, <1>6, <1>7

\* The list of closeService, from its end.
LEMMA GwCloseHead ==
  ASSUME GwCloses, gwTodo # <<>>
  PROVE  /\ Len(gwTodo) \in 1..GwCloseLen /\ Head(gwTodo) = GwCloseStep(Len(gwTodo))
         /\ Len(gwTodo) > 1 => gwTodo[2] = GwCloseStep(Len(gwTodo) - 1)
<1>1. gwTodo \in Seq(GwTasks) /\ Len(gwTodo) \in Nat /\ Len(gwTodo) > 0
      /\ Head(gwTodo) = gwTodo[1]
  BY DEF GwCloses
<1>2. Len(gwTodo) <= GwCloseLen /\ GwCloseLen \in Nat BY DEF GwCloses, GwCloseLen
<1>3. \A k \in 1..Len(gwTodo) : gwTodo[k] = GwCloseStep(Len(gwTodo) - k + 1) BY DEF GwCloses
<1>4. gwTodo[1] = GwCloseStep(Len(gwTodo) - 1 + 1) BY <1>1, <1>3
<1>5. Len(gwTodo) - 1 + 1 = Len(gwTodo) BY <1>1
<1>6. ASSUME Len(gwTodo) > 1 PROVE gwTodo[2] = GwCloseStep(Len(gwTodo) - 1)
  <2>1. gwTodo[2] = GwCloseStep(Len(gwTodo) - 2 + 1) BY <1>1, <1>3, <1>6
  <2>2. Len(gwTodo) - 2 + 1 = Len(gwTodo) - 1 BY <1>1
  <2> QED BY <2>1, <2>2
<1> QED BY <1>1, <1>2, <1>4, <1>5, <1>6

\* Taking a step off the list leaves the list from its end.
LEMMA GwCloseTail ==
  ASSUME GwCloses, NEW m \in {1, 2}, Len(gwTodo) >= m,
         gwTodo' = IF m = 1 THEN Tail(gwTodo) ELSE Tail(Tail(gwTodo)),
         UNCHANGED gwConfig, GwLast' = GwLast
  PROVE  GwCloses' /\ Len(gwTodo') = Len(gwTodo) - m
<1>1. gwTodo \in Seq(GwTasks) /\ Len(gwTodo) \in Nat BY DEF GwCloses
<1>2. /\ gwTodo' \in Seq(GwTasks) /\ Len(gwTodo') = Len(gwTodo) - m
      /\ \A k \in 1..Len(gwTodo') : gwTodo'[k] = gwTodo[k + m]
  <2>1. CASE m = 1
    BY <1>1, <2>1
  <2>2. CASE m = 2
    <3>1. Tail(gwTodo) \in Seq(GwTasks) /\ Len(Tail(gwTodo)) = Len(gwTodo) - 1
          /\ \A k \in 1..(Len(gwTodo) - 1) : Tail(gwTodo)[k] = gwTodo[k + 1]
      BY <1>1, <2>2
    <3> DEFINE s == Tail(gwTodo)
    <3> HIDE DEF s
    <3>2. s \in Seq(GwTasks) /\ Len(s) >= 1 /\ Len(s) \in Nat BY <1>1, <2>2, <3>1 DEF s
    <3>3. Tail(s) \in Seq(GwTasks) /\ Len(Tail(s)) = Len(s) - 1 /\ \A k \in 1..(Len(s) - 1) : Tail(s)[k] = s[k + 1]
      BY <3>2
    <3>4. gwTodo' = Tail(s) BY <2>2 DEF s
    <3>5. ASSUME NEW k \in 1..Len(gwTodo') PROVE gwTodo'[k] = gwTodo[k + 2]
      <4>0. Len(gwTodo') = Len(s) - 1 /\ Len(s) = Len(gwTodo) - 1 BY <3>1, <3>3, <3>4 DEF s
      <4>1. k \in 1..(Len(s) - 1) /\ k + 1 \in 1..(Len(gwTodo) - 1) /\ (k + 1) + 1 = k + 2
        BY <1>1, <3>2, <4>0
      <4>2. gwTodo'[k] = s[k + 1] BY <3>3, <3>4, <4>1
      <4>3. s[k + 1] = gwTodo[(k + 1) + 1] BY <3>1, <4>1 DEF s
      <4> QED BY <4>1, <4>2, <4>3
    <3> QED BY <2>2, <3>1, <3>3, <3>4, <3>5, SMTT(60) DEF s
  <2> QED BY <2>1, <2>2
<1>3. \A k : GwCloseStep(k)' = GwCloseStep(k)
  BY DEF GwCloseStep, GwCloseLen, Dun, GwTask, GwJoin, GwHalt, GwCloseRfcomm
<1>4. GwCloseLen' = GwCloseLen /\ GwCloseLen \in Nat BY DEF GwCloseLen, Dun
<1>5. \A k \in 1..Len(gwTodo) : gwTodo[k] = GwCloseStep(Len(gwTodo) - k + 1) BY DEF GwCloses
<1>6. ASSUME NEW k \in 1..Len(gwTodo') PROVE gwTodo'[k] = GwCloseStep(Len(gwTodo') - k + 1)
  <2>0. PICK n : n = Len(gwTodo) OBVIOUS
  <2>a. PICK l : l = Len(gwTodo') OBVIOUS
  <2>b. n \in Nat /\ m \in Nat /\ l = n - m /\ k \in 1..l /\ m <= n BY <1>1, <1>2, <2>0, <2>a
  <2>c. k + m \in 1..n /\ n - (k + m) + 1 = l - k + 1 BY <2>b
  <2>1. k + m \in 1..Len(gwTodo) /\ Len(gwTodo) - (k + m) + 1 = Len(gwTodo') - k + 1 BY <2>0, <2>a, <2>c
  <2> QED BY <1>2, <1>5, <2>1
<1>7. Len(gwTodo') <= GwCloseLen BY <1>1, <1>2, <1>4 DEF GwCloses
<1> QED BY <1>2, <1>3, <1>4, <1>6, <1>7 DEF GwCloses

\* Where each thread is joined.
GwJoinAt(t) == CASE t = "accept" -> 2 [] t = "up" -> 5 [] t = "down" -> 7 [] OTHER -> 9

\* The steps of closeService by their place.
LEMMA GwCloseAt ==
  /\ GwCloseLen = IF Dun THEN 14 ELSE 12
  /\ GwCloseStep(1) = GwTask(GwLast, "accept")
  /\ GwCloseStep(2) = GwTask("join", "accept") /\ GwCloseStep(3) = GwHalt("accept")
  /\ GwCloseStep(4) = GwTask("removeStart", "accept")
  /\ GwCloseStep(5) = GwTask("join", "up") /\ GwCloseStep(6) = GwHalt("up")
  /\ GwCloseStep(7) = GwTask("join", "down") /\ GwCloseStep(8) = GwHalt("down")
  /\ Dun => GwCloseStep(9) = GwTask("join", "mon") /\ GwCloseStep(10) = GwHalt("mon")
  /\ GwCloseStep(GwCloseLen - 3) = GwTask("closeServer", "accept")
  /\ GwCloseStep(GwCloseLen - 2) = GwTask("closeRfcomm", "accept")
  /\ GwCloseStep(GwCloseLen - 1) = GwTask("closeListen", "accept")
  /\ GwCloseStep(GwCloseLen) = GwTask("interrupt", "accept")
<1>1. CASE Dun
  <2>1. GwCloseLen = 14 BY <1>1 DEF GwCloseLen
  <2> QED BY <1>1, <2>1 DEF GwCloseStep, GwJoin, GwCloseRfcomm
<1>2. CASE ~Dun
  <2>1. GwCloseLen = 12 BY <1>2 DEF GwCloseLen
  <2> QED BY <1>2, <2>1 DEF GwCloseStep, GwJoin, GwCloseRfcomm
<1> QED BY <1>1, <1>2

\* Nothing follows the last step.
LEMMA GwLastTail ==
  ASSUME NEW S, NEW s \in Seq(S), Len(s) = 1
  PROVE  Tail(s) = <<>>
<1>1. s # <<>> BY EmptySeq
<1>2. Tail(s) \in Seq(S) /\ Len(Tail(s)) = Len(s) - 1 BY <1>1, HeadTailProperties
<1>3. Len(Tail(s)) = 0 BY <1>2
<1> QED BY <1>2, <1>3, EmptySeq

\* The main thread while the service is closed.
GwFieldAt(what) ==
  CASE what = "interrupt" -> GwCloseLen [] what = "closeListen" -> GwCloseLen - 1
    [] what = "closeRfcomm" -> GwCloseLen - 2 [] what = "closeServer" -> GwCloseLen - 3
    [] OTHER -> 4
GwFieldSteps == {"interrupt", "closeListen", "closeRfcomm", "closeServer", "removeStart"}

\* Of the lists of closeService, those that begin with a join.
LEMMA GwCloseJoins ==
  ASSUME GwCloses
  PROVE  \A t \in GwThreads : GwJoins(t) <=> Len(gwTodo) = GwJoinAt(t) /\ (t = "mon" => Dun)
<1>0. /\ \A w, x : GwTask(w, x).do = w /\ GwTask(w, x).of = x
      /\ \A u, v, w, x : GwTask(u, v) = GwTask(w, x) <=> u = w /\ v = x
  BY DEF GwTask
<1>1. CASE gwTodo = <<>>
  <2>1. Len(gwTodo) = 0 BY <1>1
  <2> QED BY <1>1, <2>1 DEF GwJoins, GwJoinAt
<1>2. CASE gwTodo # <<>>
  <2>1. Len(gwTodo) \in 1..GwCloseLen /\ Head(gwTodo) = GwCloseStep(Len(gwTodo)) BY <1>2, GwCloseHead
  <2>2. \A t : GwJoins(t) <=> Head(gwTodo) \in {GwTask("join", t), GwTask("renew", t)}
    BY <1>2 DEF GwJoins, GwJoin, GwRenew
  <2> DEFINE n == Len(gwTodo)
  <2>3. /\ Head(gwTodo).do = "join" <=> n \in {2, 5, 7} \/ (Dun /\ n = 9)
        /\ n = 2 => Head(gwTodo) = GwTask("join", "accept")
        /\ n = 5 => Head(gwTodo) = GwTask("join", "up")
        /\ n = 7 => Head(gwTodo) = GwTask("join", "down")
        /\ Dun /\ n = 9 => Head(gwTodo) = GwTask("join", "mon")
        /\ Head(gwTodo).do # "renew"
    <3>1. GwLast \in {"destroy", "disable"} BY DEF GwLast
    <3>2. CASE Dun
      <4>1. GwCloseLen = 14 BY <3>2 DEF GwCloseLen
      <4>2. n \in {1, 2, 3, 4, 5, 6, 7, 8, 9, 10, 11, 12, 13, 14} BY <2>1, <4>1
      <4>3. /\ GwCloseStep(11) = GwTask("closeServer", "accept")
            /\ GwCloseStep(12) = GwTask("closeRfcomm", "accept")
            /\ GwCloseStep(13) = GwTask("closeListen", "accept")
            /\ GwCloseStep(14) = GwTask("interrupt", "accept")
        BY <4>1, GwCloseAt
      <4>4. Head(gwTodo) = GwCloseStep(n) BY <2>1
      <4> HIDE DEF n
      <4> QED BY <1>0, <3>1, <3>2, <4>2, <4>3, <4>4, GwCloseAt DEF GwHalt
    <3>3. CASE ~Dun
      <4>1. GwCloseLen = 12 BY <3>3 DEF GwCloseLen
      <4>2. n \in {1, 2, 3, 4, 5, 6, 7, 8, 9, 10, 11, 12} BY <2>1, <4>1
      <4>3. /\ GwCloseStep(9) = GwTask("closeServer", "accept")
            /\ GwCloseStep(10) = GwTask("closeRfcomm", "accept")
            /\ GwCloseStep(11) = GwTask("closeListen", "accept")
            /\ GwCloseStep(12) = GwTask("interrupt", "accept")
        BY <4>1, GwCloseAt
      <4>4. Head(gwTodo) = GwCloseStep(n) BY <2>1
      <4> HIDE DEF n
      <4> QED BY <1>0, <3>1, <3>3, <4>2, <4>3, <4>4, GwCloseAt DEF GwHalt
    <3> QED BY <3>2, <3>3
  <2> HIDE DEF n
  <2>4. \A t \in GwThreads : GwJoinAt(t) = CASE t = "accept" -> 2 [] t = "up" -> 5 [] t = "down" -> 7 [] t = "mon" -> 9
    BY DEF GwJoinAt, GwThreads
  <2>5. ASSUME NEW t \in GwThreads PROVE GwJoins(t) <=> n = GwJoinAt(t) /\ (t = "mon" => Dun)
    <3>1. GwJoins(t) <=> Head(gwTodo) = GwTask("join", t) BY <1>0, <2>2, <2>3
    <3>2. CASE t = "accept" BY <1>0, <2>3, <2>4, <3>1, <3>2
    <3>3. CASE t = "up" BY <1>0, <2>3, <2>4, <3>1, <3>3
    <3>4. CASE t = "down" BY <1>0, <2>3, <2>4, <3>1, <3>4
    <3>5. CASE t = "mon" BY <1>0, <2>3, <2>4, <3>1, <3>5
    <3> QED BY <3>2, <3>3, <3>4, <3>5 DEF GwThreads
  <2> QED BY <2>5 DEF n
<1> QED BY <1>1, <1>2

\* Every place of the list is a join, a stop, or one of the steps that set fields.
LEMMA GwPlaces ==
  ASSUME NEW n \in Nat, n \in 1..GwCloseLen
  PROVE  /\ \/ n = 1 \/ n \in {2, 5, 7} \/ (n = 9 /\ Dun) \/ n \in {3, 6, 8} \/ (n = 10 /\ Dun) \/ n = 4
            \/ n \in {GwCloseLen, GwCloseLen - 1, GwCloseLen - 2, GwCloseLen - 3}
         /\ n = 4 \/ n \in {GwCloseLen, GwCloseLen - 1, GwCloseLen - 2, GwCloseLen - 3} =>
              n > 1 /\ n - 1 \notin {2, 5, 7} /\ ~(Dun /\ n - 1 = 9)
<1>1. CASE Dun
  <2>1. GwCloseLen = 14 BY <1>1 DEF GwCloseLen
  <2>2. n \in {1, 2, 3, 4, 5, 6, 7, 8, 9, 10, 11, 12, 13, 14} BY <2>1
  <2> QED BY <1>1, <2>1, <2>2
<1>2. CASE ~Dun
  <2>1. GwCloseLen = 12 BY <1>2 DEF GwCloseLen
  <2>2. n \in {1, 2, 3, 4, 5, 6, 7, 8, 9, 10, 11, 12} BY <2>1
  <2> QED BY <1>2, <2>1, <2>2
<1> QED BY <1>1, <1>2

\* A step of closeService: the last one, a change of the fields, or the end of a thread.
LEMMA GwMainCloses ==
  ASSUME MainStep, GwCloses, \A t \in GwThreads : gwLock[t] = "main" <=> GwJoins(t), NEW n, n = Len(gwTodo),
         GwTyped
  PROVE  \/ n = 1 /\ UNCHANGED gwConfig /\ Fields(GwTask(GwLast, "accept")) /\ gwTodo' = <<>>
         \/ \E what \in GwFieldSteps :
              /\ n = GwFieldAt(what) /\ n > 1 /\ UNCHANGED gwConfig /\ Fields(GwTask(what, "accept"))
              /\ GwJoinsNone'
              /\ GwCloses' /\ Len(gwTodo') = n - 1
         \/ \E t \in GwThreads : /\ GwMStops(t) /\ GwCloses' /\ (t = "mon" => Dun)
                                 /\ n = GwJoinAt(t) + 1 /\ Len(gwTodo') = GwJoinAt(t)
         \/ \E t \in GwThreads : /\ GwMEnds(t, "none") /\ GwCloses' /\ (t = "mon" => Dun)
                                 /\ n \in {GwJoinAt(t), GwJoinAt(t) + 1} /\ Len(gwTodo') = GwJoinAt(t) - 1
<1>0. /\ \A w, x : GwTask(w, x).do = w /\ GwTask(w, x).of = x
      /\ \A u, v, w, x : GwTask(u, v) = GwTask(w, x) <=> u = w /\ v = x
  BY DEF GwTask
<1>1. gwTodo # <<>> BY DEF MainStep
<1>2. n \in 1..GwCloseLen /\ Head(gwTodo) = GwCloseStep(n) /\ (n > 1 => gwTodo[2] = GwCloseStep(n - 1))
  BY <1>1, GwCloseHead
<1>3. GwCloseLen = IF Dun THEN 14 ELSE 12 BY DEF GwCloseLen
<1>s. gwTodo \in Seq(GwTasks) /\ n \in Nat BY <1>2, <1>3 DEF GwCloses
<1>j. GwCloses' => \A t \in GwThreads : GwJoins(t)' <=> Len(gwTodo') = GwJoinAt(t) /\ (t = "mon" => Dun')
  <2>1. (GwCloses => \A t \in GwThreads : GwJoins(t) <=> Len(gwTodo) = GwJoinAt(t) /\ (t = "mon" => Dun))'
    BY GwCloseJoins, PTL
  <2>2. \A t : GwJoinAt(t)' = GwJoinAt(t) BY DEF GwJoinAt
  <2> QED BY <2>1, <2>2
<1>a. \A t \in GwThreads : GwJoinAt(t) = CASE t = "accept" -> 2 [] t = "up" -> 5 [] t = "down" -> 7 [] t = "mon" -> 9
  BY DEF GwJoinAt, GwThreads
<1>4. CASE n = 1
  <2>1. GwLast \in {"destroy", "disable"} BY DEF GwLast
  <2>2. Head(gwTodo) = GwTask(GwLast, "accept") BY <1>2, <1>4, GwCloseAt
  <2>3. UNCHANGED gwConfig /\ Fields(GwTask(GwLast, "accept")) BY <1>0, <2>1, <2>2, GwFieldStep
  <2>4. gwTodo' = Tail(gwTodo) BY <2>3 DEF Fields
  <2>5. Tail(gwTodo) = <<>>
    BY <1>1, <1>4, <1>s, GwLastTail
  <2> QED BY <1>4, <2>3, <2>4, <2>5
<1>5. ASSUME NEW what \in GwFieldSteps, n = GwFieldAt(what), n > 1, Head(gwTodo) = GwTask(what, "accept"),
             n - 1 \notin {2, 5, 7}, ~(Dun /\ n - 1 = 9)
      PROVE  /\ UNCHANGED gwConfig /\ Fields(GwTask(what, "accept")) /\ GwJoinsNone'
             /\ GwCloses' /\ Len(gwTodo') = n - 1
  <2>1. UNCHANGED gwConfig /\ Fields(GwTask(what, "accept")) BY <1>0, <1>5, GwFieldStep DEF GwFieldSteps
  <2>2. gwTodo' = Tail(gwTodo) BY <2>1 DEF Fields
  <2>3. gwWorld' \in {RfcommClosed, gwWorld} BY <1>0, <2>1 DEF Fields, GwFieldSteps
  <2>4. GwLast' = GwLast BY <2>3 DEF GwLast, RfcommClosed, GwTyped, GwWorldOK
  <2>5. GwCloses' /\ Len(gwTodo') = n - 1 BY <1>5, <1>s, <2>1, <2>2, <2>4, GwCloseTail
  <2>6. Dun' = Dun BY <2>1 DEF Dun
  <2>7. GwJoinsNone' BY <1>5, <1>a, <1>j, <2>5, <2>6 DEF GwJoinsNone, GwThreads
  <2> QED BY <2>1, <2>5, <2>7
<1>6. ASSUME NEW t \in GwThreads, n = GwJoinAt(t) + 1, Head(gwTodo) = GwHalt(t), t = "mon" => Dun,
             GwCloseStep(n - 1) = GwTask("join", t)
      PROVE  \/ GwMStops(t) /\ GwCloses' /\ Len(gwTodo') = GwJoinAt(t)
             \/ GwMEnds(t, "none") /\ GwCloses' /\ Len(gwTodo') = GwJoinAt(t) - 1
  <2>1. n > 2 /\ gwTodo[2] = GwTask("join", t) BY <1>2, <1>6, <1>a DEF GwThreads
  <2>2. /\ GwSame
        /\ \/ Stop(t, "main") /\ gwThread[t].pc # "none" /\ gwTodo' = Tail(gwTodo)
           \/ Joined(t, "none") /\ gwLock[t] = "free" /\ gwTodo' = Tail(Tail(gwTodo))
    BY <1>6, <2>1, GwStopStep
  <2>3. GwLast' = GwLast /\ Dun' = Dun /\ gwConfig' = gwConfig BY <2>2 DEF GwSame, GwLast, Dun
  <2>4. CASE Stop(t, "main") /\ gwThread[t].pc # "none" /\ gwTodo' = Tail(gwTodo)
    <3>1. GwCloses' /\ Len(gwTodo') = n - 1 BY <1>s, <2>1, <2>3, <2>4, GwCloseTail
    <3>2. GwOnlyJoins(t)' BY <1>6, <1>a, <1>j, <1>s, <2>3, <3>1 DEF GwOnlyJoins, GwThreads
    <3> QED BY <1>6, <1>a, <1>s, <2>2, <2>4, <3>1, <3>2 DEF GwMStops, GwThreads
  <2>5. CASE Joined(t, "none") /\ gwLock[t] = "free" /\ gwTodo' = Tail(Tail(gwTodo))
    <3>1. GwCloses' /\ Len(gwTodo') = n - 2 BY <1>s, <2>1, <2>3, <2>5, GwCloseTail
    <3>2. GwJoinsNone'
      <4>1. n - 2 \in {1, 4, 6, 8} BY <1>6, <1>a, <1>s DEF GwThreads
      <4>2. \A u \in GwThreads : GwJoinAt(u) \in {2, 5, 7, 9} BY <1>a DEF GwThreads
      <4>3. Len(gwTodo') \in {1, 4, 6, 8} BY <3>1, <4>1
      <4>4. \A u \in GwThreads : Len(gwTodo') # GwJoinAt(u)
        <5> DEFINE m == Len(gwTodo')
        <5> HIDE DEF m
        <5>1. m \in {1, 4, 6, 8} BY <4>3 DEF m
        <5>2. \A u \in GwThreads : m # GwJoinAt(u) BY <4>2, <5>1
        <5> QED BY <5>2 DEF m
      <4> QED BY <1>j, <3>1, <4>4 DEF GwJoinsNone
    <3>3. n - 2 = GwJoinAt(t) - 1 BY <1>6, <1>a, <1>s DEF GwThreads
    <3> QED BY <2>2, <2>5, <3>1, <3>2, <3>3 DEF GwMEnds
  <2> QED BY <2>2, <2>4, <2>5
<1>7. ASSUME NEW t \in GwThreads, n = GwJoinAt(t), Head(gwTodo) = GwTask("join", t), t = "mon" => Dun
      PROVE  GwMEnds(t, "none") /\ GwCloses' /\ Len(gwTodo') = GwJoinAt(t) - 1
  <2>1. GwSame /\ Joined(t, "none") /\ gwTodo' = Tail(gwTodo) BY <1>7, GwJoinStep
  <2>2. gwLock[t] = "main" BY <1>1, <1>7 DEF GwJoins, GwJoin
  <2>3. GwLast' = GwLast /\ Dun' = Dun /\ gwConfig' = gwConfig BY <2>1 DEF GwSame, GwLast, Dun
  <2>4. n > 1 BY <1>7, <1>a DEF GwThreads
  <2>5. GwCloses' /\ Len(gwTodo') = n - 1 BY <1>s, <2>1, <2>3, <2>4, GwCloseTail
  <2>6. GwJoinsNone' BY <1>7, <1>a, <1>j, <1>s, <2>3, <2>5 DEF GwJoinsNone, GwThreads
  <2> QED BY <1>7, <2>1, <2>2, <2>5, <2>6 DEF GwMEnds
<1>8. CASE n \in {2, 5, 7} \/ (n = 9 /\ Dun)
  <2>1. PICK t \in GwThreads : n = GwJoinAt(t) /\ Head(gwTodo) = GwTask("join", t) /\ (t = "mon" => Dun)
    BY <1>2, <1>8, <1>a, GwCloseAt DEF GwThreads
  <2> QED BY <1>7, <2>1
<1>9. CASE n \in {3, 6, 8} \/ (n = 10 /\ Dun)
  <2>1. PICK t \in GwThreads : /\ n = GwJoinAt(t) + 1 /\ Head(gwTodo) = GwHalt(t) /\ (t = "mon" => Dun)
                               /\ GwCloseStep(n - 1) = GwTask("join", t)
    <3>1. CASE n = 3 BY <1>2, <1>a, <3>1, GwCloseAt DEF GwThreads
    <3>2. CASE n = 6 BY <1>2, <1>a, <3>2, GwCloseAt DEF GwThreads
    <3>3. CASE n = 8 BY <1>2, <1>a, <3>3, GwCloseAt DEF GwThreads
    <3>4. CASE n = 10 /\ Dun BY <1>2, <1>a, <3>4, GwCloseAt DEF GwThreads
    <3> QED BY <1>9, <3>1, <3>2, <3>3, <3>4
  <2>2. \/ GwMStops(t) /\ GwCloses' /\ Len(gwTodo') = GwJoinAt(t)
        \/ GwMEnds(t, "none") /\ GwCloses' /\ Len(gwTodo') = GwJoinAt(t) - 1
    BY <1>6, <2>1
  <2> QED BY <2>1, <2>2
<1>10. CASE n = 4 \/ n \in {GwCloseLen, GwCloseLen - 1, GwCloseLen - 2, GwCloseLen - 3}
  <2>1. PICK what \in GwFieldSteps : n = GwFieldAt(what) /\ Head(gwTodo) = GwTask(what, "accept")
    BY <1>2, <1>3, <1>10, GwCloseAt DEF GwFieldSteps, GwFieldAt
  <2>2. n > 1 /\ n - 1 \notin {2, 5, 7} /\ ~(Dun /\ n - 1 = 9) BY <1>2, <1>10, <1>s, GwPlaces
  <2> QED BY <1>5, <2>1, <2>2
<1>11. \/ n = 1 \/ n \in {2, 5, 7} \/ (n = 9 /\ Dun) \/ n \in {3, 6, 8} \/ (n = 10 /\ Dun) \/ n = 4
       \/ n \in {GwCloseLen, GwCloseLen - 1, GwCloseLen - 2, GwCloseLen - 3}
  BY <1>2, <1>s, GwPlaces
<1> QED BY <1>4, <1>8, <1>9, <1>10, <1>11

\* What a step that leaves the main thread's list alone does not change.
GwListsKept ==
  /\ Dun' <=> Dun
  /\ GwOn' <=> GwOn
  /\ GwClosesFirst' <=> GwClosesFirst
  /\ GwRelists' <=> GwRelists
  /\ GwReups' <=> GwReups
  /\ GwRests' <=> GwRests
  /\ \A t \in GwThreads : GwJoins(t)' <=> GwJoins(t)
  /\ GwNoListen' <=> GwNoListen
  /\ GwNoAccept' <=> GwNoAccept
  /\ GwDropped' <=> GwDropped
  /\ GwDownGone' <=> GwDownGone
  /\ GwUpGone' <=> GwUpGone

\* The lists and what is closed depend on the list and on the adapter alone.
LEMMA GwKept ==
  ASSUME UNCHANGED <<gwConfig, gwTodo>>, gwWorld'.adapter = gwWorld.adapter
  PROVE  GwListsKept /\ (GwTodoOK' <=> GwTodoOK)
<1>1. Dun' <=> Dun BY DEF Dun
<1>2. GwOn' <=> GwOn BY DEF GwOn
<1>3. GwClosesFirst' <=> GwClosesFirst BY DEF GwClosesFirst, GwCloseRfcomm, GwHalt, GwRenew, GwRemove, GwTask
<1>4. GwRelists' <=> GwRelists BY DEF GwRelists, GwHalt, GwRenew, GwRemove, GwTask
<1>5. GwReups' <=> GwReups BY DEF GwReups, GwHalt, GwRenew, GwRemove, GwTask
<1>6. GwRests' <=> GwRests BY DEF GwRests, GwRemove, GwTask
<1>7. \A t \in GwThreads : GwJoins(t)' <=> GwJoins(t) BY DEF GwJoins, GwJoin, GwRenew, GwTask
<1>8. GwCloseLen' = GwCloseLen BY <1>1 DEF GwCloseLen
<1>9. (GwNoListen' <=> GwNoListen) /\ (GwNoAccept' <=> GwNoAccept) BY <1>8 DEF GwNoListen, GwNoAccept
<1>10. (GwDropped' <=> GwDropped) /\ (GwDownGone' <=> GwDownGone) /\ (GwUpGone' <=> GwUpGone)
  BY <1>8 DEF GwDropped, GwDownGone, GwUpGone, GwLeft
<1>11. GwCloses' <=> GwCloses
  <2>1. GwLast' = GwLast BY DEF GwLast
  <2>2. \A k : GwCloseStep(k)' = GwCloseStep(k)
    BY <1>1, <1>8, <2>1 DEF GwCloseStep, GwTask, GwJoin, GwHalt, GwCloseRfcomm
  <2> QED BY <1>8, <2>2 DEF GwCloses
<1>12. GwTodoOK' <=> GwTodoOK BY <1>2, <1>3, <1>4, <1>5, <1>6, <1>11 DEF GwTodoOK
<1> QED BY <1>1, <1>2, <1>3, <1>4, <1>5, <1>6, <1>7, <1>9, <1>10, <1>12 DEF GwListsKept

\* When the downlink thread is joined the connection is closed.
LEMMA GwInOrder ==
  ASSUME GwCloses \/ gwWorld.adapter # "closed"
  PROVE  (GwUpGone => GwDownGone) /\ (GwDownGone => GwDropped)
<1>1. GwCloseLen \in {12, 14} BY DEF GwCloseLen
<1>2. CASE gwWorld.adapter # "closed" BY <1>2 DEF GwUpGone, GwDownGone, GwDropped, GwLeft
<1>3. CASE gwWorld.adapter = "closed" /\ GwCloses
  <2>1. Len(gwTodo) \in Nat BY <1>3 DEF GwCloses
  <2> QED BY <1>1, <2>1 DEF GwUpGone, GwDownGone, GwDropped, GwLeft
<1> QED BY <1>2, <1>3

\* Nothing odd happens in a step that records nothing.
LEMMA GwCalmKept ==
  ASSUME gwPast'.stale = gwPast.stale
  PROVE  GwCalm' <=> GwCalm
BY DEF GwCalm, GwOdd

\* Where a step takes the accept thread, ...
LEMMA GwAGoes ==
  ASSUME NEW S, 0 \in S, GwLocals(S), NEW label \in GwLabels, Goes("accept", label)
  PROVE  /\ GwLocals(S)' /\ GwA' = label /\ (label # "done" => GwAConn' = GwAConn)
         /\ UNCHANGED <<GwU, GwUConn, GwUInt, GwD, GwDConn>>
<1>1. {"accept", "up", "down"} \subseteq GwThreads BY DEF GwThreads
<1>2. /\ GwLocals(S)'
      /\ gwThread'["accept"].pc = label
      /\ label # "done" => gwThread'["accept"].conn = gwThread["accept"].conn
      /\ \A u \in GwThreads \ {"accept"} : gwThread'[u] = gwThread[u]
  BY <1>1, GwGoesEffect
<1>3. gwThread'["up"] = gwThread["up"] /\ gwThread'["down"] = gwThread["down"] BY <1>1, <1>2
<1> QED BY <1>2, <1>3 DEF GwA, GwAConn, GwU, GwUConn, GwUInt, GwD, GwDConn

\* ... the uplink thread ...
LEMMA GwUGoes ==
  ASSUME NEW S, 0 \in S, GwLocals(S), NEW label \in GwLabels, Goes("up", label)
  PROVE  /\ GwLocals(S)' /\ GwU' = label
         /\ label # "done" => GwUConn' = GwUConn /\ GwUInt' = GwUInt
         /\ UNCHANGED <<GwA, GwAConn, GwD, GwDConn>>
<1>1. {"accept", "up", "down"} \subseteq GwThreads BY DEF GwThreads
<1>2. /\ GwLocals(S)'
      /\ gwThread'["up"].pc = label
      /\ label # "done" => /\ gwThread'["up"].conn = gwThread["up"].conn
                           /\ gwThread'["up"].interrupt = gwThread["up"].interrupt
      /\ \A u \in GwThreads \ {"up"} : gwThread'[u] = gwThread[u]
  BY <1>1, GwGoesEffect
<1>3. gwThread'["accept"] = gwThread["accept"] /\ gwThread'["down"] = gwThread["down"] BY <1>1, <1>2
<1> QED BY <1>2, <1>3 DEF GwA, GwAConn, GwU, GwUConn, GwUInt, GwD, GwDConn

\* ... the downlink thread.
LEMMA GwDGoes ==
  ASSUME NEW S, 0 \in S, GwLocals(S), NEW label \in GwLabels, Goes("down", label)
  PROVE  /\ GwLocals(S)' /\ GwD' = label /\ (label # "done" => GwDConn' = GwDConn)
         /\ UNCHANGED <<GwA, GwAConn, GwU, GwUConn, GwUInt>>
<1>1. {"accept", "up", "down"} \subseteq GwThreads BY DEF GwThreads
<1>2. /\ GwLocals(S)'
      /\ gwThread'["down"].pc = label
      /\ label # "done" => gwThread'["down"].conn = gwThread["down"].conn
      /\ \A u \in GwThreads \ {"down"} : gwThread'[u] = gwThread[u]
  BY <1>1, GwGoesEffect
<1>3. gwThread'["accept"] = gwThread["accept"] /\ gwThread'["up"] = gwThread["up"] BY <1>1, <1>2
<1> QED BY <1>2, <1>3 DEF GwA, GwAConn, GwU, GwUConn, GwUInt, GwD, GwDConn

(***************************************************************************)
(* The steps of the threads.                                               *)
(***************************************************************************)
LEMMA GwThreadFrame ==
  ASSUME GwInv, ThreadOnly, gwWorld'.adapter = gwWorld.adapter
  PROVE  GwListsKept /\ GwTodoOK' /\ (GwCalm' <=> GwCalm) /\ gwConfig' = gwConfig /\ GwPastOK'
<1>1. gwConfig' = gwConfig /\ gwTodo' = gwTodo /\ gwPast' = gwPast BY DEF ThreadOnly
<1>2. GwListsKept /\ (GwTodoOK' <=> GwTodoOK) BY <1>1, GwKept
<1>3. GwCalm' <=> GwCalm BY <1>1, GwCalmKept
<1> QED BY <1>1, <1>2, <1>3 DEF GwInv, GwTyped, GwPastOK

\* A step that may record what keeps the service from listening again.
GwMarks(what) == gwPast' = gwPast \/ gwPast' = [gwPast EXCEPT !.stale = @ \cup {what}]
LEMMA GwMarkFrame ==
  ASSUME GwInv, NEW what \in {"untimed", "unconnected"}, GwMarks(what), UNCHANGED <<gwConfig, gwTodo>>,
         gwWorld'.adapter = gwWorld.adapter
  PROVE  GwListsKept /\ GwTodoOK' /\ (GwCalm' <=> GwCalm) /\ gwConfig' = gwConfig /\ GwPastOK'
<1>0. GwPastOK BY DEF GwInv, GwTyped
<1>1. GwListsKept /\ (GwTodoOK' <=> GwTodoOK) BY GwKept
<1>2. gwPast'.stale = gwPast.stale \/ gwPast'.stale = gwPast.stale \cup {what} BY <1>0 DEF GwMarks, GwPastOK
<1>3. GwCalm' <=> GwCalm BY <1>2 DEF GwCalm, GwOdd
<1>4. GwPastOK' BY <1>0 DEF GwMarks, GwPastOK
<1> QED BY <1>1, <1>3, <1>4 DEF GwInv

\* The accept thread until a client connects.
GwListens == {"start", "create", "created", "loop", "accept", "blocked"}
\* Its steps before a client connects.
LEMMA GwListening ==
  ASSUME GwInv, ThreadOnly, UNCHANGED <<gwLock, gwQueue>>, NEW label \in GwListens \cup {"done"},
         GwA \in GwListens, Goes("accept", label) \/ (UNCHANGED gwThread /\ label = GwA),
         gwWorld' = gwWorld \/ gwWorld' = [gwWorld EXCEPT !.crashed = TRUE],
         gw' = gw \/ gw' = [gw EXCEPT !.listen = FALSE] \/ (GwOn /\ gw' = [gw EXCEPT !.listen = TRUE])
  PROVE  GwInv'
<1>i. /\ GwTyped /\ GwTodoOK /\ GwLocked /\ GwClosed /\ GwNamed
      /\ (GwCalm => GwOneAtATime /\ GwServesAllowed /\ GwOneOpen /\ GwReports)
  BY DEF GwInv, GwRegular
<1>s. PICK S : S = 0..gwConfig.conns OBVIOUS
<1>0. /\ 0 \in S /\ gwConfig.conns \in Nat /\ GwLocals(S)
      /\ GwFieldsOK /\ GwLocksOK /\ GwQueueOK /\ GwWorldOK /\ GwPastOK
  BY <1>i, <1>s DEF GwTyped
<1>a. label \in GwLabels BY DEF GwListens, GwLabels
<1>b. /\ GwLocals(S)' /\ GwA' = label
      /\ UNCHANGED <<GwU, GwUConn, GwUInt, GwD, GwDConn>>
  <2>1. CASE Goes("accept", label) BY <1>0, <1>a, <2>1, GwAGoes
  <2>2. CASE UNCHANGED gwThread /\ label = GwA
    BY <1>0, <2>2 DEF GwLocals, GwA, GwU, GwUConn, GwUInt, GwD, GwDConn
  <2> QED BY <2>1, <2>2
<1>c. /\ gw'.rfcomm = gw.rfcomm /\ gw'.remote = gw.remote /\ gw'.waiting = gw.waiting
      /\ gw'.listen = gw.listen \/ gw'.listen = FALSE \/ GwOn
  BY <1>0 DEF GwFieldsOK
<1>d. /\ gwWorld'.adapter = gwWorld.adapter /\ gwWorld'.open = gwWorld.open
      /\ gwWorld'.allowed = gwWorld.allowed /\ gwWorld'.told = gwWorld.told
  BY <1>0 DEF GwWorldOK
<1>e. /\ ThreadOnly /\ UNCHANGED <<gwLock, gwQueue>>
      /\ GwLocals(S)' /\ GwA' \in GwListens \cup {"done"} /\ GwA \in GwListens
      /\ UNCHANGED <<GwU, GwUConn, GwUInt, GwD, GwDConn>>
      /\ gw'.rfcomm = gw.rfcomm /\ gw'.remote = gw.remote /\ gw'.waiting = gw.waiting
      /\ gw'.listen = gw.listen \/ gw'.listen = FALSE \/ GwOn
      /\ gwWorld'.adapter = gwWorld.adapter /\ gwWorld'.open = gwWorld.open
      /\ gwWorld'.allowed = gwWorld.allowed /\ gwWorld'.told = gwWorld.told
  BY <1>b, <1>c, <1>d
<1>f. GwListsKept /\ GwTodoOK' /\ (GwCalm' <=> GwCalm) /\ gwConfig' = gwConfig /\ GwPastOK'
  BY <1>e, GwThreadFrame
<1>t. GwTyped'
  <2>1. GwFieldsOK' BY <1>0, <1>e, <1>f DEF GwFieldsOK
  <2>2. GwLocksOK' BY <1>0, <1>e, <1>f DEF GwLocksOK
  <2>3. GwQueueOK' BY <1>0, <1>e, <1>f DEF GwQueueOK, GwConn
  <2>4. GwWorldOK' BY <1>0, <1>e, <1>f DEF GwWorldOK, GwConn
  <2>5. GwLocals(0..gwConfig.conns)' BY <1>e, <1>f, <1>s DEF GwLocals
  <2> QED BY <1>0, <1>e, <1>f, <1>i, <2>1, <2>2, <2>3, <2>4, <2>5 DEF GwTyped
<1>1. GwLocked' BY <1>e, <1>f, <1>i DEF GwListsKept, GwLocked, GwThreads, GwListens
<1>2. GwClosed' BY <1>e, <1>f, <1>i DEF GwListsKept, GwClosed, GwListens, GwOn, GwNoListen, GwNoAccept
<1>3. GwNamed' BY <1>e, <1>f, <1>i DEF GwListsKept, GwNamed, GwListens
<1>r. GwCalm' => GwOneAtATime' /\ GwServesAllowed' /\ GwOneOpen' /\ GwReports'
  <2> SUFFICES ASSUME GwCalm' PROVE GwOneAtATime' /\ GwServesAllowed' /\ GwOneOpen' /\ GwReports' OBVIOUS
  <2>0. GwOneAtATime /\ GwServesAllowed /\ GwOneOpen /\ GwReports BY <1>f, <1>i
  <2>1. GwOneAtATime'
    BY <1>e, <1>f, <2>0 DEF GwListsKept, GwOneAtATime, GwURuns, GwOver, GwServes, GwBusy, GwFree, GwListens
  <2>2. GwServesAllowed' BY <1>e, <1>f, <2>0 DEF GwListsKept, GwServesAllowed, GwTaken, GwListens
  <2>3. GwOneOpen' BY <1>e, <1>f, <2>0 DEF GwListsKept, GwOneOpen, GwListens
  <2>4. GwReports' BY <1>e, <1>f, <2>0 DEF GwListsKept, GwReports, GwServes
  <2> QED BY <2>1, <2>2, <2>3, <2>4
<1> QED BY <1>1, <1>2, <1>3, <1>f, <1>r, <1>t DEF GwInv, GwRegular

\* A client connects.
LEMMA GwConnects ==
  ASSUME GwInv, NEW trust \in BOOLEAN, Connects(trust)
  PROVE  GwInv'
<1>i. /\ GwTyped /\ GwTodoOK /\ GwLocked /\ GwClosed /\ GwNamed
      /\ (GwCalm => GwOneAtATime /\ GwServesAllowed /\ GwOneOpen /\ GwReports)
  BY DEF GwInv, GwRegular
<1>s. PICK S : S = 0..gwConfig.conns OBVIOUS
<1>0. /\ 0 \in S /\ gwConfig.conns \in Nat /\ GwLocals(S)
      /\ GwFieldsOK /\ GwLocksOK /\ GwQueueOK /\ GwWorldOK /\ GwPastOK
  BY <1>i, <1>s DEF GwTyped
<1> DEFINE c == gwPast.conns + 1
<1>a. c \in S /\ c # 0 /\ c \in GwConn
  <2>1. gwPast.conns \in 0..gwConfig.conns /\ gwPast.conns < gwConfig.conns BY <1>0 DEF GwPastOK, Connects
  <2> QED BY <1>0, <1>s, <2>1 DEF GwConn
<1>b. /\ gwPast' = [gwPast EXCEPT !.conns = c]
      /\ gwThread' = [gwThread EXCEPT !["accept"].pc = "assign", !["accept"].conn = c]
      /\ gwWorld' = [gwWorld EXCEPT !.open = @ \cup {c}, !.linked = @ \cup {c},
                                    !.allowed = IF trust THEN @ \cup {c} ELSE @]
  BY DEF Connects
<1> HIDE DEF c
<1>c. GwLocals(S)' /\ GwA' = "assign" /\ GwAConn' = c /\ UNCHANGED <<GwU, GwUConn, GwUInt, GwD, GwDConn>>
  <2> DEFINE r == [gwThread["accept"] EXCEPT !.pc = "assign", !.conn = c]
  <2>1. gwThread["accept"] \in GwLocal(S) /\ {"accept", "up", "down"} \subseteq GwThreads
    BY <1>0 DEF GwLocals, GwThreads
  <2>2. r \in GwLocal(S) /\ r.pc = "assign" /\ r.conn = c BY <1>a, <2>1 DEF GwLocal, GwLabels
  <2>3. gwThread' = [gwThread EXCEPT !["accept"] = r] BY <1>0, <1>b, <2>1 DEF GwLocals
  <2> HIDE DEF r
  <2>4. /\ GwLocals(S)' /\ gwThread'["accept"] = r
        /\ \A u \in GwThreads \ {"accept"} : gwThread'[u] = gwThread[u]
    BY <1>0, <2>1, <2>2, <2>3, GwOneThread
  <2>5. gwThread'["up"] = gwThread["up"] /\ gwThread'["down"] = gwThread["down"] BY <2>1, <2>4
  <2> QED BY <2>2, <2>4, <2>5 DEF GwA, GwAConn, GwU, GwUConn, GwUInt, GwD, GwDConn
<1>d. /\ gwWorld'.adapter = gwWorld.adapter /\ gwWorld'.open = gwWorld.open \cup {c}
      /\ gwWorld.allowed \subseteq gwWorld'.allowed /\ gwWorld'.told = gwWorld.told
  BY <1>0, <1>b DEF GwWorldOK
<1>g. /\ gwConfig' = gwConfig /\ gwTodo' = gwTodo /\ gw' = gw /\ gwLock' = gwLock /\ gwQueue' = gwQueue
      /\ gwPast'.stale = gwPast.stale /\ GwA = "blocked"
  BY <1>0, <1>b DEF Connects, Pc, GwA, GwPastOK
<1>e. /\ GwLocals(S)'
      /\ GwA = "blocked" /\ GwA' = "assign" /\ GwAConn' = c
      /\ UNCHANGED <<GwU, GwUConn, GwUInt, GwD, GwDConn>>
      /\ gw' = gw
      /\ gwWorld'.adapter = gwWorld.adapter
      /\ gwWorld'.open = gwWorld.open \cup {c}
      /\ gwWorld.allowed \subseteq gwWorld'.allowed
      /\ gwWorld'.told = gwWorld.told
      /\ gwQueue' = gwQueue
      /\ gwLock' = gwLock
      /\ gwConfig' = gwConfig /\ gwTodo' = gwTodo /\ gwPast'.stale = gwPast.stale
  BY <1>c, <1>d, <1>g
<1>f. GwListsKept /\ GwTodoOK' /\ (GwCalm' <=> GwCalm) /\ gwConfig' = gwConfig /\ GwPastOK'
  <2>1. GwListsKept /\ (GwTodoOK' <=> GwTodoOK) BY <1>e, GwKept
  <2>2. GwCalm' <=> GwCalm BY <1>e, GwCalmKept
  <2>3. GwPastOK' BY <1>0, <1>a, <1>b, <1>e, <1>s DEF GwPastOK
  <2> QED BY <1>e, <1>i, <2>1, <2>2, <2>3
<1>t. GwTyped'
  <2>1. GwFieldsOK' BY <1>0, <1>e, <1>f DEF GwFieldsOK
  <2>2. GwLocksOK' BY <1>0, <1>e, <1>f DEF GwLocksOK
  <2>3. GwQueueOK' BY <1>0, <1>e, <1>f DEF GwQueueOK, GwConn
  <2>4. GwWorldOK' BY <1>0, <1>a, <1>b, <1>e DEF GwWorldOK, GwConn
  <2>5. GwLocals(0..gwConfig.conns)' BY <1>e, <1>f, <1>s DEF GwLocals
  <2> QED BY <1>0, <1>e, <1>f, <1>i, <2>1, <2>2, <2>3, <2>4, <2>5 DEF GwTyped
<1>1. GwLocked' BY <1>e, <1>f, <1>i DEF GwListsKept, GwLocked, GwThreads
<1>2. GwClosed' BY <1>e, <1>f, <1>i DEF GwListsKept, GwClosed
<1>3. GwNamed' BY <1>e, <1>f, <1>i DEF GwListsKept, GwNamed
<1>r. GwCalm' => GwOneAtATime' /\ GwServesAllowed' /\ GwOneOpen' /\ GwReports'
  <2> SUFFICES ASSUME GwCalm' PROVE GwOneAtATime' /\ GwServesAllowed' /\ GwOneOpen' /\ GwReports' OBVIOUS
  <2>0. GwOneAtATime /\ GwServesAllowed /\ GwOneOpen /\ GwReports BY <1>f, <1>i
  <2>1. GwOneAtATime'
    BY <1>e, <1>f, <2>0 DEF GwListsKept, GwOneAtATime, GwURuns, GwOver, GwServes, GwBusy, GwFree
  <2>2. GwServesAllowed' BY <1>e, <1>f, <2>0 DEF GwListsKept, GwServesAllowed, GwTaken
  <2>3. GwOneOpen' BY <1>e, <1>f, <2>0 DEF GwListsKept, GwOneOpen
  <2>4. GwReports' BY <1>e, <1>f, <2>0 DEF GwListsKept, GwReports, GwServes
  <2> QED BY <2>1, <2>2, <2>3, <2>4
<1> QED BY <1>1, <1>2, <1>3, <1>f, <1>r, <1>t DEF GwInv, GwRegular

\* mRfcommSocket is set.
LEMMA GwAssign ==
  ASSUME GwInv, Assign
  PROVE  GwInv'
<1>i. /\ GwTyped /\ GwTodoOK /\ GwLocked /\ GwClosed /\ GwNamed
      /\ (GwCalm => GwOneAtATime /\ GwServesAllowed /\ GwOneOpen /\ GwReports)
  BY DEF GwInv, GwRegular
<1>s. PICK S : S = 0..gwConfig.conns OBVIOUS
<1>0. /\ 0 \in S /\ gwConfig.conns \in Nat /\ GwLocals(S)
      /\ GwFieldsOK /\ GwLocksOK /\ GwQueueOK /\ GwWorldOK /\ GwPastOK
  BY <1>i, <1>s DEF GwTyped
<1>a. Goes("accept", "device") /\ gw' = [gw EXCEPT !.rfcomm = gwThread["accept"].conn] BY DEF Assign
<1>b. GwLocals(S)' /\ GwA' = "device" /\ UNCHANGED <<GwU, GwUConn, GwUInt, GwD, GwDConn>>
  BY <1>0, <1>a, GwAGoes DEF GwLabels
<1>c. GwAConn \in S BY <1>0 DEF GwLocals, GwLocal, GwThreads, GwAConn
<1>d. ThreadOnly /\ gwLock' = gwLock /\ gwQueue' = gwQueue /\ gwWorld' = gwWorld /\ GwA = "assign"
  BY DEF Assign, Pc, GwA
<1>g. /\ gw'.rfcomm = GwAConn /\ gw'.remote = gw.remote /\ gw'.waiting = gw.waiting /\ gw'.listen = gw.listen
  BY <1>0, <1>a DEF GwFieldsOK, GwAConn
<1>e. /\ ThreadOnly
      /\ GwLocals(S)'
      /\ GwA = "assign" /\ GwA' = "device"
      /\ UNCHANGED <<GwU, GwUConn, GwUInt, GwD, GwDConn>>
      /\ gw'.rfcomm = GwAConn
      /\ gw'.remote = gw.remote
      /\ gw'.waiting = gw.waiting
      /\ gw'.listen = gw.listen
      /\ gwWorld' = gwWorld
      /\ gwQueue' = gwQueue
      /\ gwLock' = gwLock
  BY <1>b, <1>d, <1>g
<1>f. GwListsKept /\ GwTodoOK' /\ (GwCalm' <=> GwCalm) /\ gwConfig' = gwConfig /\ GwPastOK'
  BY <1>e, GwThreadFrame
<1>t. GwTyped'
  <2>1. GwFieldsOK' BY <1>0, <1>a, <1>c, <1>f, <1>s DEF GwFieldsOK, GwAConn
  <2>2. GwLocksOK' BY <1>0, <1>e, <1>f DEF GwLocksOK
  <2>3. GwQueueOK' BY <1>0, <1>e, <1>f DEF GwQueueOK, GwConn
  <2>4. GwWorldOK' BY <1>0, <1>e, <1>f DEF GwWorldOK, GwConn
  <2>5. GwLocals(0..gwConfig.conns)' BY <1>e, <1>f, <1>s DEF GwLocals
  <2> QED BY <1>0, <1>e, <1>f, <1>i, <2>1, <2>2, <2>3, <2>4, <2>5 DEF GwTyped
<1>1. GwLocked' BY <1>e, <1>f, <1>i DEF GwListsKept, GwLocked, GwThreads
<1>2. GwClosed' BY <1>e, <1>f, <1>i DEF GwListsKept, GwClosed, GwDropped, GwLeft
<1>3. GwNamed' BY <1>e, <1>f, <1>i DEF GwListsKept, GwNamed
<1>r. GwCalm' => GwOneAtATime' /\ GwServesAllowed' /\ GwOneOpen' /\ GwReports'
  <2> SUFFICES ASSUME GwCalm' PROVE GwOneAtATime' /\ GwServesAllowed' /\ GwOneOpen' /\ GwReports' OBVIOUS
  <2>0. GwOneAtATime /\ GwServesAllowed /\ GwOneOpen /\ GwReports BY <1>f, <1>i
  <2>1. GwOneAtATime'
    BY <1>e, <1>f, <2>0 DEF GwListsKept, GwOneAtATime, GwURuns, GwOver, GwServes, GwBusy, GwFree
  <2>2. GwServesAllowed'
    BY <1>e, <1>f, <2>0
       DEF GwListsKept, GwServesAllowed, GwTaken, GwOneAtATime, GwURuns, GwOver, GwServes, GwBusy, GwFree
  <2>3. GwOneOpen'
    BY <1>e, <1>f, <2>0, <1>0
       DEF GwListsKept, GwOneOpen, GwOneAtATime, GwURuns, GwOver, GwServes, GwBusy, GwFree, GwWorldOK, GwConn
  <2>4. GwReports' BY <1>e, <1>f, <2>0 DEF GwListsKept, GwReports, GwServes
  <2> QED BY <2>1, <2>2, <2>3, <2>4
<1> QED BY <1>1, <1>2, <1>3, <1>f, <1>r, <1>t DEF GwInv, GwRegular

\* The connection is closed already.
LEMMA GwNoDevice ==
  ASSUME GwInv, RemoteDevice, gw.rfcomm = 0
  PROVE  GwInv'
<1>i. /\ GwTyped /\ GwTodoOK /\ GwLocked /\ GwClosed /\ GwNamed
      /\ (GwCalm => GwOneAtATime /\ GwServesAllowed /\ GwOneOpen /\ GwReports)
  BY DEF GwInv, GwRegular
<1>s. PICK S : S = 0..gwConfig.conns OBVIOUS
<1>0. /\ 0 \in S /\ gwConfig.conns \in Nat /\ GwLocals(S)
      /\ GwFieldsOK /\ GwLocksOK /\ GwQueueOK /\ GwWorldOK /\ GwPastOK
  BY <1>i, <1>s DEF GwTyped
<1>a. Goes("accept", "done") BY DEF RemoteDevice
<1>b. GwLocals(S)' /\ GwA' = "done" /\ UNCHANGED <<GwU, GwUConn, GwUInt, GwD, GwDConn>>
  BY <1>0, <1>a, GwAGoes DEF GwLabels
<1>d. ThreadOnly /\ gw' = gw /\ gwLock' = gwLock /\ gwQueue' = gwQueue /\ gwWorld' = gwWorld /\ GwA = "device"
  BY DEF RemoteDevice, Pc, GwA
<1>e. /\ ThreadOnly
      /\ GwLocals(S)'
      /\ GwA = "device" /\ GwA' = "done"
      /\ UNCHANGED <<GwU, GwUConn, GwUInt, GwD, GwDConn>>
      /\ gw' = gw
      /\ gwWorld' = gwWorld
      /\ gwQueue' = gwQueue
      /\ gwLock' = gwLock
  BY <1>b, <1>d
<1>f. GwListsKept /\ GwTodoOK' /\ (GwCalm' <=> GwCalm) /\ gwConfig' = gwConfig /\ GwPastOK'
  BY <1>e, GwThreadFrame
<1>t. GwTyped'
  <2>1. GwFieldsOK' BY <1>0, <1>e, <1>f DEF GwFieldsOK
  <2>2. GwLocksOK' BY <1>0, <1>e, <1>f DEF GwLocksOK
  <2>3. GwQueueOK' BY <1>0, <1>e, <1>f DEF GwQueueOK, GwConn
  <2>4. GwWorldOK' BY <1>0, <1>e, <1>f DEF GwWorldOK, GwConn
  <2>5. GwLocals(0..gwConfig.conns)' BY <1>e, <1>f, <1>s DEF GwLocals
  <2> QED BY <1>0, <1>e, <1>f, <1>i, <2>1, <2>2, <2>3, <2>4, <2>5 DEF GwTyped
<1>1. GwLocked' BY <1>e, <1>f, <1>i DEF GwListsKept, GwLocked, GwThreads
<1>2. GwClosed' BY <1>e, <1>f, <1>i DEF GwListsKept, GwClosed
<1>3. GwNamed' BY <1>e, <1>f, <1>i DEF GwListsKept, GwNamed
<1>r. GwCalm' => GwOneAtATime' /\ GwServesAllowed' /\ GwOneOpen' /\ GwReports'
  <2> SUFFICES ASSUME GwCalm' PROVE GwOneAtATime' /\ GwServesAllowed' /\ GwOneOpen' /\ GwReports' OBVIOUS
  <2>0. GwOneAtATime /\ GwServesAllowed /\ GwOneOpen /\ GwReports BY <1>f, <1>i
  <2>1. GwOneAtATime'
    BY <1>e, <1>f, <2>0 DEF GwListsKept, GwOneAtATime, GwURuns, GwOver, GwServes, GwBusy, GwFree
  <2>2. GwServesAllowed' BY <1>e, <1>f, <2>0 DEF GwListsKept, GwServesAllowed, GwTaken
  <2>3. GwOneOpen' BY <1>e, <1>f, <2>0 DEF GwListsKept, GwOneOpen
  <2>4. GwReports' BY <1>e, <1>f, <2>0 DEF GwListsKept, GwReports, GwServes
  <2> QED BY <2>1, <2>2, <2>3, <2>4
<1> QED BY <1>1, <1>2, <1>3, <1>f, <1>r, <1>t DEF GwInv, GwRegular

\* mRemoteDevice is set; a trusted device is served at once.
LEMMA GwDevice ==
  ASSUME GwInv, RemoteDevice, gw.rfcomm # 0
  PROVE  GwInv'
<1>i. /\ GwTyped /\ GwTodoOK /\ GwLocked /\ GwClosed /\ GwNamed
      /\ (GwCalm => GwOneAtATime /\ GwServesAllowed /\ GwOneOpen /\ GwReports)
  BY DEF GwInv, GwRegular
<1>s. PICK S : S = 0..gwConfig.conns OBVIOUS
<1>0. /\ 0 \in S /\ gwConfig.conns \in Nat /\ GwLocals(S)
      /\ GwFieldsOK /\ GwLocksOK /\ GwQueueOK /\ GwWorldOK /\ GwPastOK
  BY <1>i, <1>s DEF GwTyped
<1> DEFINE label == IF gw.rfcomm \in gwWorld.allowed THEN "stop_up" ELSE "notify"
<1>a. Goes("accept", label) /\ gw' = [gw EXCEPT !.remote = gw.rfcomm] BY DEF RemoteDevice
<1>l. /\ label \in GwLabels \ {"done"} /\ label \in {"stop_up", "notify"}
      /\ (label = "stop_up" => gw.rfcomm \in gwWorld.allowed)
  BY DEF GwLabels
<1> HIDE DEF label
<1>b. GwLocals(S)' /\ GwA' = label /\ UNCHANGED <<GwU, GwUConn, GwUInt, GwD, GwDConn>>
  BY <1>0, <1>a, <1>l, GwAGoes
<1>d. ThreadOnly /\ gwLock' = gwLock /\ gwQueue' = gwQueue /\ gwWorld' = gwWorld /\ GwA = "device"
  BY DEF RemoteDevice, Pc, GwA
<1>g. /\ gw'.remote = gw.rfcomm /\ gw'.rfcomm = gw.rfcomm /\ gw'.waiting = gw.waiting
      /\ gw'.listen = gw.listen
  BY <1>0, <1>a DEF GwFieldsOK
<1>e. /\ ThreadOnly
      /\ GwLocals(S)'
      /\ GwA = "device" /\ GwA' \in {"stop_up", "notify"}
      /\ (GwA' = "stop_up" => gw.rfcomm \in gwWorld.allowed)
      /\ UNCHANGED <<GwU, GwUConn, GwUInt, GwD, GwDConn>>
      /\ gw'.rfcomm = gw.rfcomm
      /\ gw'.remote = gw.rfcomm /\ gw.rfcomm # 0
      /\ gw'.waiting = gw.waiting
      /\ gw'.listen = gw.listen
      /\ gwWorld' = gwWorld
      /\ gwQueue' = gwQueue
      /\ gwLock' = gwLock
  BY <1>b, <1>d, <1>g, <1>l
<1>f. GwListsKept /\ GwTodoOK' /\ (GwCalm' <=> GwCalm) /\ gwConfig' = gwConfig /\ GwPastOK'
  BY <1>e, GwThreadFrame
<1>t. GwTyped'
  <2>1. GwFieldsOK' BY <1>0, <1>a, <1>f DEF GwFieldsOK
  <2>2. GwLocksOK' BY <1>0, <1>e, <1>f DEF GwLocksOK
  <2>3. GwQueueOK' BY <1>0, <1>e, <1>f DEF GwQueueOK, GwConn
  <2>4. GwWorldOK' BY <1>0, <1>e, <1>f DEF GwWorldOK, GwConn
  <2>5. GwLocals(0..gwConfig.conns)' BY <1>e, <1>f, <1>s DEF GwLocals
  <2> QED BY <1>0, <1>e, <1>f, <1>i, <2>1, <2>2, <2>3, <2>4, <2>5 DEF GwTyped
<1>1. GwLocked' BY <1>e, <1>f, <1>i DEF GwListsKept, GwLocked, GwThreads
<1>2. GwClosed' BY <1>e, <1>f, <1>i DEF GwListsKept, GwClosed
<1>3. GwNamed' BY <1>e, <1>f, <1>i DEF GwListsKept, GwNamed
<1>r. GwCalm' => GwOneAtATime' /\ GwServesAllowed' /\ GwOneOpen' /\ GwReports'
  <2> SUFFICES ASSUME GwCalm' PROVE GwOneAtATime' /\ GwServesAllowed' /\ GwOneOpen' /\ GwReports' OBVIOUS
  <2>0. GwOneAtATime /\ GwServesAllowed /\ GwOneOpen /\ GwReports BY <1>f, <1>i
  <2>1. GwOneAtATime'
    BY <1>e, <1>f, <2>0 DEF GwListsKept, GwOneAtATime, GwURuns, GwOver, GwServes, GwBusy, GwFree
  <2>2. GwServesAllowed'
    BY <1>e, <1>f, <2>0
       DEF GwListsKept, GwServesAllowed, GwTaken, GwOneAtATime, GwURuns, GwOver, GwServes, GwBusy, GwFree
  <2>3. GwOneOpen' BY <1>e, <1>f, <2>0 DEF GwListsKept, GwOneOpen
  <2>4. GwReports'
    BY <1>e, <1>f, <2>0
       DEF GwListsKept, GwReports, GwServes, GwOneAtATime, GwURuns, GwOver, GwServes, GwBusy, GwFree
  <2> QED BY <2>1, <2>2, <2>3, <2>4
<1> QED BY <1>1, <1>2, <1>3, <1>f, <1>r, <1>t DEF GwInv, GwRegular

\* The user is asked.
LEMMA GwNotify ==
  ASSUME GwInv, Notify
  PROVE  GwInv'
<1>i. /\ GwTyped /\ GwTodoOK /\ GwLocked /\ GwClosed /\ GwNamed
      /\ (GwCalm => GwOneAtATime /\ GwServesAllowed /\ GwOneOpen /\ GwReports)
  BY DEF GwInv, GwRegular
<1>s. PICK S : S = 0..gwConfig.conns OBVIOUS
<1>0. /\ 0 \in S /\ gwConfig.conns \in Nat /\ GwLocals(S)
      /\ GwFieldsOK /\ GwLocksOK /\ GwQueueOK /\ GwWorldOK /\ GwPastOK
  BY <1>i, <1>s DEF GwTyped
<1>a. Goes("accept", "wait") /\ gwWorld' = [gwWorld EXCEPT !.asked = @ \cup {gw.remote}] BY DEF Notify
<1>b. GwLocals(S)' /\ GwA' = "wait" /\ UNCHANGED <<GwU, GwUConn, GwUInt, GwD, GwDConn>>
  BY <1>0, <1>a, GwAGoes DEF GwLabels
<1>d. ThreadOnly /\ gw' = gw /\ gwLock' = gwLock /\ gwQueue' = gwQueue /\ GwA = "notify"
  BY DEF Notify, Pc, GwA
<1>g. /\ gwWorld'.adapter = gwWorld.adapter /\ gwWorld'.open = gwWorld.open
      /\ gwWorld'.allowed = gwWorld.allowed /\ gwWorld'.told = gwWorld.told
  BY <1>0, <1>a DEF GwWorldOK
<1>n. gw.remote \in GwConn BY <1>0, <1>d, <1>i DEF GwNamed, GwFieldsOK, GwConn
<1>e. /\ ThreadOnly
      /\ GwLocals(S)'
      /\ GwA = "notify" /\ GwA' = "wait"
      /\ UNCHANGED <<GwU, GwUConn, GwUInt, GwD, GwDConn>>
      /\ gw' = gw
      /\ gwWorld'.adapter = gwWorld.adapter
      /\ gwWorld'.open = gwWorld.open
      /\ gwWorld'.allowed = gwWorld.allowed
      /\ gwWorld'.told = gwWorld.told
      /\ gwQueue' = gwQueue
      /\ gwLock' = gwLock
  BY <1>b, <1>d, <1>g
<1>f. GwListsKept /\ GwTodoOK' /\ (GwCalm' <=> GwCalm) /\ gwConfig' = gwConfig /\ GwPastOK'
  BY <1>e, GwThreadFrame
<1>t. GwTyped'
  <2>1. GwFieldsOK' BY <1>0, <1>e, <1>f DEF GwFieldsOK
  <2>2. GwLocksOK' BY <1>0, <1>e, <1>f DEF GwLocksOK
  <2>3. GwQueueOK' BY <1>0, <1>e, <1>f DEF GwQueueOK, GwConn
  <2>4. GwWorldOK' BY <1>0, <1>a, <1>f, <1>n DEF GwWorldOK, GwConn
  <2>5. GwLocals(0..gwConfig.conns)' BY <1>e, <1>f, <1>s DEF GwLocals
  <2> QED BY <1>0, <1>e, <1>f, <1>i, <2>1, <2>2, <2>3, <2>4, <2>5 DEF GwTyped
<1>1. GwLocked' BY <1>e, <1>f, <1>i DEF GwListsKept, GwLocked, GwThreads
<1>2. GwClosed' BY <1>e, <1>f, <1>i DEF GwListsKept, GwClosed
<1>3. GwNamed' BY <1>e, <1>f, <1>i DEF GwListsKept, GwNamed
<1>r. GwCalm' => GwOneAtATime' /\ GwServesAllowed' /\ GwOneOpen' /\ GwReports'
  <2> SUFFICES ASSUME GwCalm' PROVE GwOneAtATime' /\ GwServesAllowed' /\ GwOneOpen' /\ GwReports' OBVIOUS
  <2>0. GwOneAtATime /\ GwServesAllowed /\ GwOneOpen /\ GwReports BY <1>f, <1>i
  <2>1. GwOneAtATime'
    BY <1>e, <1>f, <2>0 DEF GwListsKept, GwOneAtATime, GwURuns, GwOver, GwServes, GwBusy, GwFree
  <2>2. GwServesAllowed' BY <1>e, <1>f, <2>0 DEF GwListsKept, GwServesAllowed, GwTaken
  <2>3. GwOneOpen' BY <1>e, <1>f, <2>0 DEF GwListsKept, GwOneOpen
  <2>4. GwReports' BY <1>e, <1>f, <2>0 DEF GwListsKept, GwReports, GwServes
  <2> QED BY <2>1, <2>2, <2>3, <2>4
<1> QED BY <1>1, <1>2, <1>3, <1>f, <1>r, <1>t DEF GwInv, GwRegular

\* mIsWaitingAuthorization is set.
LEMMA GwSetWaiting ==
  ASSUME GwInv, SetWaiting
  PROVE  GwInv'
<1>i. /\ GwTyped /\ GwTodoOK /\ GwLocked /\ GwClosed /\ GwNamed
      /\ (GwCalm => GwOneAtATime /\ GwServesAllowed /\ GwOneOpen /\ GwReports)
  BY DEF GwInv, GwRegular
<1>s. PICK S : S = 0..gwConfig.conns OBVIOUS
<1>0. /\ 0 \in S /\ gwConfig.conns \in Nat /\ GwLocals(S)
      /\ GwFieldsOK /\ GwLocksOK /\ GwQueueOK /\ GwWorldOK /\ GwPastOK
  BY <1>i, <1>s DEF GwTyped
<1>a. Goes("accept", "timer") /\ gw' = [gw EXCEPT !.waiting = TRUE] BY DEF SetWaiting
<1>b. GwLocals(S)' /\ GwA' = "timer" /\ UNCHANGED <<GwU, GwUConn, GwUInt, GwD, GwDConn>>
  BY <1>0, <1>a, GwAGoes DEF GwLabels
<1>d. ThreadOnly /\ gwLock' = gwLock /\ gwQueue' = gwQueue /\ gwWorld' = gwWorld /\ GwA = "wait"
  BY DEF SetWaiting, Pc, GwA
<1>g. /\ gw'.remote = gw.remote /\ gw'.rfcomm = gw.rfcomm /\ gw'.waiting = TRUE /\ gw'.listen = gw.listen
  BY <1>0, <1>a DEF GwFieldsOK
<1>e. /\ ThreadOnly
      /\ GwLocals(S)'
      /\ GwA = "wait" /\ GwA' = "timer"
      /\ UNCHANGED <<GwU, GwUConn, GwUInt, GwD, GwDConn>>
      /\ gw'.rfcomm = gw.rfcomm
      /\ gw'.remote = gw.remote
      /\ gw'.waiting = TRUE
      /\ gw'.listen = gw.listen
      /\ gwWorld' = gwWorld
      /\ gwQueue' = gwQueue
      /\ gwLock' = gwLock
  BY <1>b, <1>d, <1>g
<1>f. GwListsKept /\ GwTodoOK' /\ (GwCalm' <=> GwCalm) /\ gwConfig' = gwConfig /\ GwPastOK'
  BY <1>e, GwThreadFrame
<1>t. GwTyped'
  <2>1. GwFieldsOK' BY <1>0, <1>a, <1>f DEF GwFieldsOK
  <2>2. GwLocksOK' BY <1>0, <1>e, <1>f DEF GwLocksOK
  <2>3. GwQueueOK' BY <1>0, <1>e, <1>f DEF GwQueueOK, GwConn
  <2>4. GwWorldOK' BY <1>0, <1>e, <1>f DEF GwWorldOK, GwConn
  <2>5. GwLocals(0..gwConfig.conns)' BY <1>e, <1>f, <1>s DEF GwLocals
  <2> QED BY <1>0, <1>e, <1>f, <1>i, <2>1, <2>2, <2>3, <2>4, <2>5 DEF GwTyped
<1>1. GwLocked' BY <1>e, <1>f, <1>i DEF GwListsKept, GwLocked, GwThreads
<1>2. GwClosed' BY <1>e, <1>f, <1>i DEF GwListsKept, GwClosed, GwOn
<1>3. GwNamed' BY <1>e, <1>f, <1>i DEF GwListsKept, GwNamed
<1>r. GwCalm' => GwOneAtATime' /\ GwServesAllowed' /\ GwOneOpen' /\ GwReports'
  <2> SUFFICES ASSUME GwCalm' PROVE GwOneAtATime' /\ GwServesAllowed' /\ GwOneOpen' /\ GwReports' OBVIOUS
  <2>0. GwOneAtATime /\ GwServesAllowed /\ GwOneOpen /\ GwReports BY <1>f, <1>i
  <2>1. GwOneAtATime'
    BY <1>e, <1>f, <2>0 DEF GwListsKept, GwOneAtATime, GwURuns, GwOver, GwServes, GwBusy, GwFree
  <2>2. GwServesAllowed' BY <1>e, <1>f, <2>0 DEF GwListsKept, GwServesAllowed, GwTaken
  <2>3. GwOneOpen' BY <1>e, <1>f, <2>0 DEF GwListsKept, GwOneOpen
  <2>4. GwReports' BY <1>e, <1>f, <2>0 DEF GwListsKept, GwReports, GwServes
  <2> QED BY <2>1, <2>2, <2>3, <2>4
<1> QED BY <1>1, <1>2, <1>3, <1>f, <1>r, <1>t DEF GwInv, GwRegular

\* The delayed message is sent.
LEMMA GwSendTimeout ==
  ASSUME GwInv, SendTimeout
  PROVE  GwInv'
<1>i. /\ GwTyped /\ GwTodoOK /\ GwLocked /\ GwClosed /\ GwNamed
      /\ (GwCalm => GwOneAtATime /\ GwServesAllowed /\ GwOneOpen /\ GwReports)
  BY DEF GwInv, GwRegular
<1>s. PICK S : S = 0..gwConfig.conns OBVIOUS
<1>0. /\ 0 \in S /\ gwConfig.conns \in Nat /\ GwLocals(S)
      /\ GwFieldsOK /\ GwLocksOK /\ GwQueueOK /\ GwWorldOK /\ GwPastOK
  BY <1>i, <1>s DEF GwTyped
<1>a. Goes("accept", "done") /\ gwQueue' = [gwQueue EXCEPT !.timeouts = @ \cup {<<gw.remote, "delayed">>}]
  BY DEF SendTimeout
<1>b. GwLocals(S)' /\ GwA' = "done" /\ UNCHANGED <<GwU, GwUConn, GwUInt, GwD, GwDConn>>
  BY <1>0, <1>a, GwAGoes DEF GwLabels
<1>d. ThreadOnly /\ gw' = gw /\ gwLock' = gwLock /\ gwWorld' = gwWorld /\ GwA = "timer"
  BY DEF SendTimeout, Pc, GwA
<1>g. gwQueue'.start = gwQueue.start BY <1>0, <1>a DEF GwQueueOK
<1>n. gw.remote \in GwConn BY <1>0, <1>d, <1>i DEF GwNamed, GwFieldsOK, GwConn
<1>e. /\ ThreadOnly
      /\ GwLocals(S)'
      /\ GwA = "timer" /\ GwA' = "done"
      /\ UNCHANGED <<GwU, GwUConn, GwUInt, GwD, GwDConn>>
      /\ gw' = gw
      /\ gwWorld' = gwWorld
      /\ gwQueue'.start = gwQueue.start
      /\ gwLock' = gwLock
  BY <1>b, <1>d, <1>g
<1>f. GwListsKept /\ GwTodoOK' /\ (GwCalm' <=> GwCalm) /\ gwConfig' = gwConfig /\ GwPastOK'
  BY <1>e, GwThreadFrame
<1>t. GwTyped'
  <2>1. GwFieldsOK' BY <1>0, <1>e, <1>f DEF GwFieldsOK
  <2>2. GwLocksOK' BY <1>0, <1>e, <1>f DEF GwLocksOK
  <2>3. GwQueueOK' BY <1>0, <1>a, <1>f, <1>n DEF GwQueueOK, GwConn
  <2>4. GwWorldOK' BY <1>0, <1>e, <1>f DEF GwWorldOK, GwConn
  <2>5. GwLocals(0..gwConfig.conns)' BY <1>e, <1>f, <1>s DEF GwLocals
  <2> QED BY <1>0, <1>e, <1>f, <1>i, <2>1, <2>2, <2>3, <2>4, <2>5 DEF GwTyped
<1>1. GwLocked' BY <1>e, <1>f, <1>i DEF GwListsKept, GwLocked, GwThreads
<1>2. GwClosed' BY <1>e, <1>f, <1>i DEF GwListsKept, GwClosed
<1>3. GwNamed' BY <1>e, <1>f, <1>i DEF GwListsKept, GwNamed
<1>r. GwCalm' => GwOneAtATime' /\ GwServesAllowed' /\ GwOneOpen' /\ GwReports'
  <2> SUFFICES ASSUME GwCalm' PROVE GwOneAtATime' /\ GwServesAllowed' /\ GwOneOpen' /\ GwReports' OBVIOUS
  <2>0. GwOneAtATime /\ GwServesAllowed /\ GwOneOpen /\ GwReports BY <1>f, <1>i
  <2>1. GwOneAtATime'
    BY <1>e, <1>f, <2>0 DEF GwListsKept, GwOneAtATime, GwURuns, GwOver, GwServes, GwBusy, GwFree
  <2>2. GwServesAllowed' BY <1>e, <1>f, <2>0 DEF GwListsKept, GwServesAllowed, GwTaken
  <2>3. GwOneOpen' BY <1>e, <1>f, <2>0 DEF GwListsKept, GwOneOpen
  <2>4. GwReports' BY <1>e, <1>f, <2>0 DEF GwListsKept, GwReports, GwServes
  <2> QED BY <2>1, <2>2, <2>3, <2>4
<1> QED BY <1>1, <1>2, <1>3, <1>f, <1>r, <1>t DEF GwInv, GwRegular

\* startUplinkThread shuts the old uplink thread down ...
LEMMA GwAcceptStops ==
  ASSUME GwInv, AcceptStopsUplink
  PROVE  GwInv'
<1>i. /\ GwTyped /\ GwTodoOK /\ GwLocked /\ GwClosed /\ GwNamed
      /\ (GwCalm => GwOneAtATime /\ GwServesAllowed /\ GwOneOpen /\ GwReports)
  BY DEF GwInv, GwRegular
<1>s. PICK S : S = 0..gwConfig.conns OBVIOUS
<1>0. /\ 0 \in S /\ gwConfig.conns \in Nat /\ GwLocals(S)
      /\ GwFieldsOK /\ GwLocksOK /\ GwQueueOK /\ GwWorldOK /\ GwPastOK
  BY <1>i, <1>s DEF GwTyped
<1>a. /\ gwLock["up"] = "free" /\ gwLock' = [gwLock EXCEPT !["up"] = "accept"]
      /\ gwThread' = [gwThread EXCEPT !["accept"].pc = "join_up", !["up"].stopped = TRUE, !["up"].interrupt = TRUE]
  BY DEF AcceptStopsUplink
<1>b. GwLocals(S)' /\ GwA' = "join_up" /\ UNCHANGED <<GwU, GwUConn, GwD, GwDConn>>
  <2> DEFINE p == [gwThread["accept"] EXCEPT !.pc = "join_up"]
             q == [gwThread["up"] EXCEPT !.stopped = TRUE, !.interrupt = TRUE]
  <2>1. /\ gwThread["accept"] \in GwLocal(S) /\ gwThread["up"] \in GwLocal(S)
        /\ {"accept", "up", "down"} \subseteq GwThreads
    BY <1>0 DEF GwLocals, GwThreads
  <2>2. p \in GwLocal(S) /\ p.pc = "join_up" BY <2>1 DEF GwLocal, GwLabels
  <2>3. q \in GwLocal(S) /\ q.pc = gwThread["up"].pc /\ q.conn = gwThread["up"].conn BY <2>1 DEF GwLocal
  <2>4. gwThread' = [gwThread EXCEPT !["accept"] = p, !["up"] = q] BY <1>0, <1>a, <2>1 DEF GwLocals
  <2> HIDE DEF p, q
  <2>5. GwLocals(S)' /\ gwThread'["accept"] = p /\ gwThread'["up"] = q /\ gwThread'["down"] = gwThread["down"]
    BY <1>0, <2>1, <2>2, <2>3, <2>4 DEF GwLocals
  <2> QED BY <2>2, <2>3, <2>5 DEF GwA, GwU, GwUConn, GwD, GwDConn
<1>d. ThreadOnly /\ gw' = gw /\ gwQueue' = gwQueue /\ gwWorld' = gwWorld /\ GwA = "stop_up"
  BY DEF AcceptStopsUplink, Pc, GwA
<1>e. /\ ThreadOnly
      /\ GwLocals(S)'
      /\ GwA = "stop_up" /\ GwA' = "join_up"
      /\ UNCHANGED <<GwU, GwUConn, GwD, GwDConn>>
      /\ gw' = gw
      /\ gwWorld' = gwWorld
      /\ gwQueue' = gwQueue
      /\ gwLock["up"] = "free" /\ gwLock' = [gwLock EXCEPT !["up"] = "accept"]
  BY <1>a, <1>b, <1>d
<1>f. GwListsKept /\ GwTodoOK' /\ (GwCalm' <=> GwCalm) /\ gwConfig' = gwConfig /\ GwPastOK'
  BY <1>e, GwThreadFrame
<1>t. GwTyped'
  <2>1. GwFieldsOK' BY <1>0, <1>e, <1>f DEF GwFieldsOK
  <2>2. GwLocksOK' BY <1>0, <1>e, <1>f DEF GwLocksOK
  <2>3. GwQueueOK' BY <1>0, <1>e, <1>f DEF GwQueueOK, GwConn
  <2>4. GwWorldOK' BY <1>0, <1>e, <1>f DEF GwWorldOK, GwConn
  <2>5. GwLocals(0..gwConfig.conns)' BY <1>e, <1>f, <1>s DEF GwLocals
  <2> QED BY <1>0, <1>e, <1>f, <1>i, <2>1, <2>2, <2>3, <2>4, <2>5 DEF GwTyped
<1>1. GwLocked' BY <1>e, <1>f, <1>i, <1>0 DEF GwListsKept, GwLocked, GwThreads, GwLocksOK
<1>2. GwClosed' BY <1>e, <1>f, <1>i DEF GwListsKept, GwClosed
<1>3. GwNamed' BY <1>e, <1>f, <1>i DEF GwListsKept, GwNamed
<1>r. GwCalm' => GwOneAtATime' /\ GwServesAllowed' /\ GwOneOpen' /\ GwReports'
  <2> SUFFICES ASSUME GwCalm' PROVE GwOneAtATime' /\ GwServesAllowed' /\ GwOneOpen' /\ GwReports' OBVIOUS
  <2>0. GwOneAtATime /\ GwServesAllowed /\ GwOneOpen /\ GwReports BY <1>f, <1>i
  <2>1. GwOneAtATime'
    BY <1>e, <1>f, <2>0 DEF GwListsKept, GwOneAtATime, GwURuns, GwOver, GwServes, GwBusy, GwFree
  <2>2. GwServesAllowed' BY <1>e, <1>f, <2>0 DEF GwListsKept, GwServesAllowed, GwTaken
  <2>3. GwOneOpen' BY <1>e, <1>f, <2>0 DEF GwListsKept, GwOneOpen
  <2>4. GwReports' BY <1>e, <1>f, <2>0 DEF GwListsKept, GwReports, GwServes
  <2> QED BY <2>1, <2>2, <2>3, <2>4
<1> QED BY <1>1, <1>2, <1>3, <1>f, <1>r, <1>t DEF GwInv, GwRegular

\* ... and starts a new one.
LEMMA GwAcceptStarts ==
  ASSUME GwInv, AcceptStartsUplink
  PROVE  GwInv'
<1>i. /\ GwTyped /\ GwTodoOK /\ GwLocked /\ GwClosed /\ GwNamed
      /\ (GwCalm => GwOneAtATime /\ GwServesAllowed /\ GwOneOpen /\ GwReports)
  BY DEF GwInv, GwRegular
<1>s. PICK S : S = 0..gwConfig.conns OBVIOUS
<1>0. /\ 0 \in S /\ gwConfig.conns \in Nat /\ GwLocals(S)
      /\ GwFieldsOK /\ GwLocksOK /\ GwQueueOK /\ GwWorldOK /\ GwPastOK
  BY <1>i, <1>s DEF GwTyped
<1> DEFINE q == IF gwThread["up"].pc # "none" /\ gwThread["accept"].interrupt THEN gwThread["up"] ELSE GwNew("start")
<1>a. /\ gwLock' = [gwLock EXCEPT !["up"] = "free"]
      /\ gwThread["up"].pc # "none" /\ ~gwThread["accept"].interrupt => ~Running("up")
      /\ gwThread' = [gwThread EXCEPT !["accept"] = GwNew("done"), !["up"] = q]
  BY DEF AcceptStartsUplink
<1>b. /\ GwLocals(S)' /\ GwA' = "done" /\ UNCHANGED <<GwD, GwDConn>>
      /\ \/ UNCHANGED <<GwU, GwUConn, GwUInt>> /\ GwU # "none"
         \/ GwU \in {"none", "done"} /\ GwU' = "start" /\ ~GwUInt'
  <2>1. gwThread["up"] \in GwLocal(S) /\ {"accept", "up", "down"} \subseteq GwThreads
    BY <1>0 DEF GwLocals, GwThreads
  <2>2. GwNew("done") \in GwLocal(S) /\ GwNew("done").pc = "done" BY <1>0, GwNewLocal DEF GwLabels
  <2>3. GwNew("start") \in GwLocal(S) /\ GwNew("start").pc = "start" BY <1>0, GwNewLocal DEF GwLabels
  <2>4. GwNew("start").interrupt = FALSE BY DEF GwNew
  <2>5. q \in GwLocal(S) BY <2>1, <2>3
  <2>6. \/ q = gwThread["up"] /\ GwU # "none"
        \/ q = GwNew("start") /\ GwU \in {"none", "done"}
    BY <1>a DEF GwU, Running
  <2> HIDE DEF q
  <2>7. /\ GwLocals(S)' /\ gwThread'["accept"] = GwNew("done") /\ gwThread'["up"] = q
        /\ gwThread'["down"] = gwThread["down"]
    BY <1>0, <1>a, <2>1, <2>2, <2>5 DEF GwLocals
  <2> QED BY <2>2, <2>3, <2>4, <2>6, <2>7 DEF GwA, GwU, GwUConn, GwUInt, GwD, GwDConn
<1>d. ThreadOnly /\ gw' = gw /\ gwQueue' = gwQueue /\ gwWorld' = gwWorld /\ GwA = "join_up"
  BY DEF AcceptStartsUplink, Pc, GwA
<1>e. /\ ThreadOnly
      /\ GwLocals(S)'
      /\ GwA = "join_up" /\ GwA' = "done"
      /\ (UNCHANGED <<GwU, GwUConn, GwUInt>> /\ GwU # "none") \/ (GwU \in {"none", "done"} /\ GwU' = "start" /\ ~GwUInt')
      /\ UNCHANGED <<GwD, GwDConn>>
      /\ gw' = gw
      /\ gwWorld' = gwWorld
      /\ gwQueue' = gwQueue
      /\ gwLock' = [gwLock EXCEPT !["up"] = "free"]
  BY <1>a, <1>b, <1>d
<1>f. GwListsKept /\ GwTodoOK' /\ (GwCalm' <=> GwCalm) /\ gwConfig' = gwConfig /\ GwPastOK'
  BY <1>e, GwThreadFrame
<1>t. GwTyped'
  <2>1. GwFieldsOK' BY <1>0, <1>e, <1>f DEF GwFieldsOK
  <2>2. GwLocksOK' BY <1>0, <1>e, <1>f DEF GwLocksOK
  <2>3. GwQueueOK' BY <1>0, <1>e, <1>f DEF GwQueueOK, GwConn
  <2>4. GwWorldOK' BY <1>0, <1>e, <1>f DEF GwWorldOK, GwConn
  <2>5. GwLocals(0..gwConfig.conns)' BY <1>e, <1>f, <1>s DEF GwLocals
  <2> QED BY <1>0, <1>e, <1>f, <1>i, <2>1, <2>2, <2>3, <2>4, <2>5 DEF GwTyped
<1>1. GwLocked' BY <1>e, <1>f, <1>i, <1>0 DEF GwListsKept, GwLocked, GwThreads, GwLocksOK
<1>2. GwClosed' BY <1>e, <1>f, <1>i DEF GwListsKept, GwClosed, GwUpGone, GwLeft
<1>3. GwNamed' BY <1>e, <1>f, <1>i DEF GwListsKept, GwNamed
<1>r. GwCalm' => GwOneAtATime' /\ GwServesAllowed' /\ GwOneOpen' /\ GwReports'
  <2> SUFFICES ASSUME GwCalm' PROVE GwOneAtATime' /\ GwServesAllowed' /\ GwOneOpen' /\ GwReports' OBVIOUS
  <2>0. GwOneAtATime /\ GwServesAllowed /\ GwOneOpen /\ GwReports BY <1>f, <1>i
  <2>1. GwOneAtATime'
    BY <1>e, <1>f, <2>0 DEF GwListsKept, GwOneAtATime, GwURuns, GwOver, GwServes, GwBusy, GwFree
  <2>2. GwServesAllowed'
    BY <1>e, <1>f, <2>0
       DEF GwListsKept, GwServesAllowed, GwTaken, GwOneAtATime, GwURuns, GwOver, GwServes, GwBusy, GwFree
  <2>3. GwOneOpen'
    BY <1>e, <1>f, <2>0 DEF GwListsKept, GwOneOpen, GwOneAtATime, GwURuns, GwOver, GwServes, GwBusy, GwFree
  <2>4. GwReports'
    BY <1>e, <1>f, <2>0
       DEF GwListsKept, GwReports, GwServes, GwOneAtATime, GwURuns, GwOver, GwServes, GwBusy, GwFree
  <2> QED BY <2>1, <2>2, <2>3, <2>4
<1> QED BY <1>1, <1>2, <1>3, <1>f, <1>r, <1>t DEF GwInv, GwRegular

\* Every step of the accept thread.
LEMMA GwAcceptStep ==
  ASSUME GwInv, AcceptThread
  PROVE  GwInv'
<1>0. GwFieldsOK BY DEF GwInv, GwTyped
<1>1. CASE AcceptStart \/ CreateListenSocket \/ CheckInterrupted \/ AcceptLoop \/ CallAccept \/ AcceptFails
  <2>1. ThreadOnly /\ UNCHANGED <<gwLock, gwQueue>> /\ GwA \in GwListens
    BY <1>1
       DEF AcceptStart, CreateListenSocket, CheckInterrupted, AcceptLoop, CallAccept, AcceptFails, Pc, GwA, GwListens
  <2>2. gwWorld' = gwWorld \/ gwWorld' = [gwWorld EXCEPT !.crashed = TRUE]
    BY <1>1 DEF AcceptStart, CreateListenSocket, CheckInterrupted, AcceptLoop, CallAccept, AcceptFails
  <2>3. gw' = gw \/ gw' = [gw EXCEPT !.listen = FALSE] \/ (GwOn /\ gw' = [gw EXCEPT !.listen = TRUE])
    BY <1>1 DEF AcceptStart, CreateListenSocket, CheckInterrupted, AcceptLoop, CallAccept, AcceptFails, GwOn
  <2>4. \E label \in GwListens \cup {"done"} : Goes("accept", label) \/ (UNCHANGED gwThread /\ label = GwA)
    <3>1. CASE AcceptStart BY <3>1 DEF AcceptStart, GwListens
    <3>2. CASE CreateListenSocket BY <3>2 DEF CreateListenSocket, GwListens
    <3>3. CASE CheckInterrupted BY <3>3 DEF CheckInterrupted, GwListens
    <3>4. CASE AcceptLoop BY <3>4 DEF AcceptLoop, GwListens
    <3>5. CASE CallAccept BY <2>1, <3>5 DEF CallAccept, GwListens
    <3>6. CASE AcceptFails BY <3>6 DEF AcceptFails, GwListens
    <3> QED BY <1>1, <3>1, <3>2, <3>3, <3>4, <3>5, <3>6
  <2> QED BY <2>1, <2>2, <2>3, <2>4, GwListening
<1> QED
  BY <1>1, GwAssign, GwNoDevice, GwDevice, GwNotify, GwSetWaiting, GwSendTimeout, GwAcceptStops, GwAcceptStarts
    DEF AcceptThread

\* The uplink thread has a socket to the server.
LEMMA GwHasServer ==
  ASSUME GwInv, ThreadOnly, UNCHANGED <<gwLock, gwQueue, gwWorld>>, GwU = "start", Goes("up", "streams"),
         gw' = gw \/ gw' = [gw EXCEPT !.server = "open"]
  PROVE  GwInv'
<1>i. /\ GwTyped /\ GwTodoOK /\ GwLocked /\ GwClosed /\ GwNamed
      /\ (GwCalm => GwOneAtATime /\ GwServesAllowed /\ GwOneOpen /\ GwReports)
  BY DEF GwInv, GwRegular
<1>s. PICK S : S = 0..gwConfig.conns OBVIOUS
<1>0. /\ 0 \in S /\ gwConfig.conns \in Nat /\ GwLocals(S)
      /\ GwFieldsOK /\ GwLocksOK /\ GwQueueOK /\ GwWorldOK /\ GwPastOK
  BY <1>i, <1>s DEF GwTyped
<1>b. /\ GwLocals(S)' /\ GwU' = "streams" /\ GwUConn' = GwUConn /\ GwUInt' = GwUInt
      /\ UNCHANGED <<GwA, GwAConn, GwD, GwDConn>>
  BY <1>0, GwUGoes DEF GwLabels
<1>g. gw'.rfcomm = gw.rfcomm /\ gw'.remote = gw.remote /\ gw'.waiting = gw.waiting /\ gw'.listen = gw.listen
  BY <1>0 DEF GwFieldsOK
<1>e. /\ ThreadOnly
      /\ GwLocals(S)'
      /\ GwU = "start" /\ GwU' = "streams" /\ GwUConn' = GwUConn /\ GwUInt' = GwUInt
      /\ UNCHANGED <<GwA, GwAConn, GwD, GwDConn>>
      /\ gw'.rfcomm = gw.rfcomm
      /\ gw'.remote = gw.remote
      /\ gw'.waiting = gw.waiting
      /\ gw'.listen = gw.listen
      /\ gwWorld' = gwWorld
      /\ gwQueue' = gwQueue
      /\ gwLock' = gwLock
  BY <1>b, <1>g
<1>f. GwListsKept /\ GwTodoOK' /\ (GwCalm' <=> GwCalm) /\ gwConfig' = gwConfig /\ GwPastOK'
  BY <1>e, GwThreadFrame
<1>t. GwTyped'
  <2>1. GwFieldsOK' BY <1>0, <1>f DEF GwFieldsOK
  <2>2. GwLocksOK' BY <1>0, <1>e, <1>f DEF GwLocksOK
  <2>3. GwQueueOK' BY <1>0, <1>e, <1>f DEF GwQueueOK, GwConn
  <2>4. GwWorldOK' BY <1>0, <1>e, <1>f DEF GwWorldOK, GwConn
  <2>5. GwLocals(0..gwConfig.conns)' BY <1>e, <1>f, <1>s DEF GwLocals
  <2> QED BY <1>0, <1>e, <1>f, <1>i, <2>1, <2>2, <2>3, <2>4, <2>5 DEF GwTyped
<1>1. GwLocked' BY <1>e, <1>f, <1>i DEF GwListsKept, GwLocked, GwThreads
<1>2. GwClosed' BY <1>e, <1>f, <1>i DEF GwListsKept, GwClosed
<1>3. GwNamed' BY <1>e, <1>f, <1>i DEF GwListsKept, GwNamed
<1>r. GwCalm' => GwOneAtATime' /\ GwServesAllowed' /\ GwOneOpen' /\ GwReports'
  <2> SUFFICES ASSUME GwCalm' PROVE GwOneAtATime' /\ GwServesAllowed' /\ GwOneOpen' /\ GwReports' OBVIOUS
  <2>0. GwOneAtATime /\ GwServesAllowed /\ GwOneOpen /\ GwReports BY <1>f, <1>i
  <2>1. GwOneAtATime'
    BY <1>e, <1>f, <2>0 DEF GwListsKept, GwOneAtATime, GwURuns, GwOver, GwServes, GwBusy, GwFree
  <2>2. GwServesAllowed' BY <1>e, <1>f, <2>0 DEF GwListsKept, GwServesAllowed, GwTaken
  <2>3. GwOneOpen' BY <1>e, <1>f, <2>0 DEF GwListsKept, GwOneOpen
  <2>4. GwReports' BY <1>e, <1>f, <2>0 DEF GwListsKept, GwReports, GwServes
  <2> QED BY <2>1, <2>2, <2>3, <2>4
<1> QED BY <1>1, <1>2, <1>3, <1>f, <1>r, <1>t DEF GwInv, GwRegular

\* The server is not there: the listener is started again.
LEMMA GwNoServer ==
  ASSUME GwInv, ThreadOnly, UNCHANGED gwLock, GwU = "start", Goes("up", "done"),
         gw' = [gw EXCEPT !.rfcomm = 0, !.server = "unconnected"],
         gwWorld' = RfcommClosed, gwQueue' = [gwQueue EXCEPT !.start = TRUE]
  PROVE  GwInv'
<1>i. /\ GwTyped /\ GwTodoOK /\ GwLocked /\ GwClosed /\ GwNamed
      /\ (GwCalm => GwOneAtATime /\ GwServesAllowed /\ GwOneOpen /\ GwReports)
  BY DEF GwInv, GwRegular
<1>s. PICK S : S = 0..gwConfig.conns OBVIOUS
<1>0. /\ 0 \in S /\ gwConfig.conns \in Nat /\ GwLocals(S)
      /\ GwFieldsOK /\ GwLocksOK /\ GwQueueOK /\ GwWorldOK /\ GwPastOK
  BY <1>i, <1>s DEF GwTyped
<1>a. gw' = [gw EXCEPT !.rfcomm = 0, !.server = "unconnected"] /\ gwWorld' = RfcommClosed OBVIOUS
<1>b. GwLocals(S)' /\ GwU' = "done" /\ UNCHANGED <<GwA, GwAConn, GwD, GwDConn>>
  BY <1>0, GwUGoes DEF GwLabels
<1>q. gwQueue'.start = TRUE BY <1>0 DEF GwQueueOK
<1>g. /\ gw'.rfcomm = 0 /\ gw'.remote = gw.remote /\ gw'.waiting = gw.waiting /\ gw'.listen = gw.listen
      /\ gwWorld'.adapter = gwWorld.adapter /\ gwWorld'.open = gwWorld.open \ {gw.rfcomm}
      /\ gwWorld'.allowed = gwWorld.allowed /\ gwWorld'.told = gwWorld.told
  BY <1>0, <1>a DEF GwFieldsOK, GwWorldOK, RfcommClosed
<1>e. /\ ThreadOnly
      /\ GwLocals(S)'
      /\ GwU = "start" /\ GwU' = "done"
      /\ UNCHANGED <<GwA, GwAConn, GwD, GwDConn>>
      /\ gw'.rfcomm = 0
      /\ gw'.remote = gw.remote
      /\ gw'.waiting = gw.waiting
      /\ gw'.listen = gw.listen
      /\ gwWorld'.adapter = gwWorld.adapter
      /\ gwWorld'.open = gwWorld.open \ {gw.rfcomm}
      /\ gwWorld'.allowed = gwWorld.allowed
      /\ gwWorld'.told = gwWorld.told
      /\ gwQueue'.start = TRUE
      /\ gwLock' = gwLock
  BY <1>b, <1>g, <1>q
<1>f. GwListsKept /\ GwTodoOK' /\ (GwCalm' <=> GwCalm) /\ gwConfig' = gwConfig /\ GwPastOK'
  BY <1>e, GwThreadFrame
<1>t. GwTyped'
  <2>1. GwFieldsOK' BY <1>0, <1>a, <1>f, <1>s DEF GwFieldsOK
  <2>2. GwLocksOK' BY <1>0, <1>e, <1>f DEF GwLocksOK
  <2>3. GwQueueOK' BY <1>0, <1>f DEF GwQueueOK, GwConn
  <2>4. GwWorldOK' BY <1>0, <1>a, <1>f, ZenonT(60) DEF GwWorldOK, GwConn, RfcommClosed
  <2>5. GwLocals(0..gwConfig.conns)' BY <1>e, <1>f, <1>s DEF GwLocals
  <2> QED BY <1>0, <1>e, <1>f, <1>i, <2>1, <2>2, <2>3, <2>4, <2>5 DEF GwTyped
<1>1. GwLocked' BY <1>e, <1>f, <1>i DEF GwListsKept, GwLocked, GwThreads
<1>2. GwClosed' BY <1>e, <1>f, <1>i DEF GwListsKept, GwClosed
<1>3. GwNamed' BY <1>e, <1>f, <1>i DEF GwListsKept, GwNamed
<1>r. GwCalm' => GwOneAtATime' /\ GwServesAllowed' /\ GwOneOpen' /\ GwReports'
  <2> SUFFICES ASSUME GwCalm' PROVE GwOneAtATime' /\ GwServesAllowed' /\ GwOneOpen' /\ GwReports' OBVIOUS
  <2>0. GwOneAtATime /\ GwServesAllowed /\ GwOneOpen /\ GwReports BY <1>f, <1>i
  <2>1. GwOneAtATime'
    BY <1>e, <1>f, <2>0 DEF GwListsKept, GwOneAtATime, GwURuns, GwOver, GwServes, GwBusy, GwFree
  <2>2. GwServesAllowed'
    BY <1>e, <1>f, <2>0
       DEF GwListsKept, GwServesAllowed, GwTaken, GwOneAtATime, GwURuns, GwOver, GwServes, GwBusy, GwFree
  <2>3. GwOneOpen'
    BY <1>e, <1>f, <2>0 DEF GwListsKept, GwOneOpen, GwOneAtATime, GwURuns, GwOver, GwServes, GwBusy, GwFree
  <2>4. GwReports' BY <1>e, <1>f, <2>0 DEF GwListsKept, GwReports, GwServes
  <2> QED BY <2>1, <2>2, <2>3, <2>4
<1> QED BY <1>1, <1>2, <1>3, <1>f, <1>r, <1>t DEF GwInv, GwRegular

\* A socket is closed already.
LEMMA GwNoStreams ==
  ASSUME GwInv, UplinkStreams, Unusable \/ gw.rfcomm = 0
  PROVE  GwInv'
<1>i. /\ GwTyped /\ GwTodoOK /\ GwLocked /\ GwClosed /\ GwNamed
      /\ (GwCalm => GwOneAtATime /\ GwServesAllowed /\ GwOneOpen /\ GwReports)
  BY DEF GwInv, GwRegular
<1>s. PICK S : S = 0..gwConfig.conns OBVIOUS
<1>0. /\ 0 \in S /\ gwConfig.conns \in Nat /\ GwLocals(S)
      /\ GwFieldsOK /\ GwLocksOK /\ GwQueueOK /\ GwWorldOK /\ GwPastOK
  BY <1>i, <1>s DEF GwTyped
<1>a. Goes("up", "done") BY DEF UplinkStreams
<1>b. GwLocals(S)' /\ GwU' = "done" /\ UNCHANGED <<GwA, GwAConn, GwD, GwDConn>>
  BY <1>0, <1>a, GwUGoes DEF GwLabels
<1>m. GwMarks("unconnected")
  <2>1. gwPast' = [gwPast EXCEPT !.stale = IF gw.server = "unconnected" THEN @ \cup {"unconnected"} ELSE @]
    BY DEF UplinkStreams
  <2> QED BY <1>0, <2>1 DEF GwMarks, GwPastOK
<1>d. /\ UNCHANGED <<gwConfig, gwTodo>> /\ gw' = gw /\ gwLock' = gwLock /\ gwQueue' = gwQueue /\ gwWorld' = gwWorld
      /\ GwU = "streams"
  BY DEF UplinkStreams, Pc, GwU
<1>e. /\ UNCHANGED <<gwConfig, gwTodo>>
      /\ GwLocals(S)'
      /\ GwU = "streams" /\ GwU' = "done"
      /\ UNCHANGED <<GwA, GwAConn, GwD, GwDConn>>
      /\ gw' = gw
      /\ gwWorld' = gwWorld
      /\ gwQueue' = gwQueue
      /\ gwLock' = gwLock
  BY <1>b, <1>d
<1>f. GwListsKept /\ GwTodoOK' /\ (GwCalm' <=> GwCalm) /\ gwConfig' = gwConfig /\ GwPastOK'
  BY <1>e, <1>m, GwMarkFrame
<1>t. GwTyped'
  <2>1. GwFieldsOK' BY <1>0, <1>e, <1>f DEF GwFieldsOK
  <2>2. GwLocksOK' BY <1>0, <1>e, <1>f DEF GwLocksOK
  <2>3. GwQueueOK' BY <1>0, <1>e, <1>f DEF GwQueueOK, GwConn
  <2>4. GwWorldOK' BY <1>0, <1>e, <1>f DEF GwWorldOK, GwConn
  <2>5. GwLocals(0..gwConfig.conns)' BY <1>e, <1>f, <1>s DEF GwLocals
  <2> QED BY <1>0, <1>e, <1>f, <1>i, <2>1, <2>2, <2>3, <2>4, <2>5 DEF GwTyped
<1>1. GwLocked' BY <1>e, <1>f, <1>i DEF GwListsKept, GwLocked, GwThreads
<1>2. GwClosed' BY <1>e, <1>f, <1>i DEF GwListsKept, GwClosed
<1>3. GwNamed' BY <1>e, <1>f, <1>i DEF GwListsKept, GwNamed
<1>r. GwCalm' => GwOneAtATime' /\ GwServesAllowed' /\ GwOneOpen' /\ GwReports'
  <2> SUFFICES ASSUME GwCalm' PROVE GwOneAtATime' /\ GwServesAllowed' /\ GwOneOpen' /\ GwReports' OBVIOUS
  <2>0. GwOneAtATime /\ GwServesAllowed /\ GwOneOpen /\ GwReports BY <1>f, <1>i
  <2>1. GwOneAtATime'
    BY <1>e, <1>f, <2>0 DEF GwListsKept, GwOneAtATime, GwURuns, GwOver, GwServes, GwBusy, GwFree
  <2>2. GwServesAllowed' BY <1>e, <1>f, <2>0 DEF GwListsKept, GwServesAllowed, GwTaken
  <2>3. GwOneOpen' BY <1>e, <1>f, <2>0 DEF GwListsKept, GwOneOpen
  <2>4. GwReports' BY <1>e, <1>f, <2>0 DEF GwListsKept, GwReports, GwServes
  <2> QED BY <2>1, <2>2, <2>3, <2>4
<1> QED BY <1>1, <1>2, <1>3, <1>f, <1>r, <1>t DEF GwInv, GwRegular

\* The uplink thread takes the streams of the connection.
LEMMA GwStreams ==
  ASSUME GwInv, UplinkStreams, ~(Unusable \/ gw.rfcomm = 0)
  PROVE  GwInv'
<1>i. /\ GwTyped /\ GwTodoOK /\ GwLocked /\ GwClosed /\ GwNamed
      /\ (GwCalm => GwOneAtATime /\ GwServesAllowed /\ GwOneOpen /\ GwReports)
  BY DEF GwInv, GwRegular
<1>s. PICK S : S = 0..gwConfig.conns OBVIOUS
<1>0. /\ 0 \in S /\ gwConfig.conns \in Nat /\ GwLocals(S)
      /\ GwFieldsOK /\ GwLocksOK /\ GwQueueOK /\ GwWorldOK /\ GwPastOK
  BY <1>i, <1>s DEF GwTyped
<1>a. gwThread' = [gwThread EXCEPT !["up"].pc = "start_down", !["up"].conn = gw.rfcomm,
                                       !["up"].wired = (gw.server = "open")]
  BY DEF UplinkStreams
<1>b. /\ GwLocals(S)' /\ GwU' = "start_down" /\ GwUConn' = gw.rfcomm /\ GwUInt' = GwUInt
      /\ UNCHANGED <<GwA, GwAConn, GwD, GwDConn>>
  <2> DEFINE r == [gwThread["up"] EXCEPT !.pc = "start_down", !.conn = gw.rfcomm, !.wired = (gw.server = "open")]
  <2>1. gwThread["up"] \in GwLocal(S) /\ {"accept", "up", "down"} \subseteq GwThreads
    BY <1>0 DEF GwLocals, GwThreads
  <2>2. /\ r \in GwLocal(S) /\ r.pc = "start_down" /\ r.conn = gw.rfcomm
        /\ r.interrupt = gwThread["up"].interrupt
    BY <1>0, <1>s, <2>1 DEF GwLocal, GwLabels, GwFieldsOK
  <2>3. gwThread' = [gwThread EXCEPT !["up"] = r] BY <1>0, <1>a, <2>1 DEF GwLocals
  <2> HIDE DEF r
  <2>4. /\ GwLocals(S)' /\ gwThread'["up"] = r
        /\ \A u \in GwThreads \ {"up"} : gwThread'[u] = gwThread[u]
    BY <1>0, <2>1, <2>2, <2>3, GwOneThread
  <2>5. gwThread'["accept"] = gwThread["accept"] /\ gwThread'["down"] = gwThread["down"] BY <2>1, <2>4
  <2> QED BY <2>2, <2>4, <2>5 DEF GwA, GwAConn, GwU, GwUConn, GwUInt, GwD, GwDConn
<1>m. GwMarks("unconnected")
  <2>1. gwPast' = [gwPast EXCEPT !.stale = IF gw.server = "unconnected" THEN @ \cup {"unconnected"} ELSE @]
    BY DEF UplinkStreams
  <2> QED BY <1>0, <2>1 DEF GwMarks, GwPastOK
<1>d. /\ UNCHANGED <<gwConfig, gwTodo>> /\ gw' = gw /\ gwLock' = gwLock /\ gwQueue' = gwQueue /\ gwWorld' = gwWorld
      /\ GwU = "streams"
  BY DEF UplinkStreams, Pc, GwU
<1>e. /\ UNCHANGED <<gwConfig, gwTodo>>
      /\ GwLocals(S)'
      /\ GwU = "streams" /\ GwU' = "start_down" /\ GwUConn' = gw.rfcomm /\ gw.rfcomm # 0 /\ GwUInt' = GwUInt
      /\ UNCHANGED <<GwA, GwAConn, GwD, GwDConn>>
      /\ gw' = gw
      /\ gwWorld' = gwWorld
      /\ gwQueue' = gwQueue
      /\ gwLock' = gwLock
  BY <1>b, <1>d
<1>f. GwListsKept /\ GwTodoOK' /\ (GwCalm' <=> GwCalm) /\ gwConfig' = gwConfig /\ GwPastOK'
  BY <1>e, <1>m, GwMarkFrame
<1>t. GwTyped'
  <2>1. GwFieldsOK' BY <1>0, <1>e, <1>f DEF GwFieldsOK
  <2>2. GwLocksOK' BY <1>0, <1>e, <1>f DEF GwLocksOK
  <2>3. GwQueueOK' BY <1>0, <1>e, <1>f DEF GwQueueOK, GwConn
  <2>4. GwWorldOK' BY <1>0, <1>e, <1>f DEF GwWorldOK, GwConn
  <2>5. GwLocals(0..gwConfig.conns)' BY <1>e, <1>f, <1>s DEF GwLocals
  <2> QED BY <1>0, <1>e, <1>f, <1>i, <2>1, <2>2, <2>3, <2>4, <2>5 DEF GwTyped
<1>1. GwLocked' BY <1>e, <1>f, <1>i DEF GwListsKept, GwLocked, GwThreads
<1>2. GwClosed' BY <1>e, <1>f, <1>i DEF GwListsKept, GwClosed
<1>3. GwNamed' BY <1>e, <1>f, <1>i DEF GwListsKept, GwNamed
<1>r. GwCalm' => GwOneAtATime' /\ GwServesAllowed' /\ GwOneOpen' /\ GwReports'
  <2> SUFFICES ASSUME GwCalm' PROVE GwOneAtATime' /\ GwServesAllowed' /\ GwOneOpen' /\ GwReports' OBVIOUS
  <2>0. GwOneAtATime /\ GwServesAllowed /\ GwOneOpen /\ GwReports BY <1>f, <1>i
  <2>1. GwOneAtATime'
    BY <1>e, <1>f, <2>0 DEF GwListsKept, GwOneAtATime, GwURuns, GwOver, GwServes, GwBusy, GwFree
  <2>2. GwServesAllowed'
    BY <1>e, <1>f, <2>0
       DEF GwListsKept, GwServesAllowed, GwTaken, GwOneAtATime, GwURuns, GwOver, GwServes, GwBusy, GwFree
  <2>3. GwOneOpen' BY <1>e, <1>f, <2>0 DEF GwListsKept, GwOneOpen
  <2>4. GwReports' BY <1>e, <1>f, <2>0 DEF GwListsKept, GwReports, GwServes
  <2> QED BY <2>1, <2>2, <2>3, <2>4
<1> QED BY <1>1, <1>2, <1>3, <1>f, <1>r, <1>t DEF GwInv, GwRegular

\* startDownlinkThread.
LEMMA GwStartsDown ==
  ASSUME GwInv, StartDownlink
  PROVE  GwInv'
<1>i. /\ GwTyped /\ GwTodoOK /\ GwLocked /\ GwClosed /\ GwNamed
      /\ (GwCalm => GwOneAtATime /\ GwServesAllowed /\ GwOneOpen /\ GwReports)
  BY DEF GwInv, GwRegular
<1>s. PICK S : S = 0..gwConfig.conns OBVIOUS
<1>0. /\ 0 \in S /\ gwConfig.conns \in Nat /\ GwLocals(S)
      /\ GwFieldsOK /\ GwLocksOK /\ GwQueueOK /\ GwWorldOK /\ GwPastOK
  BY <1>i, <1>s DEF GwTyped
<1> DEFINE label == IF Dun THEN "start_mon" ELSE "read"
           d == IF gwThread["down"].pc = "none" THEN GwNew("start") ELSE gwThread["down"]
           u == [gwThread["up"] EXCEPT !.pc = label]
<1>b. /\ GwLocals(S)' /\ GwU' \in {"start_mon", "read"} /\ GwUConn' = GwUConn /\ GwUInt' = GwUInt
      /\ (GwD' = GwD /\ GwDConn' = GwDConn) \/ (GwD = "none" /\ GwD' = "start")
      /\ UNCHANGED <<GwA, GwAConn>>
  <2>1. /\ gwThread["up"] \in GwLocal(S) /\ gwThread["down"] \in GwLocal(S)
        /\ {"accept", "up", "down"} \subseteq GwThreads
    BY <1>0 DEF GwLocals, GwThreads
  <2>2. GwNew("start") \in GwLocal(S) /\ GwNew("start").pc = "start" BY <1>0, GwNewLocal DEF GwLabels
  <2>3. d \in GwLocal(S) /\ (d = gwThread["down"] \/ (gwThread["down"].pc = "none" /\ d.pc = "start"))
    BY <2>1, <2>2
  <2>4. label \in {"start_mon", "read"} OBVIOUS
  <2>5. gwThread' = [gwThread EXCEPT !["up"] = u, !["down"] = d] BY <1>0, <2>1 DEF GwLocals, StartDownlink
  <2> HIDE DEF label
  <2>6. /\ u \in GwLocal(S) /\ u.pc = label /\ u.conn = gwThread["up"].conn
        /\ u.interrupt = gwThread["up"].interrupt
    BY <2>1, <2>4 DEF GwLocal, GwLabels
  <2> HIDE DEF d, u
  <2>7. /\ GwLocals(S)' /\ gwThread'["up"] = u /\ gwThread'["down"] = d
        /\ gwThread'["accept"] = gwThread["accept"]
    BY <1>0, <2>1, <2>3, <2>5, <2>6 DEF GwLocals
  <2> QED BY <2>3, <2>4, <2>6, <2>7 DEF GwA, GwAConn, GwU, GwUConn, GwUInt, GwD, GwDConn
<1>d. /\ ThreadOnly /\ gw' = gw /\ gwLock' = gwLock /\ gwQueue' = gwQueue /\ gwWorld' = gwWorld
      /\ GwU = "start_down"
  BY DEF StartDownlink, Pc, GwU
<1>e. /\ ThreadOnly
      /\ GwLocals(S)'
      /\ GwU = "start_down" /\ GwU' \in {"start_mon", "read"} /\ GwUConn' = GwUConn /\ GwUInt' = GwUInt
      /\ (GwD' = GwD /\ GwDConn' = GwDConn) \/ (GwD = "none" /\ GwD' = "start")
      /\ UNCHANGED <<GwA, GwAConn>>
      /\ gw' = gw
      /\ gwWorld' = gwWorld
      /\ gwQueue' = gwQueue
      /\ gwLock' = gwLock
  BY <1>b, <1>d
<1>f. GwListsKept /\ GwTodoOK' /\ (GwCalm' <=> GwCalm) /\ gwConfig' = gwConfig /\ GwPastOK'
  BY <1>e, GwThreadFrame
<1>t. GwTyped'
  <2>1. GwFieldsOK' BY <1>0, <1>e, <1>f DEF GwFieldsOK
  <2>2. GwLocksOK' BY <1>0, <1>e, <1>f DEF GwLocksOK
  <2>3. GwQueueOK' BY <1>0, <1>e, <1>f DEF GwQueueOK, GwConn
  <2>4. GwWorldOK' BY <1>0, <1>e, <1>f DEF GwWorldOK, GwConn
  <2>5. GwLocals(0..gwConfig.conns)' BY <1>e, <1>f, <1>s DEF GwLocals
  <2> QED BY <1>0, <1>e, <1>f, <1>i, <2>1, <2>2, <2>3, <2>4, <2>5 DEF GwTyped
<1>1. GwLocked' BY <1>e, <1>f, <1>i DEF GwListsKept, GwLocked, GwThreads
<1>2. GwClosed' BY <1>e, <1>f, <1>i DEF GwListsKept, GwClosed
<1>3. GwNamed' BY <1>e, <1>f, <1>i DEF GwListsKept, GwNamed
<1>r. GwCalm' => GwOneAtATime' /\ GwServesAllowed' /\ GwOneOpen' /\ GwReports'
  <2> SUFFICES ASSUME GwCalm' PROVE GwOneAtATime' /\ GwServesAllowed' /\ GwOneOpen' /\ GwReports' OBVIOUS
  <2>0. GwOneAtATime /\ GwServesAllowed /\ GwOneOpen /\ GwReports BY <1>f, <1>i
  <2>1. GwOneAtATime'
    BY <1>e, <1>f, <2>0 DEF GwListsKept, GwOneAtATime, GwURuns, GwOver, GwServes, GwBusy, GwFree
  <2>2. GwServesAllowed' BY <1>e, <1>f, <2>0 DEF GwListsKept, GwServesAllowed, GwTaken
  <2>3. GwOneOpen' BY <1>e, <1>f, <2>0 DEF GwListsKept, GwOneOpen
  <2>4. GwReports' BY <1>e, <1>f, <2>0 DEF GwListsKept, GwReports, GwServes
  <2> QED BY <2>1, <2>2, <2>3, <2>4
<1> QED BY <1>1, <1>2, <1>3, <1>f, <1>r, <1>t DEF GwInv, GwRegular

\* startMonitorThread.
LEMMA GwStartsMon ==
  ASSUME GwInv, StartMonitor
  PROVE  GwInv'
<1>i. /\ GwTyped /\ GwTodoOK /\ GwLocked /\ GwClosed /\ GwNamed
      /\ (GwCalm => GwOneAtATime /\ GwServesAllowed /\ GwOneOpen /\ GwReports)
  BY DEF GwInv, GwRegular
<1>s. PICK S : S = 0..gwConfig.conns OBVIOUS
<1>0. /\ 0 \in S /\ gwConfig.conns \in Nat /\ GwLocals(S)
      /\ GwFieldsOK /\ GwLocksOK /\ GwQueueOK /\ GwWorldOK /\ GwPastOK
  BY <1>i, <1>s DEF GwTyped
<1> DEFINE d == IF gwThread["mon"].pc = "none" THEN GwNew("run") ELSE gwThread["mon"]
           u == [gwThread["up"] EXCEPT !.pc = "read"]
<1>b. /\ GwLocals(S)' /\ GwU' = "read" /\ GwUConn' = GwUConn /\ GwUInt' = GwUInt
      /\ UNCHANGED <<GwA, GwAConn, GwD, GwDConn>>
  <2>1. /\ gwThread["up"] \in GwLocal(S) /\ gwThread["mon"] \in GwLocal(S)
        /\ {"accept", "up", "down", "mon"} \subseteq GwThreads
    BY <1>0 DEF GwLocals, GwThreads
  <2>2. GwNew("run") \in GwLocal(S) BY <1>0, GwNewLocal DEF GwLabels
  <2>3. d \in GwLocal(S) BY <2>1, <2>2
  <2>5. gwThread' = [gwThread EXCEPT !["up"] = u, !["mon"] = d] BY <1>0, <2>1 DEF GwLocals, StartMonitor
  <2>6. /\ u \in GwLocal(S) /\ u.pc = "read" /\ u.conn = gwThread["up"].conn
        /\ u.interrupt = gwThread["up"].interrupt
    BY <2>1 DEF GwLocal, GwLabels
  <2> HIDE DEF d, u
  <2>7. /\ GwLocals(S)' /\ gwThread'["up"] = u
        /\ gwThread'["down"] = gwThread["down"] /\ gwThread'["accept"] = gwThread["accept"]
    BY <1>0, <2>1, <2>3, <2>5, <2>6 DEF GwLocals
  <2> QED BY <2>6, <2>7 DEF GwA, GwAConn, GwU, GwUConn, GwUInt, GwD, GwDConn
<1>d. /\ ThreadOnly /\ gw' = gw /\ gwLock' = gwLock /\ gwQueue' = gwQueue /\ gwWorld' = gwWorld
      /\ GwU = "start_mon"
  BY DEF StartMonitor, Pc, GwU
<1>e. /\ ThreadOnly
      /\ GwLocals(S)'
      /\ GwU = "start_mon" /\ GwU' = "read" /\ GwUConn' = GwUConn /\ GwUInt' = GwUInt
      /\ UNCHANGED <<GwA, GwAConn, GwD, GwDConn>>
      /\ gw' = gw
      /\ gwWorld' = gwWorld
      /\ gwQueue' = gwQueue
      /\ gwLock' = gwLock
  BY <1>b, <1>d
<1>f. GwListsKept /\ GwTodoOK' /\ (GwCalm' <=> GwCalm) /\ gwConfig' = gwConfig /\ GwPastOK'
  BY <1>e, GwThreadFrame
<1>t. GwTyped'
  <2>1. GwFieldsOK' BY <1>0, <1>e, <1>f DEF GwFieldsOK
  <2>2. GwLocksOK' BY <1>0, <1>e, <1>f DEF GwLocksOK
  <2>3. GwQueueOK' BY <1>0, <1>e, <1>f DEF GwQueueOK, GwConn
  <2>4. GwWorldOK' BY <1>0, <1>e, <1>f DEF GwWorldOK, GwConn
  <2>5. GwLocals(0..gwConfig.conns)' BY <1>e, <1>f, <1>s DEF GwLocals
  <2> QED BY <1>0, <1>e, <1>f, <1>i, <2>1, <2>2, <2>3, <2>4, <2>5 DEF GwTyped
<1>1. GwLocked' BY <1>e, <1>f, <1>i DEF GwListsKept, GwLocked, GwThreads
<1>2. GwClosed' BY <1>e, <1>f, <1>i DEF GwListsKept, GwClosed
<1>3. GwNamed' BY <1>e, <1>f, <1>i DEF GwListsKept, GwNamed
<1>r. GwCalm' => GwOneAtATime' /\ GwServesAllowed' /\ GwOneOpen' /\ GwReports'
  <2> SUFFICES ASSUME GwCalm' PROVE GwOneAtATime' /\ GwServesAllowed' /\ GwOneOpen' /\ GwReports' OBVIOUS
  <2>0. GwOneAtATime /\ GwServesAllowed /\ GwOneOpen /\ GwReports BY <1>f, <1>i
  <2>1. GwOneAtATime'
    BY <1>e, <1>f, <2>0 DEF GwListsKept, GwOneAtATime, GwURuns, GwOver, GwServes, GwBusy, GwFree
  <2>2. GwServesAllowed' BY <1>e, <1>f, <2>0 DEF GwListsKept, GwServesAllowed, GwTaken
  <2>3. GwOneOpen' BY <1>e, <1>f, <2>0 DEF GwListsKept, GwOneOpen
  <2>4. GwReports' BY <1>e, <1>f, <2>0 DEF GwListsKept, GwReports, GwServes
  <2> QED BY <2>1, <2>2, <2>3, <2>4
<1> QED BY <1>1, <1>2, <1>3, <1>f, <1>r, <1>t DEF GwInv, GwRegular

\* The uplink thread leaves its loop.
LEMMA GwLeaves ==
  ASSUME GwInv, NEW intExit \in BOOLEAN, Leaves(intExit), GwU = "read",
         UNCHANGED <<gwConfig, gw, gwLock, gwTodo, gwQueue, gwWorld>>,
         gwPast' = gwPast \/ gwPast' = [gwPast EXCEPT !.stale = @ \cup {"write"}]
  PROVE  GwInv'
<1>i. /\ GwTyped /\ GwTodoOK /\ GwLocked /\ GwClosed /\ GwNamed
      /\ (GwCalm => GwOneAtATime /\ GwServesAllowed /\ GwOneOpen /\ GwReports)
  BY DEF GwInv, GwRegular
<1>s. PICK S : S = 0..gwConfig.conns OBVIOUS
<1>0. /\ 0 \in S /\ gwConfig.conns \in Nat /\ GwLocals(S)
      /\ GwFieldsOK /\ GwLocksOK /\ GwQueueOK /\ GwWorldOK /\ GwPastOK
  BY <1>i, <1>s DEF GwTyped
<1>a. gwThread' = [gwThread EXCEPT !["up"].pc = "end", !["up"].intExit = intExit] BY DEF Leaves
<1>b. /\ GwLocals(S)' /\ GwU' = "end" /\ GwUConn' = GwUConn /\ GwUInt' = GwUInt
      /\ UNCHANGED <<GwA, GwAConn, GwD, GwDConn>>
  <2> DEFINE r == [gwThread["up"] EXCEPT !.pc = "end", !.intExit = intExit]
  <2>1. gwThread["up"] \in GwLocal(S) /\ {"accept", "up", "down"} \subseteq GwThreads
    BY <1>0 DEF GwLocals, GwThreads
  <2>2. /\ r \in GwLocal(S) /\ r.pc = "end" /\ r.conn = gwThread["up"].conn
        /\ r.interrupt = gwThread["up"].interrupt
    BY <1>0, <1>s, <2>1 DEF GwLocal, GwLabels, GwFieldsOK
  <2>3. gwThread' = [gwThread EXCEPT !["up"] = r] BY <1>0, <1>a, <2>1 DEF GwLocals
  <2> HIDE DEF r
  <2>4. /\ GwLocals(S)' /\ gwThread'["up"] = r
        /\ \A u \in GwThreads \ {"up"} : gwThread'[u] = gwThread[u]
    BY <1>0, <2>1, <2>2, <2>3, GwOneThread
  <2>5. gwThread'["accept"] = gwThread["accept"] /\ gwThread'["down"] = gwThread["down"] BY <2>1, <2>4
  <2> QED BY <2>2, <2>4, <2>5 DEF GwA, GwAConn, GwU, GwUConn, GwUInt, GwD, GwDConn
<1>e. /\ GwLocals(S)'
      /\ GwU = "read" /\ GwU' = "end" /\ GwUConn' = GwUConn /\ GwUInt' = GwUInt
      /\ UNCHANGED <<GwA, GwAConn, GwD, GwDConn>>
      /\ gw' = gw
      /\ gwWorld' = gwWorld
      /\ gwQueue' = gwQueue
      /\ gwLock' = gwLock
      /\ gwConfig' = gwConfig /\ gwTodo' = gwTodo
  BY <1>b
<1>f. GwListsKept /\ GwTodoOK' /\ (GwCalm' <=> GwCalm) /\ gwConfig' = gwConfig /\ GwPastOK'
  <2>1. GwListsKept /\ (GwTodoOK' <=> GwTodoOK) BY <1>e, GwKept
  <2>2. gwPast'.stale = gwPast.stale \/ gwPast'.stale = gwPast.stale \cup {"write"} BY <1>0 DEF GwPastOK
  <2>3. GwCalm' <=> GwCalm BY <2>2 DEF GwCalm, GwOdd
  <2>4. GwPastOK' BY <1>0, <1>e DEF GwPastOK
  <2> QED BY <1>e, <1>i, <2>1, <2>3, <2>4
<1>t. GwTyped'
  <2>1. GwFieldsOK' BY <1>0, <1>e, <1>f DEF GwFieldsOK
  <2>2. GwLocksOK' BY <1>0, <1>e, <1>f DEF GwLocksOK
  <2>3. GwQueueOK' BY <1>0, <1>e, <1>f DEF GwQueueOK, GwConn
  <2>4. GwWorldOK' BY <1>0, <1>e, <1>f DEF GwWorldOK, GwConn
  <2>5. GwLocals(0..gwConfig.conns)' BY <1>e, <1>f, <1>s DEF GwLocals
  <2> QED BY <1>0, <1>e, <1>f, <1>i, <2>1, <2>2, <2>3, <2>4, <2>5 DEF GwTyped
<1>1. GwLocked' BY <1>e, <1>f, <1>i DEF GwListsKept, GwLocked, GwThreads
<1>2. GwClosed' BY <1>e, <1>f, <1>i DEF GwListsKept, GwClosed
<1>3. GwNamed' BY <1>e, <1>f, <1>i DEF GwListsKept, GwNamed
<1>r. GwCalm' => GwOneAtATime' /\ GwServesAllowed' /\ GwOneOpen' /\ GwReports'
  <2> SUFFICES ASSUME GwCalm' PROVE GwOneAtATime' /\ GwServesAllowed' /\ GwOneOpen' /\ GwReports' OBVIOUS
  <2>0. GwOneAtATime /\ GwServesAllowed /\ GwOneOpen /\ GwReports BY <1>f, <1>i
  <2>1. GwOneAtATime'
    BY <1>e, <1>f, <2>0 DEF GwListsKept, GwOneAtATime, GwURuns, GwOver, GwServes, GwBusy, GwFree
  <2>2. GwServesAllowed' BY <1>e, <1>f, <2>0 DEF GwListsKept, GwServesAllowed, GwTaken
  <2>3. GwOneOpen' BY <1>e, <1>f, <2>0 DEF GwListsKept, GwOneOpen
  <2>4. GwReports' BY <1>e, <1>f, <2>0 DEF GwListsKept, GwReports, GwServes
  <2> QED BY <2>1, <2>2, <2>3, <2>4
<1> QED BY <1>1, <1>2, <1>3, <1>f, <1>r, <1>t DEF GwInv, GwRegular

\* It closes the socket to the server, ...
LEMMA GwUClosesServer ==
  ASSUME GwInv, UplinkClosesServer
  PROVE  GwInv'
<1>i. /\ GwTyped /\ GwTodoOK /\ GwLocked /\ GwClosed /\ GwNamed
      /\ (GwCalm => GwOneAtATime /\ GwServesAllowed /\ GwOneOpen /\ GwReports)
  BY DEF GwInv, GwRegular
<1>s. PICK S : S = 0..gwConfig.conns OBVIOUS
<1>0. /\ 0 \in S /\ gwConfig.conns \in Nat /\ GwLocals(S)
      /\ GwFieldsOK /\ GwLocksOK /\ GwQueueOK /\ GwWorldOK /\ GwPastOK
  BY <1>i, <1>s DEF GwTyped
<1>a. gw' = [gw EXCEPT !.server = "none"] /\ gwThread' = [ServerCut EXCEPT !["up"].pc = "close_rfcomm"]
  BY DEF UplinkClosesServer
<1>b. /\ GwLocals(S)' /\ GwU' = "close_rfcomm"
      /\ UNCHANGED <<GwUConn, GwUInt, GwA, GwAConn, GwD, GwDConn>>
  <2>1. {"accept", "up", "down"} \subseteq GwThreads BY SMTT(60) DEF GwThreads
  <2>2. /\ GwLocals(S)' /\ gwThread'["up"].pc = "close_rfcomm"
        /\ \A u \in GwThreads \ {"up"} : gwThread'[u].pc = gwThread[u].pc
        /\ \A u \in GwThreads : /\ gwThread'[u].conn = gwThread[u].conn
                                /\ gwThread'[u].interrupt = gwThread[u].interrupt
    BY <1>0, <1>a, <2>1, GwCutGoesEffect DEF GwLabels
  <2> QED BY <2>1, <2>2 DEF GwA, GwAConn, GwU, GwUConn, GwUInt, GwD, GwDConn
<1>g. gw'.rfcomm = gw.rfcomm /\ gw'.remote = gw.remote /\ gw'.waiting = gw.waiting /\ gw'.listen = gw.listen
  BY <1>0, <1>a DEF GwFieldsOK
<1>d. ThreadOnly /\ gwLock' = gwLock /\ gwQueue' = gwQueue /\ gwWorld' = gwWorld /\ GwU = "end"
  BY DEF UplinkClosesServer, Pc, GwU
<1>e. /\ ThreadOnly
      /\ GwLocals(S)'
      /\ GwU = "end" /\ GwU' = "close_rfcomm" /\ GwUConn' = GwUConn /\ GwUInt' = GwUInt
      /\ UNCHANGED <<GwA, GwAConn, GwD, GwDConn>>
      /\ gw'.rfcomm = gw.rfcomm
      /\ gw'.remote = gw.remote
      /\ gw'.waiting = gw.waiting
      /\ gw'.listen = gw.listen
      /\ gwWorld' = gwWorld
      /\ gwQueue' = gwQueue
      /\ gwLock' = gwLock
  BY <1>b, <1>d, <1>g
<1>f. GwListsKept /\ GwTodoOK' /\ (GwCalm' <=> GwCalm) /\ gwConfig' = gwConfig /\ GwPastOK'
  BY <1>e, GwThreadFrame
<1>t. GwTyped'
  <2>1. GwFieldsOK' BY <1>0, <1>a, <1>f DEF GwFieldsOK
  <2>2. GwLocksOK' BY <1>0, <1>e, <1>f DEF GwLocksOK
  <2>3. GwQueueOK' BY <1>0, <1>e, <1>f DEF GwQueueOK, GwConn
  <2>4. GwWorldOK' BY <1>0, <1>e, <1>f DEF GwWorldOK, GwConn
  <2>5. GwLocals(0..gwConfig.conns)' BY <1>e, <1>f, <1>s DEF GwLocals
  <2> QED BY <1>0, <1>e, <1>f, <1>i, <2>1, <2>2, <2>3, <2>4, <2>5 DEF GwTyped
<1>1. GwLocked' BY <1>e, <1>f, <1>i DEF GwListsKept, GwLocked, GwThreads
<1>2. GwClosed' BY <1>e, <1>f, <1>i DEF GwListsKept, GwClosed
<1>3. GwNamed' BY <1>e, <1>f, <1>i DEF GwListsKept, GwNamed
<1>r. GwCalm' => GwOneAtATime' /\ GwServesAllowed' /\ GwOneOpen' /\ GwReports'
  <2> SUFFICES ASSUME GwCalm' PROVE GwOneAtATime' /\ GwServesAllowed' /\ GwOneOpen' /\ GwReports' OBVIOUS
  <2>0. GwOneAtATime /\ GwServesAllowed /\ GwOneOpen /\ GwReports BY <1>f, <1>i
  <2>1. GwOneAtATime'
    BY <1>e, <1>f, <2>0 DEF GwListsKept, GwOneAtATime, GwURuns, GwOver, GwServes, GwBusy, GwFree
  <2>2. GwServesAllowed' BY <1>e, <1>f, <2>0 DEF GwListsKept, GwServesAllowed, GwTaken
  <2>3. GwOneOpen' BY <1>e, <1>f, <2>0 DEF GwListsKept, GwOneOpen
  <2>4. GwReports' BY <1>e, <1>f, <2>0 DEF GwListsKept, GwReports, GwServes
  <2> QED BY <2>1, <2>2, <2>3, <2>4
<1> QED BY <1>1, <1>2, <1>3, <1>f, <1>r, <1>t DEF GwInv, GwRegular

\* ... the connection, ...
LEMMA GwUClosesRfcomm ==
  ASSUME GwInv, UplinkClosesRfcomm
  PROVE  GwInv'
<1>i. /\ GwTyped /\ GwTodoOK /\ GwLocked /\ GwClosed /\ GwNamed
      /\ (GwCalm => GwOneAtATime /\ GwServesAllowed /\ GwOneOpen /\ GwReports)
  BY DEF GwInv, GwRegular
<1>s. PICK S : S = 0..gwConfig.conns OBVIOUS
<1>0. /\ 0 \in S /\ gwConfig.conns \in Nat /\ GwLocals(S)
      /\ GwFieldsOK /\ GwLocksOK /\ GwQueueOK /\ GwWorldOK /\ GwPastOK
  BY <1>i, <1>s DEF GwTyped
<1> DEFINE label == IF Dun THEN "tell" ELSE "stop_down"
<1>a. gw' = [gw EXCEPT !.rfcomm = 0] /\ gwWorld' = RfcommClosed /\ Goes("up", label) BY DEF UplinkClosesRfcomm
<1>l. label \in GwLabels \ {"done"} BY DEF GwLabels
<1> HIDE DEF label
<1>b. /\ GwLocals(S)' /\ GwU' = label /\ GwUConn' = GwUConn /\ GwUInt' = GwUInt
      /\ UNCHANGED <<GwA, GwAConn, GwD, GwDConn>>
  BY <1>0, <1>a, <1>l, GwUGoes
<1>g. /\ gw'.rfcomm = 0 /\ gw'.remote = gw.remote /\ gw'.waiting = gw.waiting /\ gw'.listen = gw.listen
      /\ gwWorld'.adapter = gwWorld.adapter /\ gwWorld'.open = gwWorld.open \ {gw.rfcomm}
      /\ gwWorld'.allowed = gwWorld.allowed /\ gwWorld'.told = gwWorld.told
  BY <1>0, <1>a DEF GwFieldsOK, GwWorldOK, RfcommClosed
<1>d. ThreadOnly /\ gwLock' = gwLock /\ gwQueue' = gwQueue /\ GwU = "close_rfcomm"
  BY DEF UplinkClosesRfcomm, Pc, GwU
<1>e. /\ ThreadOnly
      /\ GwLocals(S)'
      /\ GwU = "close_rfcomm" /\ GwU' = (IF Dun THEN "tell" ELSE "stop_down") /\ GwUConn' = GwUConn
      /\ GwUInt' = GwUInt
      /\ UNCHANGED <<GwA, GwAConn, GwD, GwDConn>>
      /\ gw'.rfcomm = 0
      /\ gw'.remote = gw.remote
      /\ gw'.waiting = gw.waiting
      /\ gw'.listen = gw.listen
      /\ gwWorld'.adapter = gwWorld.adapter
      /\ gwWorld'.open = gwWorld.open \ {gw.rfcomm}
      /\ gwWorld'.allowed = gwWorld.allowed
      /\ gwWorld'.told = gwWorld.told
      /\ gwQueue' = gwQueue
      /\ gwLock' = gwLock
  BY <1>b, <1>d, <1>g DEF label
<1>f. GwListsKept /\ GwTodoOK' /\ (GwCalm' <=> GwCalm) /\ gwConfig' = gwConfig /\ GwPastOK'
  BY <1>e, GwThreadFrame
<1>t. GwTyped'
  <2>1. GwFieldsOK' BY <1>0, <1>a, <1>f, <1>s DEF GwFieldsOK
  <2>2. GwLocksOK' BY <1>0, <1>e, <1>f DEF GwLocksOK
  <2>3. GwQueueOK' BY <1>0, <1>e, <1>f DEF GwQueueOK, GwConn
  <2>4. GwWorldOK' BY <1>0, <1>a, <1>f DEF GwWorldOK, GwConn, RfcommClosed
  <2>5. GwLocals(0..gwConfig.conns)' BY <1>e, <1>f, <1>s DEF GwLocals
  <2> QED BY <1>0, <1>e, <1>f, <1>i, <2>1, <2>2, <2>3, <2>4, <2>5 DEF GwTyped
<1>1. GwLocked' BY <1>e, <1>f, <1>i DEF GwListsKept, GwLocked, GwThreads
<1>2. GwClosed' BY <1>e, <1>f, <1>i DEF GwListsKept, GwClosed
<1>3. GwNamed' BY <1>e, <1>f, <1>i DEF GwListsKept, GwNamed
<1>r. GwCalm' => GwOneAtATime' /\ GwServesAllowed' /\ GwOneOpen' /\ GwReports'
  <2> SUFFICES ASSUME GwCalm' PROVE GwOneAtATime' /\ GwServesAllowed' /\ GwOneOpen' /\ GwReports' OBVIOUS
  <2>0. GwOneAtATime /\ GwServesAllowed /\ GwOneOpen /\ GwReports BY <1>f, <1>i
  <2>1. GwOneAtATime'
    BY <1>e, <1>f, <2>0 DEF GwListsKept, GwOneAtATime, GwURuns, GwOver, GwServes, GwBusy, GwFree
  <2>2. GwServesAllowed'
    BY <1>e, <1>f, <2>0
       DEF GwListsKept, GwServesAllowed, GwTaken, GwOneAtATime, GwURuns, GwOver, GwServes, GwBusy, GwFree
  <2>3. GwOneOpen'
    BY <1>e, <1>f, <2>0 DEF GwListsKept, GwOneOpen, GwOneAtATime, GwURuns, GwOver, GwServes, GwBusy, GwFree
  <2>4. GwReports' BY <1>e, <1>f, <2>0 DEF GwListsKept, GwReports, GwServes
  <2> QED BY <2>1, <2>2, <2>3, <2>4
<1> QED BY <1>1, <1>2, <1>3, <1>f, <1>r, <1>t DEF GwInv, GwRegular

\* ... reports the disconnection, ...
LEMMA GwUTells ==
  ASSUME GwInv, UplinkTells
  PROVE  GwInv'
<1>i. /\ GwTyped /\ GwTodoOK /\ GwLocked /\ GwClosed /\ GwNamed
      /\ (GwCalm => GwOneAtATime /\ GwServesAllowed /\ GwOneOpen /\ GwReports)
  BY DEF GwInv, GwRegular
<1>s. PICK S : S = 0..gwConfig.conns OBVIOUS
<1>0. /\ 0 \in S /\ gwConfig.conns \in Nat /\ GwLocals(S)
      /\ GwFieldsOK /\ GwLocksOK /\ GwQueueOK /\ GwWorldOK /\ GwPastOK
  BY <1>i, <1>s DEF GwTyped
<1> DEFINE label == IF Dun THEN "stop_down" ELSE "post"
<1>a. gwWorld' = [gwWorld EXCEPT !.told = gwWorld.told \ {gw.remote}] /\ Goes("up", label)
  BY DEF UplinkTells, Told
<1>l. label \in GwLabels \ {"done"} BY DEF GwLabels
<1> HIDE DEF label
<1>b. /\ GwLocals(S)' /\ GwU' = label /\ GwUConn' = GwUConn /\ GwUInt' = GwUInt
      /\ UNCHANGED <<GwA, GwAConn, GwD, GwDConn>>
  BY <1>0, <1>a, <1>l, GwUGoes
<1>g. /\ gwWorld'.adapter = gwWorld.adapter /\ gwWorld'.open = gwWorld.open
      /\ gwWorld'.allowed = gwWorld.allowed /\ gwWorld'.told = gwWorld.told \ {gw.remote}
  BY <1>0, <1>a DEF GwWorldOK
<1>d. ThreadOnly /\ gw' = gw /\ gwLock' = gwLock /\ gwQueue' = gwQueue /\ GwU = "tell"
  BY DEF UplinkTells, Pc, GwU
<1>e. /\ ThreadOnly
      /\ GwLocals(S)'
      /\ GwU = "tell" /\ GwU' = (IF Dun THEN "stop_down" ELSE "post") /\ GwUConn' = GwUConn
      /\ GwUInt' = GwUInt
      /\ UNCHANGED <<GwA, GwAConn, GwD, GwDConn>>
      /\ gw' = gw
      /\ gwWorld'.adapter = gwWorld.adapter
      /\ gwWorld'.open = gwWorld.open
      /\ gwWorld'.allowed = gwWorld.allowed
      /\ gwWorld'.told = gwWorld.told \ {gw.remote}
      /\ gwQueue' = gwQueue
      /\ gwLock' = gwLock
  BY <1>b, <1>d, <1>g DEF label
<1>f. GwListsKept /\ GwTodoOK' /\ (GwCalm' <=> GwCalm) /\ gwConfig' = gwConfig /\ GwPastOK'
  BY <1>e, GwThreadFrame
<1>t. GwTyped'
  <2>1. GwFieldsOK' BY <1>0, <1>e, <1>f DEF GwFieldsOK
  <2>2. GwLocksOK' BY <1>0, <1>e, <1>f DEF GwLocksOK
  <2>3. GwQueueOK' BY <1>0, <1>e, <1>f DEF GwQueueOK, GwConn
  <2>4. GwWorldOK' BY <1>0, <1>a, <1>f DEF GwWorldOK, GwConn
  <2>5. GwLocals(0..gwConfig.conns)' BY <1>e, <1>f, <1>s DEF GwLocals
  <2> QED BY <1>0, <1>e, <1>f, <1>i, <2>1, <2>2, <2>3, <2>4, <2>5 DEF GwTyped
<1>1. GwLocked' BY <1>e, <1>f, <1>i DEF GwListsKept, GwLocked, GwThreads
<1>2. GwClosed' BY <1>e, <1>f, <1>i DEF GwListsKept, GwClosed
<1>3. GwNamed' BY <1>e, <1>f, <1>i DEF GwListsKept, GwNamed
<1>r. GwCalm' => GwOneAtATime' /\ GwServesAllowed' /\ GwOneOpen' /\ GwReports'
  <2> SUFFICES ASSUME GwCalm' PROVE GwOneAtATime' /\ GwServesAllowed' /\ GwOneOpen' /\ GwReports' OBVIOUS
  <2>0. GwOneAtATime /\ GwServesAllowed /\ GwOneOpen /\ GwReports BY <1>f, <1>i
  <2>1. GwOneAtATime'
    BY <1>e, <1>f, <2>0 DEF GwListsKept, GwOneAtATime, GwURuns, GwOver, GwServes, GwBusy, GwFree
  <2>2. GwServesAllowed' BY <1>e, <1>f, <2>0 DEF GwListsKept, GwServesAllowed, GwTaken
  <2>3. GwOneOpen' BY <1>e, <1>f, <2>0 DEF GwListsKept, GwOneOpen
  <2>4. GwReports' BY <1>e, <1>f, <2>0 DEF GwListsKept, GwReports, GwServes
  <2> QED BY <2>1, <2>2, <2>3, <2>4
<1> QED BY <1>1, <1>2, <1>3, <1>f, <1>r, <1>t DEF GwInv, GwRegular

\* ... and shuts the downlink thread down: it tells it to stop ...
LEMMA GwUStopsDown ==
  ASSUME GwInv, ThreadOnly, UNCHANGED <<gw, gwQueue, gwWorld>>, GwU = "stop_down",
         UplinkStops("down", "join_down")
  PROVE  GwInv'
<1>i. /\ GwTyped /\ GwTodoOK /\ GwLocked /\ GwClosed /\ GwNamed
      /\ (GwCalm => GwOneAtATime /\ GwServesAllowed /\ GwOneOpen /\ GwReports)
  BY DEF GwInv, GwRegular
<1>s. PICK S : S = 0..gwConfig.conns OBVIOUS
<1>0. /\ 0 \in S /\ gwConfig.conns \in Nat /\ GwLocals(S)
      /\ GwFieldsOK /\ GwLocksOK /\ GwQueueOK /\ GwWorldOK /\ GwPastOK
  BY <1>i, <1>s DEF GwTyped
<1>a. gwLock["down"] = "free" /\ gwLock' = [gwLock EXCEPT !["down"] = "up"] BY DEF UplinkStops
<1>b. /\ GwLocals(S)' /\ GwU' = "join_down" /\ GwUConn' = GwUConn /\ GwUInt' = GwUInt
      /\ UNCHANGED <<GwA, GwAConn, GwD, GwDConn>>
  <2>1. {"accept", "up", "down", "mon"} \subseteq GwThreads /\ gwThread["up"] \in GwLocal(S)
    BY <1>0 DEF GwLocals, GwThreads
  <2>2. /\ GwLocals(S)'
        /\ gwThread'["up"] = [gwThread["up"] EXCEPT !.pc = "join_down"]
        /\ gwThread'["down"].pc = gwThread["down"].pc /\ gwThread'["down"].conn = gwThread["down"].conn
        /\ \A u \in GwThreads \ {"down", "up"} : gwThread'[u] = gwThread[u]
    BY <1>0, GwStopsEffect DEF GwLabels
  <2>3. gwThread'["accept"] = gwThread["accept"] BY <2>1, <2>2
  <2>4. gwThread'["down"].pc = gwThread["down"].pc /\ gwThread'["down"].conn = gwThread["down"].conn
    BY <2>1, <2>2
  <2>5. /\ gwThread'["up"].pc = "join_down" /\ gwThread'["up"].conn = gwThread["up"].conn
        /\ gwThread'["up"].interrupt = gwThread["up"].interrupt
    BY <2>1, <2>2 DEF GwLocal
  <2> QED BY <2>2, <2>3, <2>4, <2>5 DEF GwA, GwAConn, GwU, GwUConn, GwUInt, GwD, GwDConn
<1>e. /\ ThreadOnly
      /\ GwLocals(S)'
      /\ GwU = "stop_down" /\ GwU' = "join_down" /\ GwUConn' = GwUConn /\ GwUInt' = GwUInt
      /\ UNCHANGED <<GwA, GwAConn, GwD, GwDConn>>
      /\ gw' = gw
      /\ gwWorld' = gwWorld
      /\ gwQueue' = gwQueue
      /\ gwLock["down"] = "free" /\ gwLock' = [gwLock EXCEPT !["down"] = "up"]
  BY <1>a, <1>b
<1>f. GwListsKept /\ GwTodoOK' /\ (GwCalm' <=> GwCalm) /\ gwConfig' = gwConfig /\ GwPastOK'
  BY <1>e, GwThreadFrame
<1>t. GwTyped'
  <2>1. GwFieldsOK' BY <1>0, <1>e, <1>f DEF GwFieldsOK
  <2>2. GwLocksOK' BY <1>0, <1>e, <1>f DEF GwLocksOK
  <2>3. GwQueueOK' BY <1>0, <1>e, <1>f DEF GwQueueOK, GwConn
  <2>4. GwWorldOK' BY <1>0, <1>e, <1>f DEF GwWorldOK, GwConn
  <2>5. GwLocals(0..gwConfig.conns)' BY <1>e, <1>f, <1>s DEF GwLocals
  <2> QED BY <1>0, <1>e, <1>f, <1>i, <2>1, <2>2, <2>3, <2>4, <2>5 DEF GwTyped
<1>1. GwLocked' BY <1>e, <1>f, <1>i, <1>0 DEF GwListsKept, GwLocked, GwThreads, GwLocksOK
<1>2. GwClosed' BY <1>e, <1>f, <1>i DEF GwListsKept, GwClosed
<1>3. GwNamed' BY <1>e, <1>f, <1>i DEF GwListsKept, GwNamed
<1>r. GwCalm' => GwOneAtATime' /\ GwServesAllowed' /\ GwOneOpen' /\ GwReports'
  <2> SUFFICES ASSUME GwCalm' PROVE GwOneAtATime' /\ GwServesAllowed' /\ GwOneOpen' /\ GwReports' OBVIOUS
  <2>0. GwOneAtATime /\ GwServesAllowed /\ GwOneOpen /\ GwReports BY <1>f, <1>i
  <2>1. GwOneAtATime'
    BY <1>e, <1>f, <2>0 DEF GwListsKept, GwOneAtATime, GwURuns, GwOver, GwServes, GwBusy, GwFree
  <2>2. GwServesAllowed' BY <1>e, <1>f, <2>0 DEF GwListsKept, GwServesAllowed, GwTaken
  <2>3. GwOneOpen' BY <1>e, <1>f, <2>0 DEF GwListsKept, GwOneOpen
  <2>4. GwReports' BY <1>e, <1>f, <2>0 DEF GwListsKept, GwReports, GwServes
  <2> QED BY <2>1, <2>2, <2>3, <2>4
<1> QED BY <1>1, <1>2, <1>3, <1>f, <1>r, <1>t DEF GwInv, GwRegular

\* ... and shuts the monitor thread down: it tells it to stop ...
LEMMA GwUStopsMon ==
  ASSUME GwInv, ThreadOnly, UNCHANGED <<gw, gwQueue, gwWorld>>, GwU = "stop_mon",
         UplinkStops("mon", "join_mon")
  PROVE  GwInv'
<1>i. /\ GwTyped /\ GwTodoOK /\ GwLocked /\ GwClosed /\ GwNamed
      /\ (GwCalm => GwOneAtATime /\ GwServesAllowed /\ GwOneOpen /\ GwReports)
  BY DEF GwInv, GwRegular
<1>s. PICK S : S = 0..gwConfig.conns OBVIOUS
<1>0. /\ 0 \in S /\ gwConfig.conns \in Nat /\ GwLocals(S)
      /\ GwFieldsOK /\ GwLocksOK /\ GwQueueOK /\ GwWorldOK /\ GwPastOK
  BY <1>i, <1>s DEF GwTyped
<1>a. gwLock["mon"] = "free" /\ gwLock' = [gwLock EXCEPT !["mon"] = "up"] BY DEF UplinkStops
<1>b. /\ GwLocals(S)' /\ GwU' = "join_mon" /\ GwUConn' = GwUConn /\ GwUInt' = GwUInt
      /\ UNCHANGED <<GwA, GwAConn, GwD, GwDConn>>
  <2>1. {"accept", "up", "down", "mon"} \subseteq GwThreads /\ gwThread["up"] \in GwLocal(S)
    BY <1>0 DEF GwLocals, GwThreads
  <2>2. /\ GwLocals(S)'
        /\ gwThread'["up"] = [gwThread["up"] EXCEPT !.pc = "join_mon"]
        /\ gwThread'["mon"].pc = gwThread["mon"].pc /\ gwThread'["mon"].conn = gwThread["mon"].conn
        /\ \A u \in GwThreads \ {"mon", "up"} : gwThread'[u] = gwThread[u]
    BY <1>0, GwStopsEffect DEF GwLabels
  <2>3. gwThread'["accept"] = gwThread["accept"] BY <2>1, <2>2
  <2>4. gwThread'["down"].pc = gwThread["down"].pc /\ gwThread'["down"].conn = gwThread["down"].conn
    BY <2>1, <2>2
  <2>5. /\ gwThread'["up"].pc = "join_mon" /\ gwThread'["up"].conn = gwThread["up"].conn
        /\ gwThread'["up"].interrupt = gwThread["up"].interrupt
    BY <2>1, <2>2 DEF GwLocal
  <2> QED BY <2>2, <2>3, <2>4, <2>5 DEF GwA, GwAConn, GwU, GwUConn, GwUInt, GwD, GwDConn
<1>e. /\ ThreadOnly
      /\ GwLocals(S)'
      /\ GwU = "stop_mon" /\ GwU' = "join_mon" /\ GwUConn' = GwUConn /\ GwUInt' = GwUInt
      /\ UNCHANGED <<GwA, GwAConn, GwD, GwDConn>>
      /\ gw' = gw
      /\ gwWorld' = gwWorld
      /\ gwQueue' = gwQueue
      /\ gwLock["mon"] = "free" /\ gwLock' = [gwLock EXCEPT !["mon"] = "up"]
  BY <1>a, <1>b
<1>f. GwListsKept /\ GwTodoOK' /\ (GwCalm' <=> GwCalm) /\ gwConfig' = gwConfig /\ GwPastOK'
  BY <1>e, GwThreadFrame
<1>t. GwTyped'
  <2>1. GwFieldsOK' BY <1>0, <1>e, <1>f DEF GwFieldsOK
  <2>2. GwLocksOK' BY <1>0, <1>e, <1>f DEF GwLocksOK
  <2>3. GwQueueOK' BY <1>0, <1>e, <1>f DEF GwQueueOK, GwConn
  <2>4. GwWorldOK' BY <1>0, <1>e, <1>f DEF GwWorldOK, GwConn
  <2>5. GwLocals(0..gwConfig.conns)' BY <1>e, <1>f, <1>s DEF GwLocals
  <2> QED BY <1>0, <1>e, <1>f, <1>i, <2>1, <2>2, <2>3, <2>4, <2>5 DEF GwTyped
<1>1. GwLocked' BY <1>e, <1>f, <1>i, <1>0 DEF GwListsKept, GwLocked, GwThreads, GwLocksOK
<1>2. GwClosed' BY <1>e, <1>f, <1>i DEF GwListsKept, GwClosed
<1>3. GwNamed' BY <1>e, <1>f, <1>i DEF GwListsKept, GwNamed
<1>r. GwCalm' => GwOneAtATime' /\ GwServesAllowed' /\ GwOneOpen' /\ GwReports'
  <2> SUFFICES ASSUME GwCalm' PROVE GwOneAtATime' /\ GwServesAllowed' /\ GwOneOpen' /\ GwReports' OBVIOUS
  <2>0. GwOneAtATime /\ GwServesAllowed /\ GwOneOpen /\ GwReports BY <1>f, <1>i
  <2>1. GwOneAtATime'
    BY <1>e, <1>f, <2>0 DEF GwListsKept, GwOneAtATime, GwURuns, GwOver, GwServes, GwBusy, GwFree
  <2>2. GwServesAllowed' BY <1>e, <1>f, <2>0 DEF GwListsKept, GwServesAllowed, GwTaken
  <2>3. GwOneOpen' BY <1>e, <1>f, <2>0 DEF GwListsKept, GwOneOpen
  <2>4. GwReports' BY <1>e, <1>f, <2>0 DEF GwListsKept, GwReports, GwServes
  <2> QED BY <2>1, <2>2, <2>3, <2>4
<1> QED BY <1>1, <1>2, <1>3, <1>f, <1>r, <1>t DEF GwInv, GwRegular

\* ... and waits for it.
LEMMA GwUJoinsDown ==
  ASSUME GwInv, ThreadOnly, UNCHANGED <<gw, gwQueue, gwWorld>>, GwU = "join_down",
         UplinkJoins("down", IF Dun THEN "stop_mon" ELSE "tell")
  PROVE  GwInv'
<1>i. /\ GwTyped /\ GwTodoOK /\ GwLocked /\ GwClosed /\ GwNamed
      /\ (GwCalm => GwOneAtATime /\ GwServesAllowed /\ GwOneOpen /\ GwReports)
  BY DEF GwInv, GwRegular
<1>s. PICK S : S = 0..gwConfig.conns OBVIOUS
<1>0. /\ 0 \in S /\ gwConfig.conns \in Nat /\ GwLocals(S)
      /\ GwFieldsOK /\ GwLocksOK /\ GwQueueOK /\ GwWorldOK /\ GwPastOK
  BY <1>i, <1>s DEF GwTyped
<1> DEFINE label == IF Dun THEN "stop_mon" ELSE "tell"
<1>l. label \in GwLabels BY DEF GwLabels
<1>a. gwLock' = [gwLock EXCEPT !["down"] = "free"] /\ UplinkJoins("down", label) BY DEF UplinkJoins
<1> HIDE DEF label
<1>b. /\ GwLocals(S)' /\ GwU' = label /\ GwUConn' = GwUConn /\ (~GwUInt => ~GwUInt')
      /\ (~GwUInt => GwD' = "none") /\ (GwD' = "none" \/ UNCHANGED <<GwD, GwDConn>>) /\ UNCHANGED <<GwA, GwAConn>>
  <2>1. {"accept", "up", "down", "mon"} \subseteq GwThreads BY DEF GwThreads
  <2>2. /\ GwLocals(S)'
        /\ gwThread'["up"].pc = label /\ gwThread'["up"].conn = gwThread["up"].conn
        /\ ~Up.interrupt => gwThread'["down"].pc = "none" /\ ~gwThread'["up"].interrupt
        /\ gwThread'["down"].pc = "none" \/ gwThread'["down"] = gwThread["down"]
        /\ \A u \in GwThreads \ {"down", "up"} : gwThread'[u] = gwThread[u]
    BY <1>0, <1>a, <1>l, GwJoinsEffect
  <2>3. gwThread'["accept"] = gwThread["accept"] BY <2>1, <2>2
  <2>4. /\ ~gwThread["up"].interrupt => gwThread'["down"].pc = "none"
        /\ gwThread'["down"].pc = "none" \/ gwThread'["down"] = gwThread["down"]
    BY <2>1, <2>2 DEF Up
  <2> QED BY <2>2, <2>3, <2>4 DEF GwA, GwAConn, GwU, GwUConn, GwUInt, GwD, GwDConn, Up
<1>e. /\ ThreadOnly
      /\ GwLocals(S)'
      /\ GwU = "join_down" /\ GwU' = (IF Dun THEN "stop_mon" ELSE "tell") /\ GwUConn' = GwUConn
      /\ (~GwUInt => ~GwUInt')
      /\ (~GwUInt => GwD' = "none") /\ (GwD' = "none" \/ UNCHANGED <<GwD, GwDConn>>)
      /\ UNCHANGED <<GwA, GwAConn>>
      /\ gw' = gw
      /\ gwWorld' = gwWorld
      /\ gwQueue' = gwQueue
      /\ gwLock' = [gwLock EXCEPT !["down"] = "free"]
  BY <1>a, <1>b DEF label
<1>f. GwListsKept /\ GwTodoOK' /\ (GwCalm' <=> GwCalm) /\ gwConfig' = gwConfig /\ GwPastOK'
  BY <1>e, GwThreadFrame
<1>t. GwTyped'
  <2>1. GwFieldsOK' BY <1>0, <1>e, <1>f DEF GwFieldsOK
  <2>2. GwLocksOK' BY <1>0, <1>e, <1>f DEF GwLocksOK
  <2>3. GwQueueOK' BY <1>0, <1>e, <1>f DEF GwQueueOK, GwConn
  <2>4. GwWorldOK' BY <1>0, <1>e, <1>f DEF GwWorldOK, GwConn
  <2>5. GwLocals(0..gwConfig.conns)' BY <1>e, <1>f, <1>s DEF GwLocals
  <2> QED BY <1>0, <1>e, <1>f, <1>i, <2>1, <2>2, <2>3, <2>4, <2>5 DEF GwTyped
<1>1. GwLocked' BY <1>e, <1>f, <1>i, <1>0 DEF GwListsKept, GwLocked, GwThreads, GwLocksOK
<1>2. GwClosed' BY <1>e, <1>f, <1>i DEF GwListsKept, GwClosed
<1>3. GwNamed' BY <1>e, <1>f, <1>i DEF GwListsKept, GwNamed
<1>r. GwCalm' => GwOneAtATime' /\ GwServesAllowed' /\ GwOneOpen' /\ GwReports'
  <2> SUFFICES ASSUME GwCalm' PROVE GwOneAtATime' /\ GwServesAllowed' /\ GwOneOpen' /\ GwReports' OBVIOUS
  <2>0. GwOneAtATime /\ GwServesAllowed /\ GwOneOpen /\ GwReports BY <1>f, <1>i
  <2>1. GwOneAtATime'
    BY <1>e, <1>f, <2>0 DEF GwListsKept, GwOneAtATime, GwURuns, GwOver, GwServes, GwBusy, GwFree
  <2>2. GwServesAllowed' BY <1>e, <1>f, <2>0 DEF GwListsKept, GwServesAllowed, GwTaken
  <2>3. GwOneOpen' BY <1>e, <1>f, <2>0 DEF GwListsKept, GwOneOpen
  <2>4. GwReports' BY <1>e, <1>f, <2>0 DEF GwListsKept, GwReports, GwServes
  <2> QED BY <2>1, <2>2, <2>3, <2>4
<1> QED BY <1>1, <1>2, <1>3, <1>f, <1>r, <1>t DEF GwInv, GwRegular

\* ... and waits for it.
LEMMA GwUJoinsMon ==
  ASSUME GwInv, ThreadOnly, UNCHANGED <<gw, gwQueue, gwWorld>>, GwU = "join_mon", UplinkJoins("mon", "post")
  PROVE  GwInv'
<1>i. /\ GwTyped /\ GwTodoOK /\ GwLocked /\ GwClosed /\ GwNamed
      /\ (GwCalm => GwOneAtATime /\ GwServesAllowed /\ GwOneOpen /\ GwReports)
  BY DEF GwInv, GwRegular
<1>s. PICK S : S = 0..gwConfig.conns OBVIOUS
<1>0. /\ 0 \in S /\ gwConfig.conns \in Nat /\ GwLocals(S)
      /\ GwFieldsOK /\ GwLocksOK /\ GwQueueOK /\ GwWorldOK /\ GwPastOK
  BY <1>i, <1>s DEF GwTyped
<1> DEFINE label == "post"
<1>l. label \in GwLabels BY DEF GwLabels
<1>a. gwLock' = [gwLock EXCEPT !["mon"] = "free"] /\ UplinkJoins("mon", label) BY DEF UplinkJoins
<1> HIDE DEF label
<1>b. /\ GwLocals(S)' /\ GwU' = label /\ GwUConn' = GwUConn /\ (~GwUInt => ~GwUInt')
      /\ UNCHANGED <<GwD, GwDConn>> /\ UNCHANGED <<GwA, GwAConn>>
  <2>1. {"accept", "up", "down", "mon"} \subseteq GwThreads BY DEF GwThreads
  <2>2. /\ GwLocals(S)'
        /\ gwThread'["up"].pc = label /\ gwThread'["up"].conn = gwThread["up"].conn
        /\ ~Up.interrupt => gwThread'["mon"].pc = "none" /\ ~gwThread'["up"].interrupt
        /\ gwThread'["mon"].pc = "none" \/ gwThread'["mon"] = gwThread["mon"]
        /\ \A u \in GwThreads \ {"mon", "up"} : gwThread'[u] = gwThread[u]
    BY <1>0, <1>a, <1>l, GwJoinsEffect
  <2>3. gwThread'["accept"] = gwThread["accept"] BY <2>1, <2>2
  <2>4. gwThread'["down"] = gwThread["down"] BY <2>1, <2>2 DEF Up
  <2> QED BY <2>2, <2>3, <2>4 DEF GwA, GwAConn, GwU, GwUConn, GwUInt, GwD, GwDConn, Up
<1>e. /\ ThreadOnly
      /\ GwLocals(S)'
      /\ GwU = "join_mon" /\ GwU' = ("post") /\ GwUConn' = GwUConn /\ (~GwUInt => ~GwUInt')
      /\ UNCHANGED <<GwD, GwDConn>>
      /\ UNCHANGED <<GwA, GwAConn>>
      /\ gw' = gw
      /\ gwWorld' = gwWorld
      /\ gwQueue' = gwQueue
      /\ gwLock' = [gwLock EXCEPT !["mon"] = "free"]
  BY <1>a, <1>b DEF label
<1>f. GwListsKept /\ GwTodoOK' /\ (GwCalm' <=> GwCalm) /\ gwConfig' = gwConfig /\ GwPastOK'
  BY <1>e, GwThreadFrame
<1>t. GwTyped'
  <2>1. GwFieldsOK' BY <1>0, <1>e, <1>f DEF GwFieldsOK
  <2>2. GwLocksOK' BY <1>0, <1>e, <1>f DEF GwLocksOK
  <2>3. GwQueueOK' BY <1>0, <1>e, <1>f DEF GwQueueOK, GwConn
  <2>4. GwWorldOK' BY <1>0, <1>e, <1>f DEF GwWorldOK, GwConn
  <2>5. GwLocals(0..gwConfig.conns)' BY <1>e, <1>f, <1>s DEF GwLocals
  <2> QED BY <1>0, <1>e, <1>f, <1>i, <2>1, <2>2, <2>3, <2>4, <2>5 DEF GwTyped
<1>1. GwLocked' BY <1>e, <1>f, <1>i, <1>0 DEF GwListsKept, GwLocked, GwThreads, GwLocksOK
<1>2. GwClosed' BY <1>e, <1>f, <1>i DEF GwListsKept, GwClosed
<1>3. GwNamed' BY <1>e, <1>f, <1>i DEF GwListsKept, GwNamed
<1>r. GwCalm' => GwOneAtATime' /\ GwServesAllowed' /\ GwOneOpen' /\ GwReports'
  <2> SUFFICES ASSUME GwCalm' PROVE GwOneAtATime' /\ GwServesAllowed' /\ GwOneOpen' /\ GwReports' OBVIOUS
  <2>0. GwOneAtATime /\ GwServesAllowed /\ GwOneOpen /\ GwReports BY <1>f, <1>i
  <2>1. GwOneAtATime'
    BY <1>e, <1>f, <2>0 DEF GwListsKept, GwOneAtATime, GwURuns, GwOver, GwServes, GwBusy, GwFree
  <2>2. GwServesAllowed' BY <1>e, <1>f, <2>0 DEF GwListsKept, GwServesAllowed, GwTaken
  <2>3. GwOneOpen' BY <1>e, <1>f, <2>0 DEF GwListsKept, GwOneOpen
  <2>4. GwReports' BY <1>e, <1>f, <2>0 DEF GwListsKept, GwReports, GwServes
  <2> QED BY <2>1, <2>2, <2>3, <2>4
<1> QED BY <1>1, <1>2, <1>3, <1>f, <1>r, <1>t DEF GwInv, GwRegular

\* The uplink thread ends, perhaps with MESSAGE_START_LISTENER.
LEMMA GwUPosts ==
  ASSUME GwInv, UplinkPosts
  PROVE  GwInv'
<1>i. /\ GwTyped /\ GwTodoOK /\ GwLocked /\ GwClosed /\ GwNamed
      /\ (GwCalm => GwOneAtATime /\ GwServesAllowed /\ GwOneOpen /\ GwReports)
  BY DEF GwInv, GwRegular
<1>s. PICK S : S = 0..gwConfig.conns OBVIOUS
<1>0. /\ 0 \in S /\ gwConfig.conns \in Nat /\ GwLocals(S)
      /\ GwFieldsOK /\ GwLocksOK /\ GwQueueOK /\ GwWorldOK /\ GwPastOK
  BY <1>i, <1>s DEF GwTyped
<1>a. Goes("up", "done") /\ gwQueue' = [gwQueue EXCEPT !.start = @ \/ (Up.intExit /\ ~Up.stopped)]
  BY DEF UplinkPosts
<1>b. GwLocals(S)' /\ GwU' = "done" /\ UNCHANGED <<GwA, GwAConn, GwD, GwDConn>>
  BY <1>0, <1>a, GwUGoes DEF GwLabels
<1>q. gwQueue'.start \in BOOLEAN /\ GwQueueOK'
  <2>1. gwConfig' = gwConfig BY DEF UplinkPosts, ThreadOnly
  <2> DEFINE b == gwQueue.start \/ (Up.intExit /\ ~Up.stopped)
  <2>2. b \in BOOLEAN OBVIOUS
  <2>3. gwQueue' = [gwQueue EXCEPT !.start = b] BY <1>a
  <2> HIDE DEF b
  <2> QED BY <1>0, <2>1, <2>2, <2>3 DEF GwQueueOK, GwConn
<1>d. ThreadOnly /\ gw' = gw /\ gwLock' = gwLock /\ gwWorld' = gwWorld /\ GwU = "post"
  BY DEF UplinkPosts, Pc, GwU
<1>e. /\ ThreadOnly
      /\ GwLocals(S)'
      /\ GwU = "post" /\ GwU' = "done"
      /\ UNCHANGED <<GwA, GwAConn, GwD, GwDConn>>
      /\ gw' = gw
      /\ gwWorld' = gwWorld
      /\ gwQueue'.start \in BOOLEAN
      /\ gwLock' = gwLock
  BY <1>b, <1>d, <1>q
<1>f. GwListsKept /\ GwTodoOK' /\ (GwCalm' <=> GwCalm) /\ gwConfig' = gwConfig /\ GwPastOK'
  BY <1>e, GwThreadFrame
<1>t. GwTyped'
  <2>1. GwFieldsOK' BY <1>0, <1>e, <1>f DEF GwFieldsOK
  <2>2. GwLocksOK' BY <1>0, <1>e, <1>f DEF GwLocksOK
  <2>3. GwQueueOK' BY <1>q
  <2>4. GwWorldOK' BY <1>0, <1>e, <1>f DEF GwWorldOK, GwConn
  <2>5. GwLocals(0..gwConfig.conns)' BY <1>e, <1>f, <1>s DEF GwLocals
  <2> QED BY <1>0, <1>e, <1>f, <1>i, <2>1, <2>2, <2>3, <2>4, <2>5 DEF GwTyped
<1>1. GwLocked' BY <1>e, <1>f, <1>i DEF GwListsKept, GwLocked, GwThreads
<1>2. GwClosed' BY <1>e, <1>f, <1>i DEF GwListsKept, GwClosed
<1>3. GwNamed' BY <1>e, <1>f, <1>i DEF GwListsKept, GwNamed
<1>r. GwCalm' => GwOneAtATime' /\ GwServesAllowed' /\ GwOneOpen' /\ GwReports'
  <2> SUFFICES ASSUME GwCalm' PROVE GwOneAtATime' /\ GwServesAllowed' /\ GwOneOpen' /\ GwReports' OBVIOUS
  <2>0. GwOneAtATime /\ GwServesAllowed /\ GwOneOpen /\ GwReports BY <1>f, <1>i
  <2>1. GwOneAtATime'
    BY <1>e, <1>f, <2>0 DEF GwListsKept, GwOneAtATime, GwURuns, GwOver, GwServes, GwBusy, GwFree
  <2>2. GwServesAllowed'
    BY <1>e, <1>f, <2>0
       DEF GwListsKept, GwServesAllowed, GwTaken, GwOneAtATime, GwURuns, GwOver, GwServes, GwBusy, GwFree
  <2>3. GwOneOpen'
    BY <1>e, <1>f, <2>0 DEF GwListsKept, GwOneOpen, GwOneAtATime, GwURuns, GwOver, GwServes, GwBusy, GwFree
  <2>4. GwReports'
    BY <1>e, <1>f, <2>0
       DEF GwListsKept, GwReports, GwServes, GwOneAtATime, GwURuns, GwOver, GwServes, GwBusy, GwFree
  <2> QED BY <2>1, <2>2, <2>3, <2>4
<1> QED BY <1>1, <1>2, <1>3, <1>f, <1>r, <1>t DEF GwInv, GwRegular

\* Every step of the uplink thread.
LEMMA GwUplinkStep ==
  ASSUME GwInv, UplinkThread \/ UplinkForwards
  PROVE  GwInv'
<1>1. CASE ConnectServer
  <2>1. ThreadOnly /\ UNCHANGED gwLock /\ GwU = "start" BY <1>1 DEF ConnectServer, Pc, GwU
  <2>2. \/ gw' = [gw EXCEPT !.server = "open"] /\ Goes("up", "streams") /\ UNCHANGED <<gwWorld, gwQueue>>
        \/ /\ gw' = [gw EXCEPT !.rfcomm = 0, !.server = "unconnected"] /\ gwWorld' = RfcommClosed
           /\ gwQueue' = [gwQueue EXCEPT !.start = TRUE] /\ Goes("up", "done")
    BY <1>1 DEF ConnectServer
  <2> QED BY <2>1, <2>2, GwHasServer, GwNoServer
<1>2. CASE ReuseServer
  <2>1. /\ ThreadOnly /\ UNCHANGED <<gwLock, gwQueue, gwWorld>> /\ GwU = "start" /\ Goes("up", "streams")
        /\ gw' = gw
    BY <1>2 DEF ReuseServer, Pc, GwU
  <2> QED BY <2>1, GwHasServer
<1>3. CASE UplinkReadFails
  <2>1. /\ Leaves(TRUE) /\ GwU = "read" /\ UNCHANGED <<gwConfig, gw, gwLock, gwTodo, gwQueue, gwWorld>>
        /\ gwPast' = gwPast
    BY <1>3 DEF UplinkReadFails, Pc, GwU, ThreadOnly
  <2> QED BY <2>1, GwLeaves
<1>4. CASE UplinkForwards
  <2>1. /\ Leaves(~Up.wired /\ ~Dun) /\ GwU = "read"
        /\ UNCHANGED <<gwConfig, gw, gwLock, gwTodo, gwQueue, gwWorld>>
        /\ gwPast' = [gwPast EXCEPT !.stale = IF ~Up.wired /\ Dun THEN @ \cup {"write"} ELSE @]
    BY <1>4 DEF UplinkForwards, Pc, GwU
  <2>2. PICK b \in BOOLEAN : b = (~Up.wired /\ ~Dun) OBVIOUS
  <2>3. GwPastOK BY DEF GwInv, GwTyped
  <2>4. gwPast' = gwPast \/ gwPast' = [gwPast EXCEPT !.stale = @ \cup {"write"}] BY <2>1, <2>3 DEF GwPastOK
  <2>5. Leaves(b) BY <2>1, <2>2
  <2> QED BY <2>1, <2>4, <2>5, GwLeaves
<1>5. CASE UplinkEndsDownlink
  <2>1. /\ ThreadOnly /\ UNCHANGED <<gw, gwQueue, gwWorld>>
        /\ \/ GwU = "stop_down" /\ UplinkStops("down", "join_down")
           \/ GwU = "join_down" /\ UplinkJoins("down", IF Dun THEN "stop_mon" ELSE "tell")
    BY <1>5 DEF UplinkEndsDownlink, Pc, GwU
  <2> QED BY <2>1, GwUStopsDown, GwUJoinsDown
<1>6. CASE UplinkEndsMonitor
  <2>1. /\ ThreadOnly /\ UNCHANGED <<gw, gwQueue, gwWorld>>
        /\ \/ GwU = "stop_mon" /\ UplinkStops("mon", "join_mon")
           \/ GwU = "join_mon" /\ UplinkJoins("mon", "post")
    BY <1>6 DEF UplinkEndsMonitor, Pc, GwU
  <2> QED BY <2>1, GwUStopsMon, GwUJoinsMon
<1> QED
  BY <1>1, <1>2, <1>3, <1>4, <1>5, <1>6, GwNoStreams, GwStreams, GwStartsDown, GwStartsMon, GwUClosesServer,
           GwUClosesRfcomm, GwUTells, GwUPosts
    DEF UplinkThread

\* A socket is closed before the downlink thread takes its streams.
LEMMA GwDNoStreams ==
  ASSUME GwInv, DownlinkStreams, Unusable \/ gw.rfcomm = 0
  PROVE  GwInv'
<1>i. /\ GwTyped /\ GwTodoOK /\ GwLocked /\ GwClosed /\ GwNamed
      /\ (GwCalm => GwOneAtATime /\ GwServesAllowed /\ GwOneOpen /\ GwReports)
  BY DEF GwInv, GwRegular
<1>s. PICK S : S = 0..gwConfig.conns OBVIOUS
<1>0. /\ 0 \in S /\ gwConfig.conns \in Nat /\ GwLocals(S)
      /\ GwFieldsOK /\ GwLocksOK /\ GwQueueOK /\ GwWorldOK /\ GwPastOK
  BY <1>i, <1>s DEF GwTyped
<1>a. Goes("down", "done") BY DEF DownlinkStreams
<1>b. GwLocals(S)' /\ GwD' = "done" /\ UNCHANGED <<GwA, GwAConn, GwU, GwUConn, GwUInt>>
  BY <1>0, <1>a, GwDGoes DEF GwLabels
<1>d. ThreadOnly /\ gw' = gw /\ gwLock' = gwLock /\ gwQueue' = gwQueue /\ gwWorld' = gwWorld /\ GwD = "start"
  BY DEF DownlinkStreams, Pc, GwD
<1>e. /\ ThreadOnly
      /\ GwLocals(S)'
      /\ GwD = "start" /\ GwD' = "done"
      /\ UNCHANGED <<GwA, GwAConn, GwU, GwUConn, GwUInt>>
      /\ gw' = gw
      /\ gwWorld' = gwWorld
      /\ gwQueue' = gwQueue
      /\ gwLock' = gwLock
  BY <1>b, <1>d
<1>f. GwListsKept /\ GwTodoOK' /\ (GwCalm' <=> GwCalm) /\ gwConfig' = gwConfig /\ GwPastOK'
  BY <1>e, GwThreadFrame
<1>t. GwTyped'
  <2>1. GwFieldsOK' BY <1>0, <1>e, <1>f DEF GwFieldsOK
  <2>2. GwLocksOK' BY <1>0, <1>e, <1>f DEF GwLocksOK
  <2>3. GwQueueOK' BY <1>0, <1>e, <1>f DEF GwQueueOK, GwConn
  <2>4. GwWorldOK' BY <1>0, <1>e, <1>f DEF GwWorldOK, GwConn
  <2>5. GwLocals(0..gwConfig.conns)' BY <1>e, <1>f, <1>s DEF GwLocals
  <2> QED BY <1>0, <1>e, <1>f, <1>i, <2>1, <2>2, <2>3, <2>4, <2>5 DEF GwTyped
<1>1. GwLocked' BY <1>e, <1>f, <1>i DEF GwListsKept, GwLocked, GwThreads
<1>2. GwClosed' BY <1>e, <1>f, <1>i DEF GwListsKept, GwClosed
<1>3. GwNamed' BY <1>e, <1>f, <1>i DEF GwListsKept, GwNamed
<1>r. GwCalm' => GwOneAtATime' /\ GwServesAllowed' /\ GwOneOpen' /\ GwReports'
  <2> SUFFICES ASSUME GwCalm' PROVE GwOneAtATime' /\ GwServesAllowed' /\ GwOneOpen' /\ GwReports' OBVIOUS
  <2>0. GwOneAtATime /\ GwServesAllowed /\ GwOneOpen /\ GwReports BY <1>f, <1>i
  <2>1. GwOneAtATime'
    BY <1>e, <1>f, <2>0 DEF GwListsKept, GwOneAtATime, GwURuns, GwOver, GwServes, GwBusy, GwFree
  <2>2. GwServesAllowed' BY <1>e, <1>f, <2>0 DEF GwListsKept, GwServesAllowed, GwTaken
  <2>3. GwOneOpen' BY <1>e, <1>f, <2>0 DEF GwListsKept, GwOneOpen
  <2>4. GwReports' BY <1>e, <1>f, <2>0 DEF GwListsKept, GwReports, GwServes
  <2> QED BY <2>1, <2>2, <2>3, <2>4
<1> QED BY <1>1, <1>2, <1>3, <1>f, <1>r, <1>t DEF GwInv, GwRegular

\* The downlink thread takes the streams of the connection.
LEMMA GwDStreams ==
  ASSUME GwInv, DownlinkStreams, ~(Unusable \/ gw.rfcomm = 0)
  PROVE  GwInv'
<1>i. /\ GwTyped /\ GwTodoOK /\ GwLocked /\ GwClosed /\ GwNamed
      /\ (GwCalm => GwOneAtATime /\ GwServesAllowed /\ GwOneOpen /\ GwReports)
  BY DEF GwInv, GwRegular
<1>s. PICK S : S = 0..gwConfig.conns OBVIOUS
<1>0. /\ 0 \in S /\ gwConfig.conns \in Nat /\ GwLocals(S)
      /\ GwFieldsOK /\ GwLocksOK /\ GwQueueOK /\ GwWorldOK /\ GwPastOK
  BY <1>i, <1>s DEF GwTyped
<1>a. gwThread' = [gwThread EXCEPT !["down"].pc = "read", !["down"].conn = gw.rfcomm,
                                       !["down"].wired = (gw.server = "open")]
  BY DEF DownlinkStreams
<1>b. /\ GwLocals(S)' /\ GwD' = "read" /\ GwDConn' = gw.rfcomm
      /\ UNCHANGED <<GwA, GwAConn, GwU, GwUConn, GwUInt>>
  <2> DEFINE r == [gwThread["down"] EXCEPT !.pc = "read", !.conn = gw.rfcomm, !.wired = (gw.server = "open")]
  <2>1. gwThread["down"] \in GwLocal(S) /\ {"accept", "up", "down"} \subseteq GwThreads
    BY <1>0 DEF GwLocals, GwThreads
  <2>2. r \in GwLocal(S) /\ r.pc = "read" /\ r.conn = gw.rfcomm
    BY <1>0, <1>s, <2>1 DEF GwLocal, GwLabels, GwFieldsOK
  <2>3. gwThread' = [gwThread EXCEPT !["down"] = r] BY <1>0, <1>a, <2>1 DEF GwLocals
  <2> HIDE DEF r
  <2>4. /\ GwLocals(S)' /\ gwThread'["down"] = r
        /\ \A u \in GwThreads \ {"down"} : gwThread'[u] = gwThread[u]
    BY <1>0, <2>1, <2>2, <2>3, GwOneThread
  <2>5. gwThread'["accept"] = gwThread["accept"] /\ gwThread'["up"] = gwThread["up"] BY <2>1, <2>4
  <2> QED BY <2>2, <2>4, <2>5 DEF GwA, GwAConn, GwU, GwUConn, GwUInt, GwD, GwDConn
<1>d. ThreadOnly /\ gw' = gw /\ gwLock' = gwLock /\ gwQueue' = gwQueue /\ gwWorld' = gwWorld /\ GwD = "start"
  BY DEF DownlinkStreams, Pc, GwD
<1>h. GwDownGone => GwDropped
  <2>1. GwCloses \/ gwWorld.adapter # "closed" BY <1>i DEF GwTodoOK
  <2> QED BY <2>1, GwInOrder
<1>e. /\ ThreadOnly
      /\ GwLocals(S)'
      /\ GwD = "start" /\ GwD' = "read" /\ GwDConn' = gw.rfcomm /\ gw.rfcomm # 0
      /\ UNCHANGED <<GwA, GwAConn, GwU, GwUConn, GwUInt>>
      /\ gw' = gw
      /\ gwWorld' = gwWorld
      /\ gwQueue' = gwQueue
      /\ gwLock' = gwLock
  BY <1>b, <1>d
<1>f. GwListsKept /\ GwTodoOK' /\ (GwCalm' <=> GwCalm) /\ gwConfig' = gwConfig /\ GwPastOK'
  BY <1>e, GwThreadFrame
<1>t. GwTyped'
  <2>1. GwFieldsOK' BY <1>0, <1>e, <1>f DEF GwFieldsOK
  <2>2. GwLocksOK' BY <1>0, <1>e, <1>f DEF GwLocksOK
  <2>3. GwQueueOK' BY <1>0, <1>e, <1>f DEF GwQueueOK, GwConn
  <2>4. GwWorldOK' BY <1>0, <1>e, <1>f DEF GwWorldOK, GwConn
  <2>5. GwLocals(0..gwConfig.conns)' BY <1>e, <1>f, <1>s DEF GwLocals
  <2> QED BY <1>0, <1>e, <1>f, <1>i, <2>1, <2>2, <2>3, <2>4, <2>5 DEF GwTyped
<1>1. GwLocked' BY <1>e, <1>f, <1>i DEF GwListsKept, GwLocked, GwThreads
<1>2. GwClosed' BY <1>e, <1>f, <1>i, <1>h DEF GwListsKept, GwClosed
<1>3. GwNamed' BY <1>e, <1>f, <1>i DEF GwListsKept, GwNamed
<1>r. GwCalm' => GwOneAtATime' /\ GwServesAllowed' /\ GwOneOpen' /\ GwReports'
  <2> SUFFICES ASSUME GwCalm' PROVE GwOneAtATime' /\ GwServesAllowed' /\ GwOneOpen' /\ GwReports' OBVIOUS
  <2>0. GwOneAtATime /\ GwServesAllowed /\ GwOneOpen /\ GwReports BY <1>f, <1>i
  <2>1. GwOneAtATime'
    BY <1>e, <1>f, <2>0 DEF GwListsKept, GwOneAtATime, GwURuns, GwOver, GwServes, GwBusy, GwFree
  <2>2. GwServesAllowed' BY <1>e, <1>f, <2>0 DEF GwListsKept, GwServesAllowed, GwTaken
  <2>3. GwOneOpen' BY <1>e, <1>f, <2>0 DEF GwListsKept, GwOneOpen
  <2>4. GwReports' BY <1>e, <1>f, <2>0 DEF GwListsKept, GwReports, GwServes
  <2> QED BY <2>1, <2>2, <2>3, <2>4
<1> QED BY <1>1, <1>2, <1>3, <1>f, <1>r, <1>t DEF GwInv, GwRegular

\* The server sends something.
LEMMA GwDReads ==
  ASSUME GwInv, NEW m \in {"response", "connected", "disconnected"}, DownlinkReads(m)
  PROVE  GwInv'
<1>i. /\ GwTyped /\ GwTodoOK /\ GwLocked /\ GwClosed /\ GwNamed
      /\ (GwCalm => GwOneAtATime /\ GwServesAllowed /\ GwOneOpen /\ GwReports)
  BY DEF GwInv, GwRegular
<1>s. PICK S : S = 0..gwConfig.conns OBVIOUS
<1>0. /\ 0 \in S /\ gwConfig.conns \in Nat /\ GwLocals(S)
      /\ GwFieldsOK /\ GwLocksOK /\ GwQueueOK /\ GwWorldOK /\ GwPastOK
  BY <1>i, <1>s DEF GwTyped
<1>a. gwThread' = [gwThread EXCEPT !["down"].pc = "handle", !["down"].msg = m] BY DEF DownlinkReads
<1>b. /\ GwLocals(S)' /\ GwD' = "handle" /\ GwDConn' = GwDConn
      /\ UNCHANGED <<GwA, GwAConn, GwU, GwUConn, GwUInt>>
  <2> DEFINE r == [gwThread["down"] EXCEPT !.pc = "handle", !.msg = m]
  <2>1. gwThread["down"] \in GwLocal(S) /\ {"accept", "up", "down"} \subseteq GwThreads
    BY <1>0 DEF GwLocals, GwThreads
  <2>2. r \in GwLocal(S) /\ r.pc = "handle" /\ r.conn = gwThread["down"].conn
    BY <1>0, <1>s, <2>1 DEF GwLocal, GwLabels, GwFieldsOK
  <2>3. gwThread' = [gwThread EXCEPT !["down"] = r] BY <1>0, <1>a, <2>1 DEF GwLocals
  <2> HIDE DEF r
  <2>4. /\ GwLocals(S)' /\ gwThread'["down"] = r
        /\ \A u \in GwThreads \ {"down"} : gwThread'[u] = gwThread[u]
    BY <1>0, <2>1, <2>2, <2>3, GwOneThread
  <2>5. gwThread'["accept"] = gwThread["accept"] /\ gwThread'["up"] = gwThread["up"] BY <2>1, <2>4
  <2> QED BY <2>2, <2>4, <2>5 DEF GwA, GwAConn, GwU, GwUConn, GwUInt, GwD, GwDConn
<1>d. ThreadOnly /\ gw' = gw /\ gwLock' = gwLock /\ gwQueue' = gwQueue /\ gwWorld' = gwWorld /\ GwD = "read"
  BY DEF DownlinkReads, Pc, GwD
<1>e. /\ ThreadOnly
      /\ GwLocals(S)'
      /\ GwD = "read" /\ GwD' = "handle" /\ GwDConn' = GwDConn
      /\ UNCHANGED <<GwA, GwAConn, GwU, GwUConn, GwUInt>>
      /\ gw' = gw
      /\ gwWorld' = gwWorld
      /\ gwQueue' = gwQueue
      /\ gwLock' = gwLock
  BY <1>b, <1>d
<1>f. GwListsKept /\ GwTodoOK' /\ (GwCalm' <=> GwCalm) /\ gwConfig' = gwConfig /\ GwPastOK'
  BY <1>e, GwThreadFrame
<1>t. GwTyped'
  <2>1. GwFieldsOK' BY <1>0, <1>e, <1>f DEF GwFieldsOK
  <2>2. GwLocksOK' BY <1>0, <1>e, <1>f DEF GwLocksOK
  <2>3. GwQueueOK' BY <1>0, <1>e, <1>f DEF GwQueueOK, GwConn
  <2>4. GwWorldOK' BY <1>0, <1>e, <1>f DEF GwWorldOK, GwConn
  <2>5. GwLocals(0..gwConfig.conns)' BY <1>e, <1>f, <1>s DEF GwLocals
  <2> QED BY <1>0, <1>e, <1>f, <1>i, <2>1, <2>2, <2>3, <2>4, <2>5 DEF GwTyped
<1>1. GwLocked' BY <1>e, <1>f, <1>i DEF GwListsKept, GwLocked, GwThreads
<1>2. GwClosed' BY <1>e, <1>f, <1>i DEF GwListsKept, GwClosed
<1>3. GwNamed' BY <1>e, <1>f, <1>i DEF GwListsKept, GwNamed
<1>r. GwCalm' => GwOneAtATime' /\ GwServesAllowed' /\ GwOneOpen' /\ GwReports'
  <2> SUFFICES ASSUME GwCalm' PROVE GwOneAtATime' /\ GwServesAllowed' /\ GwOneOpen' /\ GwReports' OBVIOUS
  <2>0. GwOneAtATime /\ GwServesAllowed /\ GwOneOpen /\ GwReports BY <1>f, <1>i
  <2>1. GwOneAtATime'
    BY <1>e, <1>f, <2>0 DEF GwListsKept, GwOneAtATime, GwURuns, GwOver, GwServes, GwBusy, GwFree
  <2>2. GwServesAllowed' BY <1>e, <1>f, <2>0 DEF GwListsKept, GwServesAllowed, GwTaken
  <2>3. GwOneOpen' BY <1>e, <1>f, <2>0 DEF GwListsKept, GwOneOpen
  <2>4. GwReports' BY <1>e, <1>f, <2>0 DEF GwListsKept, GwReports, GwServes
  <2> QED BY <2>1, <2>2, <2>3, <2>4
<1> QED BY <1>1, <1>2, <1>3, <1>f, <1>r, <1>t DEF GwInv, GwRegular

\* It is passed on, or reported.
LEMMA GwDHandles ==
  ASSUME GwInv, DownlinkHandles
  PROVE  GwInv'
<1>i. /\ GwTyped /\ GwTodoOK /\ GwLocked /\ GwClosed /\ GwNamed
      /\ (GwCalm => GwOneAtATime /\ GwServesAllowed /\ GwOneOpen /\ GwReports)
  BY DEF GwInv, GwRegular
<1>s. PICK S : S = 0..gwConfig.conns OBVIOUS
<1>0. /\ 0 \in S /\ gwConfig.conns \in Nat /\ GwLocals(S)
      /\ GwFieldsOK /\ GwLocksOK /\ GwQueueOK /\ GwWorldOK /\ GwPastOK
  BY <1>i, <1>s DEF GwTyped
<1> DEFINE label == IF Down.stopped \/ (Down.msg = "response" /\ Broken(Down.conn)) THEN "end" ELSE "read"
<1>l. label \in {"end", "read"} OBVIOUS
<1>a. gwThread' = [gwThread EXCEPT !["down"].msg = "none", !["down"].pc = label] BY DEF DownlinkHandles
<1> HIDE DEF label
<1>b. /\ GwLocals(S)' /\ GwD' = label /\ GwDConn' = GwDConn
      /\ UNCHANGED <<GwA, GwAConn, GwU, GwUConn, GwUInt>>
  <2> DEFINE r == [gwThread["down"] EXCEPT !.msg = "none", !.pc = label]
  <2>1. gwThread["down"] \in GwLocal(S) /\ {"accept", "up", "down"} \subseteq GwThreads
    BY <1>0 DEF GwLocals, GwThreads
  <2>2. r \in GwLocal(S) /\ r.pc = label /\ r.conn = gwThread["down"].conn
    BY <1>0, <1>l, <1>s, <2>1 DEF GwLocal, GwLabels, GwFieldsOK
  <2>3. gwThread' = [gwThread EXCEPT !["down"] = r] BY <1>0, <1>a, <2>1 DEF GwLocals
  <2> HIDE DEF r
  <2>4. /\ GwLocals(S)' /\ gwThread'["down"] = r
        /\ \A u \in GwThreads \ {"down"} : gwThread'[u] = gwThread[u]
    BY <1>0, <2>1, <2>2, <2>3, GwOneThread
  <2>5. gwThread'["accept"] = gwThread["accept"] /\ gwThread'["up"] = gwThread["up"] BY <2>1, <2>4
  <2> QED BY <2>2, <2>4, <2>5 DEF GwA, GwAConn, GwU, GwUConn, GwUInt, GwD, GwDConn
<1>d. ThreadOnly /\ gw' = gw /\ gwLock' = gwLock /\ gwQueue' = gwQueue /\ GwD = "handle"
  BY DEF DownlinkHandles, Pc, GwD
<1>w. \E T \in {gwWorld.told, gwWorld.told \cup {gw.remote}, gwWorld.told \ {gw.remote}} :
        gwWorld' = gwWorld \/ gwWorld' = [gwWorld EXCEPT !.told = T]
  BY DEF DownlinkHandles, Told
<1>g. /\ gwWorld'.adapter = gwWorld.adapter /\ gwWorld'.open = gwWorld.open
      /\ gwWorld'.allowed = gwWorld.allowed
      /\ gwWorld'.told = gwWorld.told \/ gwWorld'.told = gwWorld.told \cup {gw.remote} \/ gwWorld'.told = gwWorld.told \ {gw.remote}
  BY <1>0, <1>w DEF GwWorldOK
<1>n. gw.remote \in GwConn BY <1>0, <1>d, <1>i DEF GwNamed, GwFieldsOK, GwConn
<1>e. /\ ThreadOnly
      /\ GwLocals(S)'
      /\ GwD = "handle" /\ GwD' \in {"read", "end"} /\ GwDConn' = GwDConn
      /\ UNCHANGED <<GwA, GwAConn, GwU, GwUConn, GwUInt>>
      /\ gw' = gw
      /\ gwWorld'.adapter = gwWorld.adapter
      /\ gwWorld'.open = gwWorld.open
      /\ gwWorld'.allowed = gwWorld.allowed
      /\ gwWorld'.told = gwWorld.told \/ gwWorld'.told = gwWorld.told \cup {gw.remote} \/ gwWorld'.told = gwWorld.told \ {gw.remote}
      /\ gwQueue' = gwQueue
      /\ gwLock' = gwLock
  BY <1>b, <1>d, <1>g, <1>l
<1>f. GwListsKept /\ GwTodoOK' /\ (GwCalm' <=> GwCalm) /\ gwConfig' = gwConfig /\ GwPastOK'
  BY <1>e, GwThreadFrame
<1>t. GwTyped'
  <2>1. GwFieldsOK' BY <1>0, <1>e, <1>f DEF GwFieldsOK
  <2>2. GwLocksOK' BY <1>0, <1>e, <1>f DEF GwLocksOK
  <2>3. GwQueueOK' BY <1>0, <1>e, <1>f DEF GwQueueOK, GwConn
  <2>4. GwWorldOK' BY <1>0, <1>f, <1>n, <1>w DEF GwWorldOK, GwConn
  <2>5. GwLocals(0..gwConfig.conns)' BY <1>e, <1>f, <1>s DEF GwLocals
  <2> QED BY <1>0, <1>e, <1>f, <1>i, <2>1, <2>2, <2>3, <2>4, <2>5 DEF GwTyped
<1>1. GwLocked' BY <1>e, <1>f, <1>i DEF GwListsKept, GwLocked, GwThreads
<1>2. GwClosed' BY <1>e, <1>f, <1>i DEF GwListsKept, GwClosed
<1>3. GwNamed' BY <1>e, <1>f, <1>i DEF GwListsKept, GwNamed
<1>r. GwCalm' => GwOneAtATime' /\ GwServesAllowed' /\ GwOneOpen' /\ GwReports'
  <2> SUFFICES ASSUME GwCalm' PROVE GwOneAtATime' /\ GwServesAllowed' /\ GwOneOpen' /\ GwReports' OBVIOUS
  <2>0. GwOneAtATime /\ GwServesAllowed /\ GwOneOpen /\ GwReports BY <1>f, <1>i
  <2>1. GwOneAtATime'
    BY <1>e, <1>f, <2>0 DEF GwListsKept, GwOneAtATime, GwURuns, GwOver, GwServes, GwBusy, GwFree
  <2>2. GwServesAllowed' BY <1>e, <1>f, <2>0 DEF GwListsKept, GwServesAllowed, GwTaken
  <2>3. GwOneOpen' BY <1>e, <1>f, <2>0 DEF GwListsKept, GwOneOpen
  <2>4. GwReports'
    BY <1>e, <1>f, <2>0
       DEF GwListsKept, GwReports, GwServes, GwOneAtATime, GwURuns, GwOver, GwServes, GwBusy, GwFree
  <2> QED BY <2>1, <2>2, <2>3, <2>4
<1> QED BY <1>1, <1>2, <1>3, <1>f, <1>r, <1>t DEF GwInv, GwRegular

\* The socket to the server is closed.
LEMMA GwDFails ==
  ASSUME GwInv, DownlinkReadFails
  PROVE  GwInv'
<1>i. /\ GwTyped /\ GwTodoOK /\ GwLocked /\ GwClosed /\ GwNamed
      /\ (GwCalm => GwOneAtATime /\ GwServesAllowed /\ GwOneOpen /\ GwReports)
  BY DEF GwInv, GwRegular
<1>s. PICK S : S = 0..gwConfig.conns OBVIOUS
<1>0. /\ 0 \in S /\ gwConfig.conns \in Nat /\ GwLocals(S)
      /\ GwFieldsOK /\ GwLocksOK /\ GwQueueOK /\ GwWorldOK /\ GwPastOK
  BY <1>i, <1>s DEF GwTyped
<1>a. Goes("down", "end") BY DEF DownlinkReadFails
<1>b. GwLocals(S)' /\ GwD' = "end" /\ GwDConn' = GwDConn /\ UNCHANGED <<GwA, GwAConn, GwU, GwUConn, GwUInt>>
  BY <1>0, <1>a, GwDGoes DEF GwLabels
<1>d. ThreadOnly /\ gw' = gw /\ gwLock' = gwLock /\ gwQueue' = gwQueue /\ gwWorld' = gwWorld /\ GwD = "read"
  BY DEF DownlinkReadFails, Pc, GwD
<1>e. /\ ThreadOnly
      /\ GwLocals(S)'
      /\ GwD = "read" /\ GwD' = "end" /\ GwDConn' = GwDConn
      /\ UNCHANGED <<GwA, GwAConn, GwU, GwUConn, GwUInt>>
      /\ gw' = gw
      /\ gwWorld' = gwWorld
      /\ gwQueue' = gwQueue
      /\ gwLock' = gwLock
  BY <1>b, <1>d
<1>f. GwListsKept /\ GwTodoOK' /\ (GwCalm' <=> GwCalm) /\ gwConfig' = gwConfig /\ GwPastOK'
  BY <1>e, GwThreadFrame
<1>t. GwTyped'
  <2>1. GwFieldsOK' BY <1>0, <1>e, <1>f DEF GwFieldsOK
  <2>2. GwLocksOK' BY <1>0, <1>e, <1>f DEF GwLocksOK
  <2>3. GwQueueOK' BY <1>0, <1>e, <1>f DEF GwQueueOK, GwConn
  <2>4. GwWorldOK' BY <1>0, <1>e, <1>f DEF GwWorldOK, GwConn
  <2>5. GwLocals(0..gwConfig.conns)' BY <1>e, <1>f, <1>s DEF GwLocals
  <2> QED BY <1>0, <1>e, <1>f, <1>i, <2>1, <2>2, <2>3, <2>4, <2>5 DEF GwTyped
<1>1. GwLocked' BY <1>e, <1>f, <1>i DEF GwListsKept, GwLocked, GwThreads
<1>2. GwClosed' BY <1>e, <1>f, <1>i DEF GwListsKept, GwClosed
<1>3. GwNamed' BY <1>e, <1>f, <1>i DEF GwListsKept, GwNamed
<1>r. GwCalm' => GwOneAtATime' /\ GwServesAllowed' /\ GwOneOpen' /\ GwReports'
  <2> SUFFICES ASSUME GwCalm' PROVE GwOneAtATime' /\ GwServesAllowed' /\ GwOneOpen' /\ GwReports' OBVIOUS
  <2>0. GwOneAtATime /\ GwServesAllowed /\ GwOneOpen /\ GwReports BY <1>f, <1>i
  <2>1. GwOneAtATime'
    BY <1>e, <1>f, <2>0 DEF GwListsKept, GwOneAtATime, GwURuns, GwOver, GwServes, GwBusy, GwFree
  <2>2. GwServesAllowed' BY <1>e, <1>f, <2>0 DEF GwListsKept, GwServesAllowed, GwTaken
  <2>3. GwOneOpen' BY <1>e, <1>f, <2>0 DEF GwListsKept, GwOneOpen
  <2>4. GwReports' BY <1>e, <1>f, <2>0 DEF GwListsKept, GwReports, GwServes
  <2> QED BY <2>1, <2>2, <2>3, <2>4
<1> QED BY <1>1, <1>2, <1>3, <1>f, <1>r, <1>t DEF GwInv, GwRegular

\* The downlink thread closes the socket to the server ...
LEMMA GwDClosesServer ==
  ASSUME GwInv, ThreadOnly, UNCHANGED <<gwLock, gwQueue, gwWorld>>, GwD = "end",
         gw' = [gw EXCEPT !.server = "none"], gwThread' = [ServerCut EXCEPT !["down"].pc = "close_rfcomm"]
  PROVE  GwInv'
<1>i. /\ GwTyped /\ GwTodoOK /\ GwLocked /\ GwClosed /\ GwNamed
      /\ (GwCalm => GwOneAtATime /\ GwServesAllowed /\ GwOneOpen /\ GwReports)
  BY DEF GwInv, GwRegular
<1>s. PICK S : S = 0..gwConfig.conns OBVIOUS
<1>0. /\ 0 \in S /\ gwConfig.conns \in Nat /\ GwLocals(S)
      /\ GwFieldsOK /\ GwLocksOK /\ GwQueueOK /\ GwWorldOK /\ GwPastOK
  BY <1>i, <1>s DEF GwTyped
<1>a. /\ gw' = [gw EXCEPT !.server = "none"]
      /\ gwThread' = [ServerCut EXCEPT !["down"].pc = "close_rfcomm"] OBVIOUS
<1>b. /\ GwLocals(S)' /\ GwD' = "close_rfcomm"
      /\ UNCHANGED <<GwDConn, GwA, GwAConn, GwU, GwUConn, GwUInt>>
  <2>1. {"accept", "up", "down"} \subseteq GwThreads BY SMTT(60) DEF GwThreads
  <2>2. /\ GwLocals(S)' /\ gwThread'["down"].pc = "close_rfcomm"
        /\ \A u \in GwThreads \ {"down"} : gwThread'[u].pc = gwThread[u].pc
        /\ \A u \in GwThreads : /\ gwThread'[u].conn = gwThread[u].conn
                                /\ gwThread'[u].interrupt = gwThread[u].interrupt
    BY <1>0, <1>a, <2>1, GwCutGoesEffect DEF GwLabels
  <2> QED BY <2>1, <2>2 DEF GwA, GwAConn, GwU, GwUConn, GwUInt, GwD, GwDConn
<1>g. gw'.rfcomm = gw.rfcomm /\ gw'.remote = gw.remote /\ gw'.waiting = gw.waiting /\ gw'.listen = gw.listen
  BY <1>0, <1>a DEF GwFieldsOK
<1>e. /\ ThreadOnly
      /\ GwLocals(S)'
      /\ GwD = "end" /\ GwD' = "close_rfcomm" /\ GwDConn' = GwDConn
      /\ UNCHANGED <<GwA, GwAConn, GwU, GwUConn, GwUInt>>
      /\ gw'.rfcomm = gw.rfcomm
      /\ gw'.remote = gw.remote
      /\ gw'.waiting = gw.waiting
      /\ gw'.listen = gw.listen
      /\ gwWorld' = gwWorld
      /\ gwQueue' = gwQueue
      /\ gwLock' = gwLock
  BY <1>b, <1>g
<1>f. GwListsKept /\ GwTodoOK' /\ (GwCalm' <=> GwCalm) /\ gwConfig' = gwConfig /\ GwPastOK'
  BY <1>e, GwThreadFrame
<1>t. GwTyped'
  <2>1. GwFieldsOK' BY <1>0, <1>a, <1>f DEF GwFieldsOK
  <2>2. GwLocksOK' BY <1>0, <1>e, <1>f DEF GwLocksOK
  <2>3. GwQueueOK' BY <1>0, <1>e, <1>f DEF GwQueueOK, GwConn
  <2>4. GwWorldOK' BY <1>0, <1>e, <1>f DEF GwWorldOK, GwConn
  <2>5. GwLocals(0..gwConfig.conns)' BY <1>e, <1>f, <1>s DEF GwLocals
  <2> QED BY <1>0, <1>e, <1>f, <1>i, <2>1, <2>2, <2>3, <2>4, <2>5 DEF GwTyped
<1>1. GwLocked' BY <1>e, <1>f, <1>i DEF GwListsKept, GwLocked, GwThreads
<1>2. GwClosed' BY <1>e, <1>f, <1>i DEF GwListsKept, GwClosed
<1>3. GwNamed' BY <1>e, <1>f, <1>i DEF GwListsKept, GwNamed
<1>r. GwCalm' => GwOneAtATime' /\ GwServesAllowed' /\ GwOneOpen' /\ GwReports'
  <2> SUFFICES ASSUME GwCalm' PROVE GwOneAtATime' /\ GwServesAllowed' /\ GwOneOpen' /\ GwReports' OBVIOUS
  <2>0. GwOneAtATime /\ GwServesAllowed /\ GwOneOpen /\ GwReports BY <1>f, <1>i
  <2>1. GwOneAtATime'
    BY <1>e, <1>f, <2>0 DEF GwListsKept, GwOneAtATime, GwURuns, GwOver, GwServes, GwBusy, GwFree
  <2>2. GwServesAllowed' BY <1>e, <1>f, <2>0 DEF GwListsKept, GwServesAllowed, GwTaken
  <2>3. GwOneOpen' BY <1>e, <1>f, <2>0 DEF GwListsKept, GwOneOpen
  <2>4. GwReports' BY <1>e, <1>f, <2>0 DEF GwListsKept, GwReports, GwServes
  <2> QED BY <2>1, <2>2, <2>3, <2>4
<1> QED BY <1>1, <1>2, <1>3, <1>f, <1>r, <1>t DEF GwInv, GwRegular

\* ... and whatever connection is in the field.
LEMMA GwDClosesRfcomm ==
  ASSUME GwInv, ThreadOnly, UNCHANGED <<gwLock, gwQueue>>, GwD = "close_rfcomm",
         gw' = [gw EXCEPT !.rfcomm = 0], Goes("down", "done"), gwWorld' = RfcommClosed
  PROVE  GwInv'
<1>i. /\ GwTyped /\ GwTodoOK /\ GwLocked /\ GwClosed /\ GwNamed
      /\ (GwCalm => GwOneAtATime /\ GwServesAllowed /\ GwOneOpen /\ GwReports)
  BY DEF GwInv, GwRegular
<1>s. PICK S : S = 0..gwConfig.conns OBVIOUS
<1>0. /\ 0 \in S /\ gwConfig.conns \in Nat /\ GwLocals(S)
      /\ GwFieldsOK /\ GwLocksOK /\ GwQueueOK /\ GwWorldOK /\ GwPastOK
  BY <1>i, <1>s DEF GwTyped
<1>a. gw' = [gw EXCEPT !.rfcomm = 0] /\ gwWorld' = RfcommClosed OBVIOUS
<1>b. GwLocals(S)' /\ GwD' = "done" /\ UNCHANGED <<GwA, GwAConn, GwU, GwUConn, GwUInt>>
  BY <1>0, GwDGoes DEF GwLabels
<1>g. /\ gw'.rfcomm = 0 /\ gw'.remote = gw.remote /\ gw'.waiting = gw.waiting /\ gw'.listen = gw.listen
      /\ gwWorld'.adapter = gwWorld.adapter /\ gwWorld'.open = gwWorld.open \ {gw.rfcomm}
      /\ gwWorld'.allowed = gwWorld.allowed /\ gwWorld'.told = gwWorld.told
  BY <1>0, <1>a DEF GwFieldsOK, GwWorldOK, RfcommClosed
<1>e. /\ ThreadOnly
      /\ GwLocals(S)'
      /\ GwD = "close_rfcomm" /\ GwD' = "done"
      /\ UNCHANGED <<GwA, GwAConn, GwU, GwUConn, GwUInt>>
      /\ gw'.rfcomm = 0
      /\ gw'.remote = gw.remote
      /\ gw'.waiting = gw.waiting
      /\ gw'.listen = gw.listen
      /\ gwWorld'.adapter = gwWorld.adapter
      /\ gwWorld'.open = gwWorld.open \ {gw.rfcomm}
      /\ gwWorld'.allowed = gwWorld.allowed
      /\ gwWorld'.told = gwWorld.told
      /\ gwQueue' = gwQueue
      /\ gwLock' = gwLock
  BY <1>b, <1>g
<1>f. GwListsKept /\ GwTodoOK' /\ (GwCalm' <=> GwCalm) /\ gwConfig' = gwConfig /\ GwPastOK'
  BY <1>e, GwThreadFrame
<1>t. GwTyped'
  <2>1. GwFieldsOK' BY <1>0, <1>a, <1>f, <1>s DEF GwFieldsOK
  <2>2. GwLocksOK' BY <1>0, <1>e, <1>f DEF GwLocksOK
  <2>3. GwQueueOK' BY <1>0, <1>e, <1>f DEF GwQueueOK, GwConn
  <2>4. GwWorldOK' BY <1>0, <1>a, <1>f, ZenonT(60) DEF GwWorldOK, GwConn, RfcommClosed
  <2>5. GwLocals(0..gwConfig.conns)' BY <1>e, <1>f, <1>s DEF GwLocals
  <2> QED BY <1>0, <1>e, <1>f, <1>i, <2>1, <2>2, <2>3, <2>4, <2>5 DEF GwTyped
<1>1. GwLocked' BY <1>e, <1>f, <1>i DEF GwListsKept, GwLocked, GwThreads
<1>2. GwClosed' BY <1>e, <1>f, <1>i DEF GwListsKept, GwClosed
<1>3. GwNamed' BY <1>e, <1>f, <1>i DEF GwListsKept, GwNamed
<1>r. GwCalm' => GwOneAtATime' /\ GwServesAllowed' /\ GwOneOpen' /\ GwReports'
  <2> SUFFICES ASSUME GwCalm' PROVE GwOneAtATime' /\ GwServesAllowed' /\ GwOneOpen' /\ GwReports' OBVIOUS
  <2>0. GwOneAtATime /\ GwServesAllowed /\ GwOneOpen /\ GwReports BY <1>f, <1>i
  <2>1. GwOneAtATime'
    BY <1>e, <1>f, <2>0 DEF GwListsKept, GwOneAtATime, GwURuns, GwOver, GwServes, GwBusy, GwFree
  <2>2. GwServesAllowed'
    BY <1>e, <1>f, <2>0
       DEF GwListsKept, GwServesAllowed, GwTaken, GwOneAtATime, GwURuns, GwOver, GwServes, GwBusy, GwFree
  <2>3. GwOneOpen'
    BY <1>e, <1>f, <2>0 DEF GwListsKept, GwOneOpen, GwOneAtATime, GwURuns, GwOver, GwServes, GwBusy, GwFree
  <2>4. GwReports' BY <1>e, <1>f, <2>0 DEF GwListsKept, GwReports, GwServes
  <2> QED BY <2>1, <2>2, <2>3, <2>4
<1> QED BY <1>1, <1>2, <1>3, <1>f, <1>r, <1>t DEF GwInv, GwRegular

\* The monitor thread ends.
LEMMA GwMonEnds ==
  ASSUME GwInv, MonitorEnds
  PROVE  GwInv'
<1>i. /\ GwTyped /\ GwTodoOK /\ GwLocked /\ GwClosed /\ GwNamed
      /\ (GwCalm => GwOneAtATime /\ GwServesAllowed /\ GwOneOpen /\ GwReports)
  BY DEF GwInv, GwRegular
<1>s. PICK S : S = 0..gwConfig.conns OBVIOUS
<1>0. /\ 0 \in S /\ gwConfig.conns \in Nat /\ GwLocals(S)
      /\ GwFieldsOK /\ GwLocksOK /\ GwQueueOK /\ GwWorldOK /\ GwPastOK
  BY <1>i, <1>s DEF GwTyped
<1>a. Goes("mon", "done") BY DEF MonitorEnds
<1>b. GwLocals(S)' /\ UNCHANGED <<GwA, GwAConn, GwU, GwUConn, GwUInt, GwD, GwDConn>>
  <2>1. {"accept", "up", "down", "mon"} \subseteq GwThreads BY DEF GwThreads
  <2>2. GwLocals(S)' /\ \A u \in GwThreads \ {"mon"} : gwThread'[u] = gwThread[u]
    BY <1>0, <1>a, <2>1, GwGoesEffect DEF GwLabels
  <2>3. /\ gwThread'["accept"] = gwThread["accept"] /\ gwThread'["up"] = gwThread["up"]
        /\ gwThread'["down"] = gwThread["down"]
    BY <2>1, <2>2
  <2> QED BY <2>2, <2>3 DEF GwA, GwAConn, GwU, GwUConn, GwUInt, GwD, GwDConn
<1>d. ThreadOnly /\ gw' = gw /\ gwLock' = gwLock /\ gwQueue' = gwQueue /\ gwWorld' = gwWorld
  BY DEF MonitorEnds
<1>e. /\ ThreadOnly
      /\ GwLocals(S)'
      /\ UNCHANGED <<GwA, GwAConn, GwU, GwUConn, GwUInt, GwD, GwDConn>>
      /\ gw' = gw
      /\ gwWorld' = gwWorld
      /\ gwQueue' = gwQueue
      /\ gwLock' = gwLock
  BY <1>b, <1>d
<1>f. GwListsKept /\ GwTodoOK' /\ (GwCalm' <=> GwCalm) /\ gwConfig' = gwConfig /\ GwPastOK'
  BY <1>e, GwThreadFrame
<1>t. GwTyped'
  <2>1. GwFieldsOK' BY <1>0, <1>e, <1>f DEF GwFieldsOK
  <2>2. GwLocksOK' BY <1>0, <1>e, <1>f DEF GwLocksOK
  <2>3. GwQueueOK' BY <1>0, <1>e, <1>f DEF GwQueueOK, GwConn
  <2>4. GwWorldOK' BY <1>0, <1>e, <1>f DEF GwWorldOK, GwConn
  <2>5. GwLocals(0..gwConfig.conns)' BY <1>e, <1>f, <1>s DEF GwLocals
  <2> QED BY <1>0, <1>e, <1>f, <1>i, <2>1, <2>2, <2>3, <2>4, <2>5 DEF GwTyped
<1>1. GwLocked' BY <1>e, <1>f, <1>i DEF GwListsKept, GwLocked, GwThreads
<1>2. GwClosed' BY <1>e, <1>f, <1>i DEF GwListsKept, GwClosed
<1>3. GwNamed' BY <1>e, <1>f, <1>i DEF GwListsKept, GwNamed
<1>r. GwCalm' => GwOneAtATime' /\ GwServesAllowed' /\ GwOneOpen' /\ GwReports'
  <2> SUFFICES ASSUME GwCalm' PROVE GwOneAtATime' /\ GwServesAllowed' /\ GwOneOpen' /\ GwReports' OBVIOUS
  <2>0. GwOneAtATime /\ GwServesAllowed /\ GwOneOpen /\ GwReports BY <1>f, <1>i
  <2>1. GwOneAtATime'
    BY <1>e, <1>f, <2>0 DEF GwListsKept, GwOneAtATime, GwURuns, GwOver, GwServes, GwBusy, GwFree
  <2>2. GwServesAllowed' BY <1>e, <1>f, <2>0 DEF GwListsKept, GwServesAllowed, GwTaken
  <2>3. GwOneOpen' BY <1>e, <1>f, <2>0 DEF GwListsKept, GwOneOpen
  <2>4. GwReports' BY <1>e, <1>f, <2>0 DEF GwListsKept, GwReports, GwServes
  <2> QED BY <2>1, <2>2, <2>3, <2>4
<1> QED BY <1>1, <1>2, <1>3, <1>f, <1>r, <1>t DEF GwInv, GwRegular

\* The server process dies.
LEMMA GwServerDies ==
  ASSUME GwInv, ServerDies
  PROVE  GwInv'
<1>i. /\ GwTyped /\ GwTodoOK /\ GwLocked /\ GwClosed /\ GwNamed
      /\ (GwCalm => GwOneAtATime /\ GwServesAllowed /\ GwOneOpen /\ GwReports)
  BY DEF GwInv, GwRegular
<1>s. PICK S : S = 0..gwConfig.conns OBVIOUS
<1>0. /\ 0 \in S /\ gwConfig.conns \in Nat /\ GwLocals(S)
      /\ GwFieldsOK /\ GwLocksOK /\ GwQueueOK /\ GwWorldOK /\ GwPastOK
  BY <1>i, <1>s DEF GwTyped
<1>a. /\ gw' = [gw EXCEPT !.server = "dead"] /\ gwThread' = ServerCut
      /\ gwPast' = [gwPast EXCEPT !.deaths = @ + 1]
  BY DEF ServerDies
<1>b. GwLocals(S)' /\ UNCHANGED <<GwA, GwAConn, GwU, GwUConn, GwUInt, GwD, GwDConn>>
  <2>1. {"accept", "up", "down", "mon"} \subseteq GwThreads BY DEF GwThreads
  <2>2. \A u \in GwThreads : /\ ServerCut \in [GwThreads -> GwLocal(S)]
                             /\ ServerCut[u].pc = gwThread[u].pc /\ ServerCut[u].conn = gwThread[u].conn
                             /\ ServerCut[u].interrupt = gwThread[u].interrupt
    BY <1>0, GwCutEffect
  <2> QED BY <1>a, <2>1, <2>2 DEF GwLocals, GwA, GwAConn, GwU, GwUConn, GwUInt, GwD, GwDConn
<1>d. gwLock' = gwLock /\ gwQueue' = gwQueue /\ gwWorld' = gwWorld /\ gwConfig' = gwConfig /\ gwTodo' = gwTodo
  BY DEF ServerDies
<1>g. gw'.rfcomm = gw.rfcomm /\ gw'.remote = gw.remote /\ gw'.waiting = gw.waiting /\ gw'.listen = gw.listen
  BY <1>0, <1>a DEF GwFieldsOK
<1>e. /\ GwLocals(S)'
      /\ UNCHANGED <<GwA, GwAConn, GwU, GwUConn, GwUInt, GwD, GwDConn>>
      /\ gw'.rfcomm = gw.rfcomm
      /\ gw'.remote = gw.remote
      /\ gw'.waiting = gw.waiting
      /\ gw'.listen = gw.listen
      /\ gwWorld' = gwWorld
      /\ gwQueue' = gwQueue
      /\ gwLock' = gwLock
      /\ gwConfig' = gwConfig /\ gwTodo' = gwTodo
  BY <1>b, <1>d, <1>g
<1>f. GwListsKept /\ GwTodoOK' /\ (GwCalm' <=> GwCalm) /\ gwConfig' = gwConfig /\ GwPastOK'
  <2>1. GwListsKept /\ (GwTodoOK' <=> GwTodoOK) BY <1>e, GwKept
  <2>2. gwPast'.stale = gwPast.stale BY <1>0, <1>a DEF GwPastOK
  <2>3. GwCalm' <=> GwCalm BY <2>2, GwCalmKept
  <2>4. GwPastOK' BY <1>0, <1>a, <1>e DEF GwPastOK
  <2> QED BY <1>e, <1>i, <2>1, <2>3, <2>4
<1>t. GwTyped'
  <2>1. GwFieldsOK' BY <1>0, <1>a, <1>f DEF GwFieldsOK
  <2>2. GwLocksOK' BY <1>0, <1>e, <1>f DEF GwLocksOK
  <2>3. GwQueueOK' BY <1>0, <1>e, <1>f DEF GwQueueOK, GwConn
  <2>4. GwWorldOK' BY <1>0, <1>e, <1>f DEF GwWorldOK, GwConn
  <2>5. GwLocals(0..gwConfig.conns)' BY <1>e, <1>f, <1>s DEF GwLocals
  <2> QED BY <1>0, <1>e, <1>f, <1>i, <2>1, <2>2, <2>3, <2>4, <2>5 DEF GwTyped
<1>1. GwLocked' BY <1>e, <1>f, <1>i DEF GwListsKept, GwLocked, GwThreads
<1>2. GwClosed' BY <1>e, <1>f, <1>i DEF GwListsKept, GwClosed
<1>3. GwNamed' BY <1>e, <1>f, <1>i DEF GwListsKept, GwNamed
<1>r. GwCalm' => GwOneAtATime' /\ GwServesAllowed' /\ GwOneOpen' /\ GwReports'
  <2> SUFFICES ASSUME GwCalm' PROVE GwOneAtATime' /\ GwServesAllowed' /\ GwOneOpen' /\ GwReports' OBVIOUS
  <2>0. GwOneAtATime /\ GwServesAllowed /\ GwOneOpen /\ GwReports BY <1>f, <1>i
  <2>1. GwOneAtATime'
    BY <1>e, <1>f, <2>0 DEF GwListsKept, GwOneAtATime, GwURuns, GwOver, GwServes, GwBusy, GwFree
  <2>2. GwServesAllowed' BY <1>e, <1>f, <2>0 DEF GwListsKept, GwServesAllowed, GwTaken
  <2>3. GwOneOpen' BY <1>e, <1>f, <2>0 DEF GwListsKept, GwOneOpen
  <2>4. GwReports' BY <1>e, <1>f, <2>0 DEF GwListsKept, GwReports, GwServes
  <2> QED BY <2>1, <2>2, <2>3, <2>4
<1> QED BY <1>1, <1>2, <1>3, <1>f, <1>r, <1>t DEF GwInv, GwRegular

\* The remote side goes away.
LEMMA GwLinkLost ==
  ASSUME GwInv, NEW c, LinkLost(c)
  PROVE  GwInv'
<1>i. /\ GwTyped /\ GwTodoOK /\ GwLocked /\ GwClosed /\ GwNamed
      /\ (GwCalm => GwOneAtATime /\ GwServesAllowed /\ GwOneOpen /\ GwReports)
  BY DEF GwInv, GwRegular
<1>s. PICK S : S = 0..gwConfig.conns OBVIOUS
<1>0. /\ 0 \in S /\ gwConfig.conns \in Nat /\ GwLocals(S)
      /\ GwFieldsOK /\ GwLocksOK /\ GwQueueOK /\ GwWorldOK /\ GwPastOK
  BY <1>i, <1>s DEF GwTyped
<1>a. gwWorld' = [gwWorld EXCEPT !.linked = @ \ {c}] BY DEF LinkLost
<1>d. ThreadOnly /\ gw' = gw /\ gwLock' = gwLock /\ gwQueue' = gwQueue /\ gwThread' = gwThread
  BY DEF LinkLost, ThreadOnly
<1>b. GwLocals(S)' /\ UNCHANGED <<GwA, GwAConn, GwU, GwUConn, GwUInt, GwD, GwDConn>>
  BY <1>0, <1>d DEF GwLocals, GwA, GwAConn, GwU, GwUConn, GwUInt, GwD, GwDConn
<1>g. /\ gwWorld'.adapter = gwWorld.adapter /\ gwWorld'.open = gwWorld.open
      /\ gwWorld'.allowed = gwWorld.allowed /\ gwWorld'.told = gwWorld.told
  BY <1>0, <1>a DEF GwWorldOK
<1>e. /\ ThreadOnly
      /\ GwLocals(S)'
      /\ UNCHANGED <<GwA, GwAConn, GwU, GwUConn, GwUInt, GwD, GwDConn>>
      /\ gw' = gw
      /\ gwWorld'.adapter = gwWorld.adapter
      /\ gwWorld'.open = gwWorld.open
      /\ gwWorld'.allowed = gwWorld.allowed
      /\ gwWorld'.told = gwWorld.told
      /\ gwQueue' = gwQueue
      /\ gwLock' = gwLock
  BY <1>b, <1>d, <1>g
<1>f. GwListsKept /\ GwTodoOK' /\ (GwCalm' <=> GwCalm) /\ gwConfig' = gwConfig /\ GwPastOK'
  BY <1>e, GwThreadFrame
<1>t. GwTyped'
  <2>1. GwFieldsOK' BY <1>0, <1>e, <1>f DEF GwFieldsOK
  <2>2. GwLocksOK' BY <1>0, <1>e, <1>f DEF GwLocksOK
  <2>3. GwQueueOK' BY <1>0, <1>e, <1>f DEF GwQueueOK, GwConn
  <2>4. GwWorldOK' BY <1>0, <1>a, <1>f DEF GwWorldOK, GwConn
  <2>5. GwLocals(0..gwConfig.conns)' BY <1>e, <1>f, <1>s DEF GwLocals
  <2> QED BY <1>0, <1>e, <1>f, <1>i, <2>1, <2>2, <2>3, <2>4, <2>5 DEF GwTyped
<1>1. GwLocked' BY <1>e, <1>f, <1>i DEF GwListsKept, GwLocked, GwThreads
<1>2. GwClosed' BY <1>e, <1>f, <1>i DEF GwListsKept, GwClosed
<1>3. GwNamed' BY <1>e, <1>f, <1>i DEF GwListsKept, GwNamed
<1>r. GwCalm' => GwOneAtATime' /\ GwServesAllowed' /\ GwOneOpen' /\ GwReports'
  <2> SUFFICES ASSUME GwCalm' PROVE GwOneAtATime' /\ GwServesAllowed' /\ GwOneOpen' /\ GwReports' OBVIOUS
  <2>0. GwOneAtATime /\ GwServesAllowed /\ GwOneOpen /\ GwReports BY <1>f, <1>i
  <2>1. GwOneAtATime'
    BY <1>e, <1>f, <2>0 DEF GwListsKept, GwOneAtATime, GwURuns, GwOver, GwServes, GwBusy, GwFree
  <2>2. GwServesAllowed' BY <1>e, <1>f, <2>0 DEF GwListsKept, GwServesAllowed, GwTaken
  <2>3. GwOneOpen' BY <1>e, <1>f, <2>0 DEF GwListsKept, GwOneOpen
  <2>4. GwReports' BY <1>e, <1>f, <2>0 DEF GwListsKept, GwReports, GwServes
  <2> QED BY <2>1, <2>2, <2>3, <2>4
<1> QED BY <1>1, <1>2, <1>3, <1>f, <1>r, <1>t DEF GwInv, GwRegular

\* Every step of the downlink thread and of the monitor.
LEMMA GwDownlinkStep ==
  ASSUME GwInv, DownlinkThread
  PROVE  GwInv'
<1>1. CASE DownlinkCloses
  <2>1. /\ ThreadOnly /\ UNCHANGED <<gwLock, gwQueue>>
        /\ \/ /\ GwD = "end" /\ gw' = [gw EXCEPT !.server = "none"]
              /\ gwThread' = [ServerCut EXCEPT !["down"].pc = "close_rfcomm"] /\ UNCHANGED gwWorld
           \/ /\ GwD = "close_rfcomm" /\ gw' = [gw EXCEPT !.rfcomm = 0]
              /\ Goes("down", "done") /\ gwWorld' = RfcommClosed
    BY <1>1 DEF DownlinkCloses, Pc, GwD
  <2> QED BY <2>1, GwDClosesServer, GwDClosesRfcomm
<1> QED BY <1>1, GwDNoStreams, GwDStreams, GwDHandles, GwDFails, GwMonEnds DEF DownlinkThread

(***************************************************************************)
(* The lists that the handlers put together.                               *)
(***************************************************************************)
\* The lists that handlers begin with.
LEMMA GwCat ==
  ASSUME NEW T, NEW s \in Seq(T), NEW t \in Seq(T)
  PROVE  /\ s \o t \in Seq(T) /\ Len(s \o t) = Len(s) + Len(t)
         /\ \A k \in 1..Len(s) : (s \o t)[k] = s[k]
         /\ \A k \in 1..Len(t) : (s \o t)[Len(s) + k] = t[k]
<1> DEFINE c == s \o t
           m == Len(s)
           n == Len(t)
<1>1. c \in Seq(T) /\ Len(c) = Len(s) + Len(t)
      /\ \A i \in 1..(Len(s) + Len(t)) : c[i] = IF i <= Len(s) THEN s[i] ELSE t[i - Len(s)]
  BY ConcatProperties
<1>0. m \in Nat /\ n \in Nat OBVIOUS
<1> HIDE DEF c
<1>2. Len(c) = m + n /\ \A i \in 1..(m + n) : c[i] = IF i <= m THEN s[i] ELSE t[i - m] BY <1>1
<1> HIDE DEF m, n
<1>3. ASSUME NEW k \in 1..m PROVE c[k] = s[k]
  <2>1. k \in 1..(m + n) /\ k <= m BY <1>0
  <2> QED BY <1>2, <2>1
<1>4. ASSUME NEW k \in 1..n PROVE c[m + k] = t[k]
  <2>1. m + k \in 1..(m + n) /\ ~(m + k <= m) /\ (m + k) - m = k BY <1>0
  <2> QED BY <1>2, <2>1
<1> QED BY <1>1, <1>2, <1>3, <1>4 DEF c, m, n

\* Lists of three steps, ...
LEMMA GwCatThree ==
  ASSUME NEW T, NEW x \in T, NEW y \in T, NEW z \in T
  PROVE  <<x, y>> \o <<z>> = <<x, y, z>> /\ <<x>> \o <<y, z>> = <<x, y, z>>
<1> DEFINE s == <<x, y>> t == <<z>> p == <<x>> q == <<y, z>> u == <<x, y, z>>
<1>1. s \in Seq(T) /\ Len(s) = 2 /\ s[1] = x /\ s[2] = y OBVIOUS
<1>2. t \in Seq(T) /\ Len(t) = 1 /\ t[1] = z OBVIOUS
<1>3. p \in Seq(T) /\ Len(p) = 1 /\ p[1] = x OBVIOUS
<1>4. q \in Seq(T) /\ Len(q) = 2 /\ q[1] = y /\ q[2] = z OBVIOUS
<1>5. u \in Seq(T) /\ Len(u) = 3 /\ u[1] = x /\ u[2] = y /\ u[3] = z OBVIOUS
<1> HIDE DEF s, t, p, q, u
<1>6. s \o t = u
  <2>s. s \in Seq(T) /\ t \in Seq(T) BY <1>1, <1>2
  <2>0. /\ s \o t \in Seq(T) /\ Len(s \o t) = Len(s) + Len(t)
        /\ \A k \in 1..Len(s) : (s \o t)[k] = s[k]
        /\ \A k \in 1..Len(t) : (s \o t)[Len(s) + k] = t[k]
    BY <2>s, GwCat
  <2>1. /\ s \o t \in Seq(T) /\ Len(s \o t) = 2 + 1
        /\ \A k \in 1..2 : (s \o t)[k] = s[k]
        /\ \A k \in 1..1 : (s \o t)[2 + k] = t[k]
    BY <2>0, <1>1, <1>2
  <2> DEFINE c == s \o t
  <2>2. c \in Seq(T) /\ Len(c) = 3 /\ c[1] = x /\ c[2] = y BY <1>1, <2>1
  <2>3. c[2 + 1] = z BY <1>2, <2>1
  <2> HIDE DEF c
  <2>4. c[3] = z BY <2>3
  <2>5. \A k \in 1..Len(c) : c[k] = u[k] BY <1>5, <2>2, <2>4
  <2>6. c = u BY <1>5, <2>2, <2>5, SeqEqual
  <2> QED BY <2>6 DEF c
<1>7. p \o q = u
  <2>s. p \in Seq(T) /\ q \in Seq(T) BY <1>3, <1>4
  <2>0. /\ p \o q \in Seq(T) /\ Len(p \o q) = Len(p) + Len(q)
        /\ \A k \in 1..Len(p) : (p \o q)[k] = p[k]
        /\ \A k \in 1..Len(q) : (p \o q)[Len(p) + k] = q[k]
    BY <2>s, GwCat
  <2>1. /\ p \o q \in Seq(T) /\ Len(p \o q) = 1 + 2
        /\ \A k \in 1..1 : (p \o q)[k] = p[k]
        /\ \A k \in 1..2 : (p \o q)[1 + k] = q[k]
    BY <2>0, <1>3, <1>4
  <2> DEFINE c == p \o q
  <2>2. c \in Seq(T) /\ Len(c) = 3 /\ c[1] = x BY <1>3, <2>1
  <2>3. c[1 + 1] = y /\ c[1 + 2] = z BY <1>4, <2>1
  <2> HIDE DEF c
  <2>4. c[2] = y /\ c[3] = z BY <2>3
  <2>5. \A k \in 1..Len(c) : c[k] = u[k] BY <1>5, <2>2, <2>4
  <2>6. c = u BY <1>5, <2>2, <2>5, SeqEqual
  <2> QED BY <2>6 DEF c
<1> QED BY <1>6, <1>7 DEF s, t, p, q, u

\* ... and of four.
LEMMA GwCatFour ==
  ASSUME NEW T, NEW a \in T, NEW b \in T, NEW c \in T, NEW d \in T
  PROVE  <<a>> \o <<b, c>> \o <<d>> = <<a, b, c, d>>
<1> DEFINE s == <<a, b, c>> t == <<d>> u == <<a, b, c, d>>
<1>1. s \in Seq(T) /\ Len(s) = 3 /\ s[1] = a /\ s[2] = b /\ s[3] = c OBVIOUS
<1>2. t \in Seq(T) /\ Len(t) = 1 /\ t[1] = d OBVIOUS
<1>3. u \in Seq(T) /\ Len(u) = 4 /\ u[1] = a /\ u[2] = b /\ u[3] = c /\ u[4] = d OBVIOUS
<1>4. <<a>> \o <<b, c>> = s BY GwCatThree
<1> HIDE DEF s, t, u
<1>5. s \o t = u
  <2>s. s \in Seq(T) /\ t \in Seq(T) BY <1>1, <1>2
  <2>0. /\ s \o t \in Seq(T) /\ Len(s \o t) = Len(s) + Len(t)
        /\ \A k \in 1..Len(s) : (s \o t)[k] = s[k]
        /\ \A k \in 1..Len(t) : (s \o t)[Len(s) + k] = t[k]
    BY <2>s, GwCat
  <2>1. /\ s \o t \in Seq(T) /\ Len(s \o t) = 3 + 1
        /\ \A k \in 1..3 : (s \o t)[k] = s[k]
        /\ \A k \in 1..1 : (s \o t)[3 + k] = t[k]
    BY <2>0, <1>1, <1>2
  <2> DEFINE e == s \o t
  <2>2. e \in Seq(T) /\ Len(e) = 4 /\ e[1] = a /\ e[2] = b /\ e[3] = c BY <1>1, <2>1
  <2>3. e[3 + 1] = d BY <1>2, <2>1
  <2> HIDE DEF e
  <2>4. e[4] = d BY <2>3
  <2>5. \A k \in 1..Len(e) : e[k] = u[k] BY <1>3, <2>2, <2>4
  <2>6. e = u BY <1>3, <2>2, <2>5, SeqEqual
  <2> QED BY <2>6 DEF e
<1> QED BY <1>4, <1>5 DEF t, u

\* The lists of the handlers, step by step.
LEMMA GwStarts ==
  /\ Restart("up") \o Do("removeTimeouts") = <<GwHalt("up"), GwRenew("up"), GwRemove>>
  /\ Do("closeRfcomm") \o startRfcommListenerThread = <<GwCloseRfcomm, GwHalt("accept"), GwRenew("accept")>>
  /\ Do("closeRfcomm") \o startRfcommListenerThread \o Do("removeTimeouts")
       = <<GwCloseRfcomm, GwHalt("accept"), GwRenew("accept"), GwRemove>>
  /\ startRfcommListenerThread = <<GwHalt("accept"), GwRenew("accept")>>
<1>1. /\ GwHalt("up") \in GwTasks /\ GwRenew("up") \in GwTasks /\ GwHalt("accept") \in GwTasks
      /\ GwRenew("accept") \in GwTasks
      /\ GwRemove \in GwTasks /\ GwCloseRfcomm \in GwTasks
  <2>1. \A w \in GwDoes, t \in GwThreads : GwTask(w, t) \in GwTasks BY DEF GwTask, GwTasks
  <2>2. "up" \in GwThreads /\ "accept" \in GwThreads BY DEF GwThreads
  <2> QED BY <2>1, <2>2 DEF GwHalt, GwRenew, GwRemove, GwCloseRfcomm, GwDoes
<1>2. /\ Restart("up") = <<GwHalt("up"), GwRenew("up")>> /\ Do("removeTimeouts") = <<GwRemove>>
      /\ Do("closeRfcomm") = <<GwCloseRfcomm>>
      /\ startRfcommListenerThread = <<GwHalt("accept"), GwRenew("accept")>>
  BY DEF Restart, Do, startRfcommListenerThread, GwHalt, GwRenew, GwRemove, GwCloseRfcomm, GwTask
<1>3. <<GwHalt("up"), GwRenew("up")>> \o <<GwRemove>> = <<GwHalt("up"), GwRenew("up"), GwRemove>>
  BY <1>1, GwCatThree
<1>4. <<GwCloseRfcomm>> \o <<GwHalt("accept"), GwRenew("accept")>> = <<GwCloseRfcomm, GwHalt("accept"), GwRenew("accept")>>
  BY <1>1, GwCatThree
<1>5. <<GwCloseRfcomm>> \o <<GwHalt("accept"), GwRenew("accept")>> \o <<GwRemove>>
        = <<GwCloseRfcomm, GwHalt("accept"), GwRenew("accept"), GwRemove>>
  BY <1>1, GwCatFour
<1> QED BY <1>2, <1>3, <1>4, <1>5

\* The list of closeService, built up step by step: n steps are there.
GwBegins(s, n) ==
  /\ s \in Seq(GwTasks) /\ Len(s) = n
  /\ \A k \in 1..n : s[k] = GwCloseStep(GwCloseLen - k + 1)

\* A list that begins as closeService does, and one more step; ...
LEMMA GwAddStep ==
  ASSUME NEW n \in Nat, NEW s, GwBegins(s, n), NEW x \in GwTasks,
         x = GwCloseStep(GwCloseLen - n)
  PROVE  GwBegins(s \o <<x>>, n + 1)
<1> DEFINE t == <<x>>
<1>1. s \in Seq(GwTasks) /\ Len(s) = n /\ \A k \in 1..n : s[k] = GwCloseStep(GwCloseLen - k + 1)
  BY DEF GwBegins
<1>2. x \in GwTasks OBVIOUS
<1>3. t \in Seq(GwTasks) /\ Len(t) = 1 /\ t[1] = x BY <1>2
<1> HIDE DEF t
<1>s. s \in Seq(GwTasks) /\ t \in Seq(GwTasks) BY <1>1, <1>3
<1>c. /\ s \o t \in Seq(GwTasks) /\ Len(s \o t) = Len(s) + Len(t)
      /\ \A k \in 1..Len(s) : (s \o t)[k] = s[k]
      /\ \A k \in 1..Len(t) : (s \o t)[Len(s) + k] = t[k]
  BY <1>s, GwCat
<1>4. /\ s \o t \in Seq(GwTasks) /\ Len(s \o t) = n + 1
      /\ \A k \in 1..n : (s \o t)[k] = s[k]
      /\ (s \o t)[n + 1] = x
  BY <1>1, <1>3, <1>c
<1> DEFINE c == s \o t
<1> HIDE DEF c
<1>5. ASSUME NEW k \in 1..(n + 1) PROVE c[k] = GwCloseStep(GwCloseLen - k + 1)
  <2>0. c[n + 1] = x /\ \A i \in 1..n : c[i] = s[i] BY <1>4 DEF c
  <2>1. CASE k \in 1..n
    <3>1. c[k] = s[k] BY <2>0, <2>1
    <3> QED BY <1>1, <2>1, <3>1
  <2>2. CASE k = n + 1
    <3>1. GwCloseLen \in Nat BY DEF GwCloseLen
    <3>2. GwCloseLen - k + 1 = GwCloseLen - n BY <2>2, <3>1
    <3> QED BY <2>0, <2>2, <3>2
  <2>3. k \in 1..n \/ k = n + 1 OBVIOUS
  <2> QED BY <2>1, <2>2, <2>3
<1> QED BY <1>4, <1>5 DEF GwBegins, t, c

\* Concatenation is associative.
LEMMA GwAssoc ==
  ASSUME NEW f \in Seq(GwTasks), NEW g \in Seq(GwTasks), NEW h \in Seq(GwTasks)
  PROVE  (f \o g) \o h = f \o (g \o h)
BY ConcatAssociative, SMTT(60)

\* ... and two more.
LEMMA GwAddSteps ==
  ASSUME NEW n \in Nat, NEW s, GwBegins(s, n), NEW x \in GwTasks,
         NEW y \in GwTasks,
         x = GwCloseStep(GwCloseLen - n), y = GwCloseStep(GwCloseLen - n - 1)
  PROVE  GwBegins(s \o <<x, y>>, n + 2)
<1> DEFINE p == <<x>>
           q == <<y>>
           r == <<x, y>>
<1>1. GwBegins(s \o p, n + 1) BY GwAddStep
<1>2. n + 1 \in Nat /\ n + 1 + 1 = n + 2 OBVIOUS
<1>a. GwCloseLen - (n + 1) = GwCloseLen - n - 1
  <2>1. GwCloseLen \in Nat BY DEF GwCloseLen
  <2> QED BY <2>1
<1>b. y = GwCloseStep(GwCloseLen - (n + 1)) BY <1>a
<1>3. GwBegins((s \o p) \o q, n + 1 + 1) BY <1>1, <1>2, <1>b, GwAddStep
<1>4. (s \o p) \o q = s \o r
  <2>1. s \in Seq(GwTasks) /\ x \in GwTasks /\ y \in GwTasks BY DEF GwBegins
  <2>2. p \in Seq(GwTasks) /\ q \in Seq(GwTasks) BY <2>1
  <2>4. p \o q = r
    <3>1. /\ p \o q \in Seq(GwTasks) /\ Len(p \o q) = Len(p) + Len(q)
          /\ \A k \in 1..Len(p) : (p \o q)[k] = p[k]
          /\ \A k \in 1..Len(q) : (p \o q)[Len(p) + k] = q[k]
      BY <2>2, GwCat
    <3>2. Len(p) = 1 /\ Len(q) = 1 /\ p[1] = x /\ q[1] = y OBVIOUS
    <3>3. r \in Seq(GwTasks) /\ Len(r) = 2 /\ r[1] = x /\ r[2] = y BY <2>1
    <3> HIDE DEF p, q, r
    <3> DEFINE c == p \o q
    <3>4. c \in Seq(GwTasks) /\ Len(c) = 2 /\ c[1] = x /\ c[1 + 1] = y BY <3>1, <3>2
    <3> HIDE DEF c
    <3>5. c[2] = y BY <3>4
    <3>6. \A k \in 1..Len(c) : c[k] = r[k] BY <3>3, <3>4, <3>5
    <3>7. c = r BY <3>3, <3>4, <3>6, SeqEqual
    <3> QED BY <3>7 DEF c
  <2>5. s \in Seq(GwTasks) BY <2>1
  <2> HIDE DEF p, q, r
  <2>3. (s \o p) \o q = s \o (p \o q) BY <2>2, <2>5, GwAssoc
  <2> QED BY <2>3, <2>4
<1> QED BY <1>2, <1>3, <1>4

\* closeService is the list of closeService, but for its last step.
LEMMA GwCloseBegins == GwBegins(closeService, GwCloseLen - 1)
<1> DEFINE L == GwCloseLen
<1>0. L \in {12, 14} /\ (Dun => L = 14) /\ (~Dun => L = 12) BY DEF GwCloseLen
<1>n. L \in Nat /\ L >= 12 BY <1>0
<1>1. \A w \in GwDoes, t \in GwThreads : GwTask(w, t) \in GwTasks BY DEF GwTask, GwTasks
<1>2. {"accept", "up", "down", "mon"} = GwThreads BY DEF GwThreads
<1>3. /\ \A w : Do(w) = <<GwTask(w, "accept")>>
      /\ \A t : ShutDown(t) = <<GwHalt(t), GwTask("join", t)>>
  BY DEF Do, ShutDown, GwHalt, GwTask
<1>4. \A t \in GwThreads : GwHalt(t) \in GwTasks BY <1>1 DEF GwHalt, GwDoes
<1> HIDE DEF L
<1>a. GwBegins(<<>> \o Do("interrupt"), 1)
  <2>1. GwBegins(<<>>, 0) BY DEF GwBegins
  <2>2. GwTask("interrupt", "accept") = GwCloseStep(GwCloseLen - 0) BY <1>0, GwCloseAt DEF L
  <2>3. GwTask("interrupt", "accept") \in GwTasks BY <1>1, <1>2 DEF GwDoes
  <2>4. GwBegins(<<>> \o <<GwTask("interrupt", "accept")>>, 0 + 1) BY <2>1, <2>2, <2>3, GwAddStep
  <2> QED BY <1>3, <2>4
<1>b. GwBegins(Do("interrupt"), 1)
  <2>1. <<>> \o Do("interrupt") = Do("interrupt")
    <3>1. GwTask("interrupt", "accept") \in GwTasks BY <1>1, <1>2 DEF GwDoes
    <3>0. \A x \in GwTasks : <<x>> \in Seq(GwTasks) OBVIOUS
    <3>2. Do("interrupt") \in Seq(GwTasks) BY <1>3, <3>0, <3>1
    <3> QED BY <3>2, ConcatEmptySeq
  <2> QED BY <1>a, <2>1
\* One more step, or a shutdown.
<1>5. ASSUME NEW s, NEW n \in 1..L, GwBegins(s, n), NEW w \in GwDoes, GwCloseStep(L - n) = GwTask(w, "accept")
      PROVE  GwBegins(s \o Do(w), n + 1)
  <2>1. GwTask(w, "accept") \in GwTasks /\ n \in Nat BY <1>0, <1>1, <1>2
  <2>2. GwBegins(s \o <<GwTask(w, "accept")>>, n + 1) BY <1>5, <2>1, GwAddStep DEF L
  <2> QED BY <1>3, <2>2
<1>6. ASSUME NEW s, NEW n \in 1..L, GwBegins(s, n), NEW t \in GwThreads,
             GwCloseStep(L - n) = GwHalt(t), GwCloseStep(L - n - 1) = GwTask("join", t)
      PROVE  GwBegins(s \o ShutDown(t), n + 2)
  <2>1. GwTask("join", t) \in GwTasks /\ GwHalt(t) \in GwTasks /\ n \in Nat BY <1>0, <1>1, <1>4 DEF GwDoes
  <2>2. GwBegins(s \o <<GwHalt(t), GwTask("join", t)>>, n + 2) BY <1>6, <2>1, GwAddSteps DEF L
  <2> QED BY <1>3, <2>2
<1> DEFINE p4 == Do("interrupt") \o Do("closeListen") \o Do("closeRfcomm") \o Do("closeServer")
           p5 == p4 \o (IF Dun THEN ShutDown("mon") ELSE <<>>)
           p6 == p5 \o ShutDown("down")
           p7 == p6 \o ShutDown("up")
           p8 == p7 \o Do("removeStart")
<1>7. GwBegins(p4, 4)
  <2>1. GwCloseStep(L - 1) = GwTask("closeListen", "accept") BY GwCloseAt DEF L
  <2>2. GwCloseStep(L - 2) = GwTask("closeRfcomm", "accept") BY GwCloseAt DEF L
  <2>3. GwCloseStep(L - 3) = GwTask("closeServer", "accept") BY GwCloseAt DEF L
  <2>4. 1 \in 1..L /\ 2 \in 1..L /\ 3 \in 1..L /\ 1 + 1 = 2 /\ 2 + 1 = 3 /\ 3 + 1 = 4 BY <1>0
  <2> DEFINE p2 == Do("interrupt") \o Do("closeListen")
             p3 == p2 \o Do("closeRfcomm")
  <2>5. GwBegins(p2, 1 + 1) BY <1>5, <1>b, <2>1, <2>4 DEF GwDoes
  <2> HIDE DEF p2
  <2>6. GwBegins(p3, 2 + 1) BY <1>5, <2>2, <2>4, <2>5 DEF GwDoes
  <2> HIDE DEF p3
  <2>7. GwBegins(p3 \o Do("closeServer"), 3 + 1) BY <1>5, <2>3, <2>4, <2>6 DEF GwDoes
  <2> QED BY <2>4, <2>7 DEF p2, p3
<1> HIDE DEF p4
<1>8. GwBegins(p5, L - 8)
  <2>1. CASE Dun
    <3>1. 4 \in 1..L /\ L - 4 = 10 /\ L - 4 - 1 = 9 /\ 4 + 2 = L - 8 /\ "mon" \in GwThreads
      BY <1>0, <1>2, <2>1
    <3>2. GwCloseStep(L - 4) = GwHalt("mon") /\ GwCloseStep(L - 4 - 1) = GwTask("join", "mon")
      BY <2>1, <3>1, GwCloseAt
    <3>3. GwBegins(p4 \o ShutDown("mon"), 4 + 2) BY <1>6, <1>7, <3>1, <3>2
    <3> QED BY <2>1, <3>1, <3>3
  <2>2. CASE ~Dun
    <3>1. p4 \o <<>> = p4 BY <1>7, ConcatEmptySeq DEF GwBegins
    <3>2. L - 8 = 4 BY <1>0, <2>2
    <3> QED BY <1>7, <2>2, <3>1, <3>2
  <2> QED BY <2>1, <2>2
<1> HIDE DEF p5
<1>9. GwBegins(p6, L - 6)
  <2>1. L - 8 \in 1..L /\ L - (L - 8) = 8 /\ L - (L - 8) - 1 = 7 /\ L - 8 + 2 = L - 6 BY <1>n
  <2>t. "down" \in GwThreads BY <1>2
  <2>2. GwCloseStep(L - (L - 8)) = GwHalt("down") /\ GwCloseStep(L - (L - 8) - 1) = GwTask("join", "down")
    BY <2>1, GwCloseAt
  <2>3. GwBegins(p5 \o ShutDown("down"), L - 8 + 2) BY <1>6, <1>8, <2>1, <2>2, <2>t
  <2> QED BY <2>1, <2>3
<1> HIDE DEF p6
<1>10. GwBegins(p7, L - 4)
  <2>1. L - 6 \in 1..L /\ L - (L - 6) = 6 /\ L - (L - 6) - 1 = 5 /\ L - 6 + 2 = L - 4 BY <1>n
  <2>t. "up" \in GwThreads BY <1>2
  <2>2. GwCloseStep(L - (L - 6)) = GwHalt("up") /\ GwCloseStep(L - (L - 6) - 1) = GwTask("join", "up")
    BY <2>1, GwCloseAt
  <2>3. GwBegins(p6 \o ShutDown("up"), L - 6 + 2) BY <1>6, <1>9, <2>1, <2>2, <2>t
  <2> QED BY <2>1, <2>3
<1> HIDE DEF p7
<1>11. GwBegins(p8, L - 3)
  <2>1. L - 4 \in 1..L /\ L - (L - 4) = 4 /\ L - 4 + 1 = L - 3 BY <1>n
  <2>2. GwCloseStep(L - (L - 4)) = GwTask("removeStart", "accept") BY <2>1, GwCloseAt
  <2>3. GwBegins(p7 \o Do("removeStart"), L - 4 + 1) BY <1>5, <1>10, <2>1, <2>2 DEF GwDoes
  <2> QED BY <2>1, <2>3
<1> HIDE DEF p8
<1>12. GwBegins(p8 \o ShutDown("accept"), L - 1)
  <2>1. L - 3 \in 1..L /\ L - (L - 3) = 3 /\ L - (L - 3) - 1 = 2 /\ L - 3 + 2 = L - 1 BY <1>n
  <2>t. "accept" \in GwThreads BY <1>2
  <2>2. GwCloseStep(L - (L - 3)) = GwHalt("accept") /\ GwCloseStep(L - (L - 3) - 1) = GwTask("join", "accept")
    BY <2>1, GwCloseAt
  <2>3. GwBegins(p8 \o ShutDown("accept"), L - 3 + 2) BY <1>6, <1>11, <2>1, <2>2, <2>t
  <2> QED BY <2>1, <2>3
<1>13. closeService = p8 \o ShutDown("accept") BY DEF closeService, p8, p7, p6, p5, p4
<1> QED BY <1>12, <1>13 DEF L

\* A handler that closes the service.
LEMMA GwCloseList ==
  ASSUME NEW last \in {"disable", "destroy"}, gwTodo' = closeService \o Do(last), gwConfig' = gwConfig,
         GwLast' = last
  PROVE  GwCloses' /\ Len(gwTodo') = GwCloseLen' /\ gwTodo' # <<>>
<1> DEFINE L == GwCloseLen
           s == closeService
           t == Do(last)
<1>0. L \in {12, 14} /\ GwCloseLen' = L BY DEF GwCloseLen, Dun
<1>1. s \in Seq(GwTasks) /\ Len(s) = L - 1 /\ \A k \in 1..(L - 1) : s[k] = GwCloseStep(L - k + 1)
  BY GwCloseBegins DEF GwBegins
<1>2. t = <<GwTask(last, "accept")>> /\ GwTask(last, "accept") \in GwTasks
  BY DEF Do, GwTask, GwThreads, GwTasks, GwDoes
<1>3. t \in Seq(GwTasks) /\ Len(t) = 1 /\ t[1] = GwTask(last, "accept")
  <2> HIDE DEF t
  <2> QED BY <1>2
<1>4. \A k \in 2..L : GwCloseStep(k)' = GwCloseStep(k)
  BY <1>0 DEF GwCloseStep, GwCloseLen, Dun, GwTask, GwJoin, GwHalt, GwCloseRfcomm
<1>5. GwCloseStep(1)' = GwTask(last, "accept")
  <2>1. (GwCloseStep(1) = GwTask(GwLast, "accept"))' BY GwCloseAt, PTL
  <2> QED BY <2>1 DEF GwTask
<1> HIDE DEF L, s, t
<1>6. s \in Seq(GwTasks) /\ t \in Seq(GwTasks) BY <1>1, <1>3
<1>7. /\ s \o t \in Seq(GwTasks) /\ Len(s \o t) = Len(s) + Len(t)
      /\ \A k \in 1..Len(s) : (s \o t)[k] = s[k]
      /\ \A k \in 1..Len(t) : (s \o t)[Len(s) + k] = t[k]
  BY <1>6, GwCat
<1>8. gwTodo' = s \o t BY DEF s, t
<1>9. /\ gwTodo' \in Seq(GwTasks) /\ Len(gwTodo') = L /\ gwTodo'[L] = GwTask(last, "accept")
      /\ \A k \in 1..(L - 1) : gwTodo'[k] = s[k]
  BY <1>0, <1>1, <1>3, <1>7, <1>8
<1>10. ASSUME NEW k \in 1..L PROVE (gwTodo[k] = GwCloseStep(Len(gwTodo) - k + 1))'
  <2>0. PICK m : m = L - k + 1 OBVIOUS
  <2>1. Len(gwTodo') - k + 1 = m BY <1>9, <2>0
  <2>2. gwTodo'[k] = GwCloseStep(m)'
    <3>1. CASE k = L
      <4>1. m = 1 BY <1>0, <2>0, <3>1
      <4> QED BY <1>5, <1>9, <3>1, <4>1
    <3>2. CASE k \in 1..(L - 1)
      <4>1. m \in 2..L BY <1>0, <2>0, <3>2
      <4>2. gwTodo'[k] = s[k] /\ s[k] = GwCloseStep(L - k + 1) BY <1>1, <1>9, <3>2 DEF L
      <4> QED BY <1>4, <2>0, <4>1, <4>2
    <3>3. k = L \/ k \in 1..(L - 1) BY <1>0
    <3> QED BY <3>1, <3>2, <3>3
  <2> QED BY <2>1, <2>2
<1>11. GwCloses'
  <2>1. \A k \in 1..Len(gwTodo') : (gwTodo[k] = GwCloseStep(Len(gwTodo) - k + 1))' BY <1>9, <1>10
  <2>2. gwTodo' \in Seq(GwTasks) /\ Len(gwTodo') <= GwCloseLen' BY <1>0, <1>9
  <2> QED BY <2>1, <2>2 DEF GwCloses
<1>12. gwTodo' # <<>> BY <1>0, <1>9, EmptySeq
<1> QED BY <1>0, <1>9, <1>11, <1>12

\* The main thread is idle.
LEMMA GwIdle ==
  ASSUME gwTodo = <<>>
  PROVE  GwRests /\ ~GwClosesFirst /\ ~GwRelists /\ ~GwReups /\ GwJoinsNone
<1>1. GwRests /\ GwJoinsNone BY DEF GwRests, GwJoinsNone, GwJoins
<1> QED BY <1>1, GwApart

\* ... has taken up a handler.
LEMMA GwBusyNext ==
  ASSUME GwOn', GwClosesFirst' \/ GwRelists' \/ GwReups' \/ GwRests'
  PROVE  /\ GwTodoOK'
         /\ ~GwNoListen' /\ ~GwNoAccept' /\ ~GwDropped' /\ ~GwDownGone' /\ ~GwUpGone'
         /\ gwWorld'.adapter \notin {"closed", "off"}
         /\ GwClosesFirst' => ~GwRelists' /\ ~GwReups' /\ ~GwRests'
         /\ GwRelists' => ~GwClosesFirst' /\ ~GwReups' /\ ~GwRests'
         /\ GwReups' => ~GwClosesFirst' /\ ~GwRelists' /\ ~GwRests'
         /\ GwRests' => ~GwClosesFirst' /\ ~GwRelists' /\ ~GwReups'
<1>1. gwWorld'.adapter = "on" BY DEF GwOn
<1>2. GwTodoOK' BY <1>1 DEF GwTodoOK
<1>3. ~GwNoListen' /\ ~GwNoAccept' BY <1>1 DEF GwNoListen, GwNoAccept
<1>4. ~GwDropped' /\ ~GwDownGone' /\ ~GwUpGone' BY <1>1 DEF GwDropped, GwDownGone, GwUpGone, GwLeft
<1>5. (/\ GwClosesFirst => ~GwRelists /\ ~GwReups /\ ~GwRests
       /\ GwRelists => ~GwReups /\ ~GwRests
       /\ GwReups => ~GwRests)'
  BY GwApart, PTL
<1> QED BY <1>1, <1>2, <1>3, <1>4, <1>5

\* The handler's list.
LEMMA GwTakesUp ==
  /\ gwTodo' = <<>> => GwRests'
  /\ gwTodo' = Restart("up") \o Do("removeTimeouts") => GwReups'
  /\ gwTodo' = Do("closeRfcomm") \o startRfcommListenerThread => GwClosesFirst'
  /\ gwTodo' = Do("closeRfcomm") \o startRfcommListenerThread \o Do("removeTimeouts") => GwClosesFirst'
  /\ gwTodo' = startRfcommListenerThread => GwRelists'
<1>1. gwTodo' = <<>> => GwRests' BY DEF GwRests
<1>2. gwTodo' = <<GwHalt("up"), GwRenew("up"), GwRemove>> => GwReups' BY DEF GwReups
<1>3. gwTodo' = <<GwCloseRfcomm, GwHalt("accept"), GwRenew("accept")>> => GwClosesFirst' BY DEF GwClosesFirst
<1>4. gwTodo' = <<GwCloseRfcomm, GwHalt("accept"), GwRenew("accept"), GwRemove>> => GwClosesFirst'
  BY DEF GwClosesFirst
<1>5. gwTodo' = <<GwHalt("accept"), GwRenew("accept")>> => GwRelists' BY DEF GwRelists
<1> QED BY <1>1, <1>2, <1>3, <1>4, <1>5, GwStarts

\* It begins with no join.
LEMMA GwNoJoinYet ==
  /\ gwTodo' = <<>> => GwJoinsNone'
  /\ gwTodo' = Restart("up") \o Do("removeTimeouts") => GwJoinsNone'
  /\ gwTodo' = Do("closeRfcomm") \o startRfcommListenerThread => GwJoinsNone'
  /\ gwTodo' = Do("closeRfcomm") \o startRfcommListenerThread \o Do("removeTimeouts") => GwJoinsNone'
  /\ gwTodo' = startRfcommListenerThread => GwJoinsNone'
<1>0. \A w, x : GwTask(w, x).do = w BY DEF GwTask
<1>1. \A w, x : gwTodo' # <<>> /\ Head(gwTodo') = GwTask(w, x) /\ w \notin {"join", "renew"} => GwJoinsNone'
  BY <1>0 DEF GwJoinsNone, GwJoins, GwJoin, GwRenew
<1>2. gwTodo' = <<>> => GwJoinsNone' BY DEF GwJoinsNone, GwJoins
<1>3. ASSUME gwTodo' = <<GwHalt("up"), GwRenew("up"), GwRemove>> PROVE GwJoinsNone'
  <2>1. gwTodo' # <<>> /\ Head(gwTodo') = GwHalt("up") BY <1>3
  <2> QED BY <1>1, <2>1 DEF GwHalt
<1>4. ASSUME gwTodo' = <<GwCloseRfcomm, GwHalt("accept"), GwRenew("accept")>> PROVE GwJoinsNone'
  <2>1. gwTodo' # <<>> /\ Head(gwTodo') = GwCloseRfcomm BY <1>4
  <2> QED BY <1>1, <2>1 DEF GwCloseRfcomm
<1>5. ASSUME gwTodo' = <<GwCloseRfcomm, GwHalt("accept"), GwRenew("accept"), GwRemove>> PROVE GwJoinsNone'
  <2>1. gwTodo' # <<>> /\ Head(gwTodo') = GwCloseRfcomm BY <1>5
  <2> QED BY <1>1, <2>1 DEF GwCloseRfcomm
<1>6. ASSUME gwTodo' = <<GwHalt("accept"), GwRenew("accept")>> PROVE GwJoinsNone'
  <2>1. gwTodo' # <<>> /\ Head(gwTodo') = GwHalt("accept") BY <1>6
  <2> QED BY <1>1, <2>1 DEF GwHalt
<1> QED BY <1>2, <1>3, <1>4, <1>5, <1>6, GwStarts

\* No thread moves.
LEMMA GwSameThreads ==
  ASSUME NEW S, GwLocals(S), gwThread' = gwThread
  PROVE  GwLocals(S)' /\ UNCHANGED <<GwA, GwAConn, GwU, GwUConn, GwUInt, GwD, GwDConn>>
BY DEF GwLocals, GwA, GwAConn, GwU, GwUConn, GwUInt, GwD, GwDConn

\* A link is lost while the user is asked.
LEMMA GwAcl ==
  ASSUME GwInv, AclDisconnected
  PROVE  GwInv'
<1>i. /\ GwTyped /\ GwTodoOK /\ GwLocked /\ GwClosed /\ GwNamed
      /\ (GwCalm => GwOneAtATime /\ GwServesAllowed /\ GwOneOpen /\ GwReports)
  BY DEF GwInv, GwRegular
<1>s. PICK S : S = 0..gwConfig.conns OBVIOUS
<1>0. /\ 0 \in S /\ gwConfig.conns \in Nat /\ GwLocals(S)
      /\ GwFieldsOK /\ GwLocksOK /\ GwQueueOK /\ GwWorldOK /\ GwPastOK
  BY <1>i, <1>s DEF GwTyped
<1>a. /\ gw' = [gw EXCEPT !.interrupted = FALSE] /\ gw.waiting
      /\ gwQueue' = [gwQueue EXCEPT !.timeouts = @ \cup {<<gw.remote, "acl">>}]
  BY DEF AclDisconnected
<1>d. ThreadOnly /\ gwThread' = gwThread /\ gwLock' = gwLock /\ gwWorld' = gwWorld
  BY DEF AclDisconnected, ThreadOnly
<1>b. GwLocals(S)' /\ UNCHANGED <<GwA, GwAConn, GwU, GwUConn, GwUInt, GwD, GwDConn>>
  BY <1>0, <1>d, GwSameThreads
<1>g. gw'.rfcomm = gw.rfcomm /\ gw'.remote = gw.remote /\ gw'.waiting = gw.waiting /\ gw'.listen = gw.listen
  BY <1>0, <1>a DEF GwFieldsOK
<1>q. gwQueue'.start = gwQueue.start BY <1>0, <1>a DEF GwQueueOK
<1>n. gw.remote \in GwConn BY <1>0, <1>a, <1>i DEF GwNamed, GwFieldsOK, GwConn
<1>e. /\ ThreadOnly
      /\ GwLocals(S)'
      /\ UNCHANGED <<GwA, GwAConn, GwU, GwUConn, GwUInt, GwD, GwDConn>>
      /\ gw'.rfcomm = gw.rfcomm
      /\ gw'.remote = gw.remote
      /\ gw'.waiting = gw.waiting
      /\ gw'.listen = gw.listen
      /\ gwWorld' = gwWorld
      /\ gwQueue'.start = gwQueue.start
      /\ gwLock' = gwLock
  BY <1>b, <1>d, <1>g, <1>q
<1>f. GwListsKept /\ GwTodoOK' /\ (GwCalm' <=> GwCalm) /\ gwConfig' = gwConfig /\ GwPastOK'
  BY <1>e, GwThreadFrame
<1>t. GwTyped'
  <2>1. GwFieldsOK' BY <1>0, <1>a, <1>f DEF GwFieldsOK
  <2>2. GwLocksOK' BY <1>0, <1>e, <1>f DEF GwLocksOK
  <2>3. GwQueueOK' BY <1>0, <1>a, <1>f, <1>n DEF GwQueueOK, GwConn
  <2>4. GwWorldOK' BY <1>0, <1>e, <1>f DEF GwWorldOK, GwConn
  <2>5. GwLocals(0..gwConfig.conns)' BY <1>e, <1>f, <1>s DEF GwLocals
  <2> QED BY <1>0, <1>e, <1>f, <1>i, <2>1, <2>2, <2>3, <2>4, <2>5 DEF GwTyped
<1>1. GwLocked' BY <1>e, <1>f, <1>i DEF GwListsKept, GwLocked, GwThreads
<1>2. GwClosed' BY <1>e, <1>f, <1>i DEF GwListsKept, GwClosed
<1>3. GwNamed' BY <1>e, <1>f, <1>i DEF GwListsKept, GwNamed
<1>r. GwCalm' => GwOneAtATime' /\ GwServesAllowed' /\ GwOneOpen' /\ GwReports'
  <2> SUFFICES ASSUME GwCalm' PROVE GwOneAtATime' /\ GwServesAllowed' /\ GwOneOpen' /\ GwReports' OBVIOUS
  <2>0. GwOneAtATime /\ GwServesAllowed /\ GwOneOpen /\ GwReports BY <1>f, <1>i
  <2>1. GwOneAtATime'
    BY <1>e, <1>f, <2>0 DEF GwListsKept, GwOneAtATime, GwURuns, GwOver, GwServes, GwBusy, GwFree
  <2>2. GwServesAllowed' BY <1>e, <1>f, <2>0 DEF GwListsKept, GwServesAllowed, GwTaken
  <2>3. GwOneOpen' BY <1>e, <1>f, <2>0 DEF GwListsKept, GwOneOpen
  <2>4. GwReports' BY <1>e, <1>f, <2>0 DEF GwListsKept, GwReports, GwServes
  <2> QED BY <2>1, <2>2, <2>3, <2>4
<1> QED BY <1>1, <1>2, <1>3, <1>f, <1>r, <1>t DEF GwInv, GwRegular

\* An intent that starts nothing: a bond changes, or Bluetooth is on and the service is not.
LEMMA GwIntent ==
  ASSUME GwInv, UNCHANGED <<gwConfig, gwThread, gwLock, gwTodo>>, GwMarks("untimed"),
         gw' = [gw EXCEPT !.interrupted = FALSE],
         gwQueue' = gwQueue \/ gwQueue' = [gwQueue EXCEPT !.timeouts = {}],
         gwWorld' = gwWorld \/ gwWorld' = [gwWorld EXCEPT !.crashed = TRUE]
  PROVE  GwInv'
<1>i. /\ GwTyped /\ GwTodoOK /\ GwLocked /\ GwClosed /\ GwNamed
      /\ (GwCalm => GwOneAtATime /\ GwServesAllowed /\ GwOneOpen /\ GwReports)
  BY DEF GwInv, GwRegular
<1>s. PICK S : S = 0..gwConfig.conns OBVIOUS
<1>0. /\ 0 \in S /\ gwConfig.conns \in Nat /\ GwLocals(S)
      /\ GwFieldsOK /\ GwLocksOK /\ GwQueueOK /\ GwWorldOK /\ GwPastOK
  BY <1>i, <1>s DEF GwTyped
<1>a. /\ gw' = [gw EXCEPT !.interrupted = FALSE]
      /\ gwQueue' = gwQueue \/ gwQueue' = [gwQueue EXCEPT !.timeouts = {}]
      /\ gwWorld' = gwWorld \/ gwWorld' = [gwWorld EXCEPT !.crashed = TRUE]
  OBVIOUS
<1>d. UNCHANGED <<gwConfig, gwTodo>> /\ gwThread' = gwThread /\ gwLock' = gwLock OBVIOUS
<1>h. /\ gwWorld'.adapter = gwWorld.adapter /\ gwWorld'.open = gwWorld.open
      /\ gwWorld'.allowed = gwWorld.allowed /\ gwWorld'.told = gwWorld.told
  BY <1>0, <1>a DEF GwWorldOK
<1>b. GwLocals(S)' /\ UNCHANGED <<GwA, GwAConn, GwU, GwUConn, GwUInt, GwD, GwDConn>>
  BY <1>0, <1>d, GwSameThreads
<1>g. gw'.rfcomm = gw.rfcomm /\ gw'.remote = gw.remote /\ gw'.waiting = gw.waiting /\ gw'.listen = gw.listen
  BY <1>0, <1>a DEF GwFieldsOK
<1>q. gwQueue'.start = gwQueue.start BY <1>0, <1>a DEF GwQueueOK
<1>e. /\ UNCHANGED <<gwConfig, gwTodo>>
      /\ GwLocals(S)'
      /\ UNCHANGED <<GwA, GwAConn, GwU, GwUConn, GwUInt, GwD, GwDConn>>
      /\ gw'.rfcomm = gw.rfcomm
      /\ gw'.remote = gw.remote
      /\ gw'.waiting = gw.waiting
      /\ gw'.listen = gw.listen
      /\ gwWorld'.adapter = gwWorld.adapter
      /\ gwWorld'.open = gwWorld.open
      /\ gwWorld'.allowed = gwWorld.allowed
      /\ gwWorld'.told = gwWorld.told
      /\ gwQueue'.start = gwQueue.start
      /\ gwLock' = gwLock
  BY <1>b, <1>d, <1>g, <1>h, <1>q
<1>f. GwListsKept /\ GwTodoOK' /\ (GwCalm' <=> GwCalm) /\ gwConfig' = gwConfig /\ GwPastOK'
  BY <1>e, GwMarkFrame
<1>t. GwTyped'
  <2>1. GwFieldsOK' BY <1>0, <1>a, <1>f DEF GwFieldsOK
  <2>2. GwLocksOK' BY <1>0, <1>e, <1>f DEF GwLocksOK
  <2>3. GwQueueOK' BY <1>0, <1>a, <1>f DEF GwQueueOK, GwConn
  <2>4. GwWorldOK' BY <1>0, <1>a, <1>f DEF GwWorldOK, GwConn
  <2>5. GwLocals(0..gwConfig.conns)' BY <1>e, <1>f, <1>s DEF GwLocals
  <2> QED BY <1>0, <1>e, <1>f, <1>i, <2>1, <2>2, <2>3, <2>4, <2>5 DEF GwTyped
<1>1. GwLocked' BY <1>e, <1>f, <1>i DEF GwListsKept, GwLocked, GwThreads
<1>2. GwClosed' BY <1>e, <1>f, <1>i DEF GwListsKept, GwClosed
<1>3. GwNamed' BY <1>e, <1>f, <1>i DEF GwListsKept, GwNamed
<1>r. GwCalm' => GwOneAtATime' /\ GwServesAllowed' /\ GwOneOpen' /\ GwReports'
  <2> SUFFICES ASSUME GwCalm' PROVE GwOneAtATime' /\ GwServesAllowed' /\ GwOneOpen' /\ GwReports' OBVIOUS
  <2>0. GwOneAtATime /\ GwServesAllowed /\ GwOneOpen /\ GwReports BY <1>f, <1>i
  <2>1. GwOneAtATime'
    BY <1>e, <1>f, <2>0 DEF GwListsKept, GwOneAtATime, GwURuns, GwOver, GwServes, GwBusy, GwFree
  <2>2. GwServesAllowed' BY <1>e, <1>f, <2>0 DEF GwListsKept, GwServesAllowed, GwTaken
  <2>3. GwOneOpen' BY <1>e, <1>f, <2>0 DEF GwListsKept, GwOneOpen
  <2>4. GwReports' BY <1>e, <1>f, <2>0 DEF GwListsKept, GwReports, GwServes
  <2> QED BY <2>1, <2>2, <2>3, <2>4
<1> QED BY <1>1, <1>2, <1>3, <1>f, <1>r, <1>t DEF GwInv, GwRegular

\* The three of them.
LEMMA GwIntents ==
  ASSUME GwInv, TurnOnFails \/ TurnOnWithoutConnection \/ BondChanged
  PROVE  GwInv'
<1>1. CASE TurnOnFails
  <2>1. /\ UNCHANGED <<gwConfig, gwThread, gwLock, gwTodo, gwQueue, gwWorld, gwPast>>
        /\ gw' = [gw EXCEPT !.interrupted = FALSE]
    BY <1>1 DEF TurnOnFails
  <2> QED BY <2>1, GwIntent DEF GwMarks
<1>2. CASE TurnOnWithoutConnection
  <2>1. /\ UNCHANGED <<gwConfig, gwThread, gwLock, gwTodo, gwQueue, gwPast>>
        /\ gw' = [gw EXCEPT !.interrupted = FALSE] /\ gwWorld' = [gwWorld EXCEPT !.crashed = TRUE]
    BY <1>2 DEF TurnOnWithoutConnection
  <2> QED BY <2>1, GwIntent DEF GwMarks
<1>3. CASE BondChanged
  <2>1. /\ UNCHANGED <<gwConfig, gwThread, gwLock, gwTodo, gwWorld>>
        /\ gw' = [gw EXCEPT !.interrupted = FALSE] /\ gwQueue' = [gwQueue EXCEPT !.timeouts = {}]
        /\ gwPast' = [gwPast EXCEPT !.stale =
             IF gw.waiting /\ gwQueue.timeouts # {} THEN @ \cup {"untimed"} ELSE @]
    BY <1>3 DEF BondChanged
  <2>2. GwMarks("untimed")
    <3>1. GwPastOK BY DEF GwInv, GwTyped
    <3> QED BY <2>1, <3>1 DEF GwMarks, GwPastOK
  <2> QED BY <2>1, <2>2, GwIntent
<1> QED BY <1>1, <1>2, <1>3

\* A timeout of an earlier wait.
LEMMA GwTimeoutLate ==
  ASSUME GwInv, NEW m, UserTimeout(m), ~gw.waiting
  PROVE  GwInv'
<1>i. /\ GwTyped /\ GwTodoOK /\ GwLocked /\ GwClosed /\ GwNamed
      /\ (GwCalm => GwOneAtATime /\ GwServesAllowed /\ GwOneOpen /\ GwReports)
  BY DEF GwInv, GwRegular
<1>s. PICK S : S = 0..gwConfig.conns OBVIOUS
<1>0. /\ 0 \in S /\ gwConfig.conns \in Nat /\ GwLocals(S)
      /\ GwFieldsOK /\ GwLocksOK /\ GwQueueOK /\ GwWorldOK /\ GwPastOK
  BY <1>i, <1>s DEF GwTyped
<1>a. gw' = [gw EXCEPT !.waiting = FALSE] /\ gwQueue' = [gwQueue EXCEPT !.timeouts = @ \ {m}]
  BY DEF UserTimeout
<1>d. ThreadOnly /\ gwThread' = gwThread /\ gwLock' = gwLock /\ gwWorld' = gwWorld
  BY DEF UserTimeout, ThreadOnly
<1>b. GwLocals(S)' /\ UNCHANGED <<GwA, GwAConn, GwU, GwUConn, GwUInt, GwD, GwDConn>>
  BY <1>0, <1>d, GwSameThreads
<1>g. gw'.rfcomm = gw.rfcomm /\ gw'.remote = gw.remote /\ gw'.waiting = FALSE /\ gw'.listen = gw.listen
  BY <1>0, <1>a DEF GwFieldsOK
<1>q. gwQueue'.start = gwQueue.start BY <1>0, <1>a DEF GwQueueOK
<1>e. /\ ThreadOnly
      /\ GwLocals(S)'
      /\ UNCHANGED <<GwA, GwAConn, GwU, GwUConn, GwUInt, GwD, GwDConn>>
      /\ gw'.rfcomm = gw.rfcomm
      /\ gw'.remote = gw.remote
      /\ gw'.waiting = FALSE
      /\ gw'.listen = gw.listen
      /\ gwWorld' = gwWorld
      /\ gwQueue'.start = gwQueue.start
      /\ gwLock' = gwLock
  BY <1>b, <1>d, <1>g, <1>q
<1>f. GwListsKept /\ GwTodoOK' /\ (GwCalm' <=> GwCalm) /\ gwConfig' = gwConfig /\ GwPastOK'
  BY <1>e, GwThreadFrame
<1>t. GwTyped'
  <2>1. GwFieldsOK' BY <1>0, <1>a, <1>f DEF GwFieldsOK
  <2>2. GwLocksOK' BY <1>0, <1>e, <1>f DEF GwLocksOK
  <2>3. GwQueueOK' BY <1>0, <1>a, <1>f DEF GwQueueOK, GwConn
  <2>4. GwWorldOK' BY <1>0, <1>e, <1>f DEF GwWorldOK, GwConn
  <2>5. GwLocals(0..gwConfig.conns)' BY <1>e, <1>f, <1>s DEF GwLocals
  <2> QED BY <1>0, <1>e, <1>f, <1>i, <2>1, <2>2, <2>3, <2>4, <2>5 DEF GwTyped
<1>1. GwLocked' BY <1>e, <1>f, <1>i DEF GwListsKept, GwLocked, GwThreads
<1>2. GwClosed' BY <1>e, <1>f, <1>i DEF GwListsKept, GwClosed
<1>3. GwNamed' BY <1>e, <1>f, <1>i DEF GwListsKept, GwNamed
<1>r. GwCalm' => GwOneAtATime' /\ GwServesAllowed' /\ GwOneOpen' /\ GwReports'
  <2> SUFFICES ASSUME GwCalm' PROVE GwOneAtATime' /\ GwServesAllowed' /\ GwOneOpen' /\ GwReports' OBVIOUS
  <2>0. GwOneAtATime /\ GwServesAllowed /\ GwOneOpen /\ GwReports BY <1>f, <1>i
  <2>1. GwOneAtATime'
    BY <1>e, <1>f, <2>0 DEF GwListsKept, GwOneAtATime, GwURuns, GwOver, GwServes, GwBusy, GwFree
  <2>2. GwServesAllowed' BY <1>e, <1>f, <2>0 DEF GwListsKept, GwServesAllowed, GwTaken
  <2>3. GwOneOpen' BY <1>e, <1>f, <2>0 DEF GwListsKept, GwOneOpen
  <2>4. GwReports' BY <1>e, <1>f, <2>0 DEF GwListsKept, GwReports, GwServes
  <2> QED BY <2>1, <2>2, <2>3, <2>4
<1> QED BY <1>1, <1>2, <1>3, <1>f, <1>r, <1>t DEF GwInv, GwRegular

\* MESSAGE_START_LISTENER while Bluetooth is off.
LEMMA GwStartOff ==
  ASSUME GwInv, StartListener, ~GwOn
  PROVE  GwInv'
<1>i. /\ GwTyped /\ GwTodoOK /\ GwLocked /\ GwClosed /\ GwNamed
      /\ (GwCalm => GwOneAtATime /\ GwServesAllowed /\ GwOneOpen /\ GwReports)
  BY DEF GwInv, GwRegular
<1>s. PICK S : S = 0..gwConfig.conns OBVIOUS
<1>0. /\ 0 \in S /\ gwConfig.conns \in Nat /\ GwLocals(S)
      /\ GwFieldsOK /\ GwLocksOK /\ GwQueueOK /\ GwWorldOK /\ GwPastOK
  BY <1>i, <1>s DEF GwTyped
<1>a. gwQueue' = [gwQueue EXCEPT !.start = FALSE] BY DEF StartListener
<1>d. ThreadOnly /\ gwThread' = gwThread /\ gwLock' = gwLock /\ gwWorld' = gwWorld /\ gw' = gw
  <2>1. gwTodo' = <<>> /\ gwTodo = <<>> BY DEF StartListener, MainIdle, GwOn
  <2> QED BY <2>1 DEF StartListener, ThreadOnly
<1>b. GwLocals(S)' /\ UNCHANGED <<GwA, GwAConn, GwU, GwUConn, GwUInt, GwD, GwDConn>>
  BY <1>0, <1>d, GwSameThreads
<1>q. gwQueue'.start = FALSE BY <1>0, <1>a DEF GwQueueOK
<1>e. /\ ThreadOnly
      /\ GwLocals(S)'
      /\ UNCHANGED <<GwA, GwAConn, GwU, GwUConn, GwUInt, GwD, GwDConn>>
      /\ gw' = gw
      /\ gwWorld' = gwWorld
      /\ gwQueue'.start = FALSE
      /\ gwLock' = gwLock
  BY <1>b, <1>d, <1>q
<1>f. GwListsKept /\ GwTodoOK' /\ (GwCalm' <=> GwCalm) /\ gwConfig' = gwConfig /\ GwPastOK'
  BY <1>e, GwThreadFrame
<1>t. GwTyped'
  <2>1. GwFieldsOK' BY <1>0, <1>e, <1>f DEF GwFieldsOK
  <2>2. GwLocksOK' BY <1>0, <1>e, <1>f DEF GwLocksOK
  <2>3. GwQueueOK' BY <1>0, <1>a, <1>f DEF GwQueueOK, GwConn
  <2>4. GwWorldOK' BY <1>0, <1>e, <1>f DEF GwWorldOK, GwConn
  <2>5. GwLocals(0..gwConfig.conns)' BY <1>e, <1>f, <1>s DEF GwLocals
  <2> QED BY <1>0, <1>e, <1>f, <1>i, <2>1, <2>2, <2>3, <2>4, <2>5 DEF GwTyped
<1>1. GwLocked' BY <1>e, <1>f, <1>i DEF GwListsKept, GwLocked, GwThreads
<1>2. GwClosed' BY <1>e, <1>f, <1>i DEF GwListsKept, GwClosed
<1>3. GwNamed' BY <1>e, <1>f, <1>i DEF GwListsKept, GwNamed
<1>r. GwCalm' => GwOneAtATime' /\ GwServesAllowed' /\ GwOneOpen' /\ GwReports'
  <2> SUFFICES ASSUME GwCalm' PROVE GwOneAtATime' /\ GwServesAllowed' /\ GwOneOpen' /\ GwReports' OBVIOUS
  <2>0. GwOneAtATime /\ GwServesAllowed /\ GwOneOpen /\ GwReports BY <1>f, <1>i
  <2>1. GwOneAtATime'
    BY <1>e, <1>f, <2>0 DEF GwListsKept, GwOneAtATime, GwURuns, GwOver, GwServes, GwBusy, GwFree
  <2>2. GwServesAllowed' BY <1>e, <1>f, <2>0 DEF GwListsKept, GwServesAllowed, GwTaken
  <2>3. GwOneOpen' BY <1>e, <1>f, <2>0 DEF GwListsKept, GwOneOpen
  <2>4. GwReports' BY <1>e, <1>f, <2>0 DEF GwListsKept, GwReports, GwServes
  <2> QED BY <2>1, <2>2, <2>3, <2>4
<1> QED BY <1>1, <1>2, <1>3, <1>f, <1>r, <1>t DEF GwInv, GwRegular

\* The user did not answer in time.
LEMMA GwTimeout ==
  ASSUME GwInv, NEW m, UserTimeout(m), gw.waiting
  PROVE  GwInv'
<1>i. /\ GwTyped /\ GwTodoOK /\ GwLocked /\ GwClosed /\ GwNamed
      /\ (GwCalm => GwOneAtATime /\ GwServesAllowed /\ GwOneOpen /\ GwReports)
  BY DEF GwInv, GwRegular
<1>s. PICK S : S = 0..gwConfig.conns OBVIOUS
<1>0. /\ 0 \in S /\ gwConfig.conns \in Nat /\ GwLocals(S)
      /\ GwFieldsOK /\ GwLocksOK /\ GwQueueOK /\ GwWorldOK /\ GwPastOK
  BY <1>i, <1>s DEF GwTyped
<1>a. gw' = [gw EXCEPT !.waiting = FALSE] /\ gwQueue' = [gwQueue EXCEPT !.timeouts = @ \ {m}]
  BY DEF UserTimeout
<1>l. gwTodo' = Do("closeRfcomm") \o startRfcommListenerThread BY DEF UserTimeout
<1>d. /\ gwConfig' = gwConfig /\ gwPast' = gwPast /\ gwThread' = gwThread /\ gwLock' = gwLock
      /\ gwWorld' = gwWorld /\ gwTodo = <<>>
  BY DEF UserTimeout, MainIdle
<1>o. GwOn BY <1>0, <1>d, <1>i DEF GwOn, GwTodoOK, GwClosed, GwWorldOK
<1>b. GwLocals(S)' /\ UNCHANGED <<GwA, GwAConn, GwU, GwUConn, GwUInt, GwD, GwDConn>>
  BY <1>0, <1>d, GwSameThreads
<1>g. gw'.rfcomm = gw.rfcomm /\ gw'.remote = gw.remote /\ gw'.waiting = FALSE /\ gw'.listen = gw.listen
  BY <1>0, <1>a DEF GwFieldsOK
<1>q. gwQueue'.start = gwQueue.start BY <1>0, <1>a DEF GwQueueOK
<1>e. /\ GwLocals(S)'
      /\ UNCHANGED <<GwA, GwAConn, GwU, GwUConn, GwUInt, GwD, GwDConn>>
      /\ gw'.rfcomm = gw.rfcomm
      /\ gw'.remote = gw.remote
      /\ gw'.waiting = FALSE /\ gw.waiting
      /\ gw'.listen = gw.listen
      /\ gwWorld' = gwWorld
      /\ gwQueue'.start = gwQueue.start
      /\ gwLock' = gwLock
  BY <1>b, <1>d, <1>g, <1>q
<1>f. /\ GwOn /\ GwOn' /\ (Dun' <=> Dun) /\ GwTodoOK' /\ gwConfig' = gwConfig /\ GwPastOK'
      /\ (GwCalm' <=> GwCalm)
      /\ GwRests /\ ~GwClosesFirst /\ ~GwRelists /\ ~GwReups
      /\ GwClosesFirst' /\ ~GwRelists' /\ ~GwReups' /\ ~GwRests'
      /\ \A t \in GwThreads : ~GwJoins(t) /\ ~GwJoins(t)'
      /\ ~GwNoListen' /\ ~GwNoAccept' /\ ~GwDropped' /\ ~GwDownGone' /\ ~GwUpGone'
      /\ gwWorld'.adapter \notin {"closed", "off"}
  <2>1. GwRests /\ ~GwClosesFirst /\ ~GwRelists /\ ~GwReups /\ GwJoinsNone BY <1>d, GwIdle
  <2>2. GwClosesFirst' /\ GwJoinsNone' BY <1>l, GwTakesUp, GwNoJoinYet
  <2>3. GwOn /\ GwOn' /\ (Dun' <=> Dun) /\ gwConfig' = gwConfig BY <1>d, <1>e, <1>o DEF GwOn, Dun
  <2>4. /\ GwTodoOK' /\ GwClosesFirst' /\ ~GwRelists' /\ ~GwReups' /\ ~GwRests'
        /\ ~GwNoListen' /\ ~GwNoAccept' /\ ~GwDropped' /\ ~GwDownGone' /\ ~GwUpGone'
        /\ gwWorld'.adapter \notin {"closed", "off"}
    BY <2>2, <2>3, GwBusyNext
  <2>5. GwPastOK' BY <1>0, <1>d DEF GwPastOK
  <2>6. (GwCalm' <=> GwCalm) BY <1>d, GwCalmKept
  <2> QED BY <2>1, <2>2, <2>3, <2>4, <2>5, <2>6 DEF GwJoinsNone
<1>t. GwTyped'
  <2>1. GwFieldsOK' BY <1>0, <1>a, <1>f DEF GwFieldsOK
  <2>2. GwLocksOK' BY <1>0, <1>e, <1>f DEF GwLocksOK
  <2>3. GwQueueOK' BY <1>0, <1>a, <1>f DEF GwQueueOK, GwConn
  <2>4. GwWorldOK' BY <1>0, <1>e, <1>f DEF GwWorldOK, GwConn
  <2>5. GwLocals(0..gwConfig.conns)' BY <1>e, <1>f, <1>s DEF GwLocals
  <2> QED BY <1>0, <1>e, <1>f, <1>i, <2>1, <2>2, <2>3, <2>4, <2>5 DEF GwTyped
<1>1. GwLocked' BY <1>e, <1>f, <1>i DEF GwListsKept, GwLocked, GwThreads
<1>2. GwClosed' BY <1>e, <1>f, <1>i DEF GwListsKept, GwClosed
<1>3. GwNamed' BY <1>e, <1>f, <1>i DEF GwListsKept, GwNamed
<1>r. GwCalm' => GwOneAtATime' /\ GwServesAllowed' /\ GwOneOpen' /\ GwReports'
  <2> SUFFICES ASSUME GwCalm' PROVE GwOneAtATime' /\ GwServesAllowed' /\ GwOneOpen' /\ GwReports' OBVIOUS
  <2>0. GwOneAtATime /\ GwServesAllowed /\ GwOneOpen /\ GwReports BY <1>f, <1>i
  <2>1. GwOneAtATime'
    BY <1>e, <1>f, <2>0 DEF GwListsKept, GwOneAtATime, GwURuns, GwOver, GwServes, GwBusy, GwFree
  <2>2. GwServesAllowed' BY <1>e, <1>f, <2>0 DEF GwListsKept, GwServesAllowed, GwTaken
  <2>3. GwOneOpen' BY <1>e, <1>f, <2>0 DEF GwListsKept, GwOneOpen
  <2>4. GwReports' BY <1>e, <1>f, <2>0 DEF GwListsKept, GwReports, GwServes
  <2> QED BY <2>1, <2>2, <2>3, <2>4
<1> QED BY <1>1, <1>2, <1>3, <1>f, <1>r, <1>t DEF GwInv, GwRegular

\* MESSAGE_START_LISTENER.
LEMMA GwStartOn ==
  ASSUME GwInv, StartListener, GwOn
  PROVE  GwInv'
<1>i. /\ GwTyped /\ GwTodoOK /\ GwLocked /\ GwClosed /\ GwNamed
      /\ (GwCalm => GwOneAtATime /\ GwServesAllowed /\ GwOneOpen /\ GwReports)
  BY DEF GwInv, GwRegular
<1>s. PICK S : S = 0..gwConfig.conns OBVIOUS
<1>0. /\ 0 \in S /\ gwConfig.conns \in Nat /\ GwLocals(S)
      /\ GwFieldsOK /\ GwLocksOK /\ GwQueueOK /\ GwWorldOK /\ GwPastOK
  BY <1>i, <1>s DEF GwTyped
<1>a. gwQueue' = [gwQueue EXCEPT !.start = FALSE] /\ gwQueue.start BY DEF StartListener
<1>l. gwTodo' = startRfcommListenerThread BY DEF StartListener, GwOn
<1>d. /\ gwConfig' = gwConfig /\ gwPast' = gwPast /\ gwThread' = gwThread /\ gwLock' = gwLock
      /\ gwWorld' = gwWorld /\ gwTodo = <<>>
      /\ gw' = gw
  BY DEF StartListener, MainIdle
<1>o. GwOn OBVIOUS
<1>b. GwLocals(S)' /\ UNCHANGED <<GwA, GwAConn, GwU, GwUConn, GwUInt, GwD, GwDConn>>
  BY <1>0, <1>d, GwSameThreads
<1>q. gwQueue'.start = FALSE BY <1>0, <1>a DEF GwQueueOK
<1>e. /\ GwLocals(S)'
      /\ UNCHANGED <<GwA, GwAConn, GwU, GwUConn, GwUInt, GwD, GwDConn>>
      /\ gw' = gw
      /\ gwWorld' = gwWorld
      /\ gwQueue'.start = FALSE /\ gwQueue.start
      /\ gwLock' = gwLock
  BY <1>a, <1>b, <1>d, <1>q
<1>f. /\ GwOn /\ GwOn' /\ (Dun' <=> Dun) /\ GwTodoOK' /\ gwConfig' = gwConfig /\ GwPastOK'
      /\ (GwCalm' <=> GwCalm)
      /\ GwRests /\ ~GwClosesFirst /\ ~GwRelists /\ ~GwReups
      /\ GwRelists' /\ ~GwClosesFirst' /\ ~GwReups' /\ ~GwRests'
      /\ \A t \in GwThreads : ~GwJoins(t) /\ ~GwJoins(t)'
      /\ ~GwNoListen' /\ ~GwNoAccept' /\ ~GwDropped' /\ ~GwDownGone' /\ ~GwUpGone'
      /\ gwWorld'.adapter \notin {"closed", "off"}
  <2>1. GwRests /\ ~GwClosesFirst /\ ~GwRelists /\ ~GwReups /\ GwJoinsNone BY <1>d, GwIdle
  <2>2. GwRelists' /\ GwJoinsNone' BY <1>l, GwTakesUp, GwNoJoinYet
  <2>3. GwOn /\ GwOn' /\ (Dun' <=> Dun) /\ gwConfig' = gwConfig BY <1>d, <1>e, <1>o DEF GwOn, Dun
  <2>4. /\ GwTodoOK' /\ GwRelists' /\ ~GwClosesFirst' /\ ~GwReups' /\ ~GwRests'
        /\ ~GwNoListen' /\ ~GwNoAccept' /\ ~GwDropped' /\ ~GwDownGone' /\ ~GwUpGone'
        /\ gwWorld'.adapter \notin {"closed", "off"}
    BY <2>2, <2>3, GwBusyNext
  <2>5. GwPastOK' BY <1>0, <1>d DEF GwPastOK
  <2>6. (GwCalm' <=> GwCalm) BY <1>d, GwCalmKept
  <2> QED BY <2>1, <2>2, <2>3, <2>4, <2>5, <2>6 DEF GwJoinsNone
<1>t. GwTyped'
  <2>1. GwFieldsOK' BY <1>0, <1>e, <1>f DEF GwFieldsOK
  <2>2. GwLocksOK' BY <1>0, <1>e, <1>f DEF GwLocksOK
  <2>3. GwQueueOK' BY <1>0, <1>a, <1>f DEF GwQueueOK, GwConn
  <2>4. GwWorldOK' BY <1>0, <1>e, <1>f DEF GwWorldOK, GwConn
  <2>5. GwLocals(0..gwConfig.conns)' BY <1>e, <1>f, <1>s DEF GwLocals
  <2> QED BY <1>0, <1>e, <1>f, <1>i, <2>1, <2>2, <2>3, <2>4, <2>5 DEF GwTyped
<1>1. GwLocked' BY <1>e, <1>f, <1>i DEF GwListsKept, GwLocked, GwThreads
<1>2. GwClosed' BY <1>e, <1>f, <1>i DEF GwListsKept, GwClosed
<1>3. GwNamed' BY <1>e, <1>f, <1>i DEF GwListsKept, GwNamed
<1>r. GwCalm' => GwOneAtATime' /\ GwServesAllowed' /\ GwOneOpen' /\ GwReports'
  <2> SUFFICES ASSUME GwCalm' PROVE GwOneAtATime' /\ GwServesAllowed' /\ GwOneOpen' /\ GwReports' OBVIOUS
  <2>0. GwOneAtATime /\ GwServesAllowed /\ GwOneOpen /\ GwReports BY <1>f, <1>i
  <2>1. GwOneAtATime'
    BY <1>e, <1>f, <2>0 DEF GwListsKept, GwOneAtATime, GwURuns, GwOver, GwServes, GwBusy, GwFree
  <2>2. GwServesAllowed' BY <1>e, <1>f, <2>0 DEF GwListsKept, GwServesAllowed, GwTaken
  <2>3. GwOneOpen' BY <1>e, <1>f, <2>0 DEF GwListsKept, GwOneOpen
  <2>4. GwReports' BY <1>e, <1>f, <2>0 DEF GwListsKept, GwReports, GwServes
  <2> QED BY <2>1, <2>2, <2>3, <2>4
<1> QED BY <1>1, <1>2, <1>3, <1>f, <1>r, <1>t DEF GwInv, GwRegular

\* The user allows the access.
LEMMA GwAllowed ==
  ASSUME GwInv, NEW c, AccessAllowed(c), gw.waiting
  PROVE  GwInv'
<1>i. /\ GwTyped /\ GwTodoOK /\ GwLocked /\ GwClosed /\ GwNamed
      /\ (GwCalm => GwOneAtATime /\ GwServesAllowed /\ GwOneOpen /\ GwReports)
  BY DEF GwInv, GwRegular
<1>s. PICK S : S = 0..gwConfig.conns OBVIOUS
<1>0. /\ 0 \in S /\ gwConfig.conns \in Nat /\ GwLocals(S)
      /\ GwFieldsOK /\ GwLocksOK /\ GwQueueOK /\ GwWorldOK /\ GwPastOK
  BY <1>i, <1>s DEF GwTyped
<1>l. gwTodo' = Restart("up") \o Do("removeTimeouts") BY DEF AccessAllowed
<1>p. gwPast' = [gwPast EXCEPT !.stale = IF gw.waiting /\ gw.remote = c THEN @ ELSE @ \cup {"answer"}]
  BY DEF AccessAllowed, Answers
<1>a. gw' = [gw EXCEPT !.interrupted = FALSE, !.waiting = FALSE] BY DEF AccessAllowed
<1>w. gwWorld' = [gwWorld EXCEPT !.asked = @ \ {c}, !.allowed = @ \cup {c}] BY DEF AccessAllowed
<1>o. GwOn /\ c \in GwConn BY <1>0 DEF AccessAllowed, Answers, GwOn, GwWorldOK
<1>d. gwConfig' = gwConfig /\ gwThread' = gwThread /\ gwLock' = gwLock /\ gwQueue' = gwQueue /\ gwTodo = <<>>
  BY DEF AccessAllowed, Answers, MainIdle
<1>h. /\ gwWorld'.adapter = gwWorld.adapter /\ gwWorld'.open = gwWorld.open
      /\ gwWorld'.allowed = gwWorld.allowed \cup {c} /\ gwWorld'.told = gwWorld.told
  BY <1>0, <1>w DEF GwWorldOK
<1>b. GwLocals(S)' /\ UNCHANGED <<GwA, GwAConn, GwU, GwUConn, GwUInt, GwD, GwDConn>>
  BY <1>0, <1>d, GwSameThreads
<1>g. gw'.rfcomm = gw.rfcomm /\ gw'.remote = gw.remote /\ gw'.waiting = FALSE /\ gw'.listen = gw.listen
  BY <1>0, <1>a DEF GwFieldsOK
<1>e. /\ GwLocals(S)'
      /\ UNCHANGED <<GwA, GwAConn, GwU, GwUConn, GwUInt, GwD, GwDConn>>
      /\ gw'.rfcomm = gw.rfcomm
      /\ gw'.remote = gw.remote
      /\ gw'.waiting = FALSE
      /\ gw'.listen = gw.listen
      /\ gwWorld'.adapter = gwWorld.adapter
      /\ gwWorld'.open = gwWorld.open
      /\ gwWorld'.allowed = gwWorld.allowed \cup {c}
      /\ gwWorld'.told = gwWorld.told
      /\ gwQueue' = gwQueue
      /\ gwLock' = gwLock
  BY <1>b, <1>d, <1>g, <1>h
<1>f. /\ GwOn /\ GwOn' /\ (Dun' <=> Dun) /\ GwTodoOK' /\ gwConfig' = gwConfig /\ GwPastOK'
      /\ (GwCalm' => GwCalm /\ gw.waiting /\ gw.remote = c)
      /\ GwRests /\ ~GwClosesFirst /\ ~GwRelists /\ ~GwReups
      /\ GwReups' /\ ~GwClosesFirst' /\ ~GwRelists' /\ ~GwRests'
      /\ \A t \in GwThreads : ~GwJoins(t) /\ ~GwJoins(t)'
      /\ ~GwNoListen' /\ ~GwNoAccept' /\ ~GwDropped' /\ ~GwDownGone' /\ ~GwUpGone'
      /\ gwWorld'.adapter \notin {"closed", "off"}
  <2>1. GwRests /\ ~GwClosesFirst /\ ~GwRelists /\ ~GwReups /\ GwJoinsNone BY <1>d, GwIdle
  <2>2. GwReups' /\ GwJoinsNone' BY <1>l, GwTakesUp, GwNoJoinYet
  <2>3. GwOn /\ GwOn' /\ (Dun' <=> Dun) /\ gwConfig' = gwConfig BY <1>d, <1>e, <1>o DEF GwOn, Dun
  <2>4. /\ GwTodoOK' /\ GwReups' /\ ~GwClosesFirst' /\ ~GwRelists' /\ ~GwRests'
        /\ ~GwNoListen' /\ ~GwNoAccept' /\ ~GwDropped' /\ ~GwDownGone' /\ ~GwUpGone'
        /\ gwWorld'.adapter \notin {"closed", "off"}
    BY <2>2, <2>3, GwBusyNext
  <2>5. GwPastOK' BY <1>0, <1>d, <1>p DEF GwPastOK
  <2>6. (GwCalm' => GwCalm /\ gw.waiting /\ gw.remote = c) BY <1>0, <1>p DEF GwCalm, GwOdd, GwPastOK
  <2> QED BY <2>1, <2>2, <2>3, <2>4, <2>5, <2>6 DEF GwJoinsNone
<1>t. GwTyped'
  <2>1. GwFieldsOK' BY <1>0, <1>a, <1>f DEF GwFieldsOK
  <2>2. GwLocksOK' BY <1>0, <1>e, <1>f DEF GwLocksOK
  <2>3. GwQueueOK' BY <1>0, <1>e, <1>f DEF GwQueueOK, GwConn
  <2>4. GwWorldOK' BY <1>0, <1>f, <1>o, <1>w DEF GwWorldOK, GwConn
  <2>5. GwLocals(0..gwConfig.conns)' BY <1>e, <1>f, <1>s DEF GwLocals
  <2> QED BY <1>0, <1>e, <1>f, <1>i, <2>1, <2>2, <2>3, <2>4, <2>5 DEF GwTyped
<1>1. GwLocked' BY <1>e, <1>f, <1>i DEF GwListsKept, GwLocked, GwThreads
<1>2. GwClosed' BY <1>e, <1>f, <1>i DEF GwListsKept, GwClosed
<1>3. GwNamed' BY <1>e, <1>f, <1>i DEF GwListsKept, GwNamed
<1>r. GwCalm' => GwOneAtATime' /\ GwServesAllowed' /\ GwOneOpen' /\ GwReports'
  <2> SUFFICES ASSUME GwCalm' PROVE GwOneAtATime' /\ GwServesAllowed' /\ GwOneOpen' /\ GwReports' OBVIOUS
  <2>0. GwOneAtATime /\ GwServesAllowed /\ GwOneOpen /\ GwReports BY <1>f, <1>i
  <2>1. GwOneAtATime'
    BY <1>e, <1>f, <2>0 DEF GwListsKept, GwOneAtATime, GwURuns, GwOver, GwServes, GwBusy, GwFree
  <2>2. GwServesAllowed'
    BY <1>e, <1>f, <2>0
       DEF GwListsKept, GwServesAllowed, GwTaken, GwOneAtATime, GwURuns, GwOver, GwServes, GwBusy, GwFree
  <2>3. GwOneOpen' BY <1>e, <1>f, <2>0 DEF GwListsKept, GwOneOpen
  <2>4. GwReports' BY <1>e, <1>f, <2>0 DEF GwListsKept, GwReports, GwServes
  <2> QED BY <2>1, <2>2, <2>3, <2>4
<1> QED BY <1>1, <1>2, <1>3, <1>f, <1>r, <1>t DEF GwInv, GwRegular

\* The answer is not for us.
LEMMA GwAllowedLate ==
  ASSUME GwInv, NEW c, AccessAllowed(c), ~gw.waiting
  PROVE  GwInv'
<1>i. /\ GwTyped /\ GwTodoOK /\ GwLocked /\ GwClosed /\ GwNamed
      /\ (GwCalm => GwOneAtATime /\ GwServesAllowed /\ GwOneOpen /\ GwReports)
  BY DEF GwInv, GwRegular
<1>s. PICK S : S = 0..gwConfig.conns OBVIOUS
<1>0. /\ 0 \in S /\ gwConfig.conns \in Nat /\ GwLocals(S)
      /\ GwFieldsOK /\ GwLocksOK /\ GwQueueOK /\ GwWorldOK /\ GwPastOK
  BY <1>i, <1>s DEF GwTyped
<1>l. gwTodo' = <<>> BY DEF AccessAllowed
<1>p. gwPast' = [gwPast EXCEPT !.stale = IF gw.waiting /\ gw.remote = c THEN @ ELSE @ \cup {"answer"}]
  BY DEF AccessAllowed, Answers
<1>a. gw' = [gw EXCEPT !.interrupted = FALSE, !.waiting = FALSE] BY DEF AccessAllowed
<1>w. gwWorld' = [gwWorld EXCEPT !.asked = @ \ {c}, !.allowed = @ \cup {c}] BY DEF AccessAllowed
<1>o. GwOn /\ c \in GwConn BY <1>0 DEF AccessAllowed, Answers, GwOn, GwWorldOK
<1>d. gwConfig' = gwConfig /\ gwThread' = gwThread /\ gwLock' = gwLock /\ gwQueue' = gwQueue /\ gwTodo = <<>>
  BY DEF AccessAllowed, Answers, MainIdle
<1>h. /\ gwWorld'.adapter = gwWorld.adapter /\ gwWorld'.open = gwWorld.open
      /\ gwWorld'.allowed = gwWorld.allowed \cup {c} /\ gwWorld'.told = gwWorld.told
  BY <1>0, <1>w DEF GwWorldOK
<1>b. GwLocals(S)' /\ UNCHANGED <<GwA, GwAConn, GwU, GwUConn, GwUInt, GwD, GwDConn>>
  BY <1>0, <1>d, GwSameThreads
<1>g. gw'.rfcomm = gw.rfcomm /\ gw'.remote = gw.remote /\ gw'.waiting = FALSE /\ gw'.listen = gw.listen
  BY <1>0, <1>a DEF GwFieldsOK
<1>e. /\ GwLocals(S)'
      /\ UNCHANGED <<GwA, GwAConn, GwU, GwUConn, GwUInt, GwD, GwDConn>>
      /\ gw'.rfcomm = gw.rfcomm
      /\ gw'.remote = gw.remote
      /\ gw'.waiting = FALSE
      /\ gw'.listen = gw.listen
      /\ gwWorld'.adapter = gwWorld.adapter
      /\ gwWorld'.open = gwWorld.open
      /\ gwWorld'.allowed = gwWorld.allowed \cup {c}
      /\ gwWorld'.told = gwWorld.told
      /\ gwQueue' = gwQueue
      /\ gwLock' = gwLock
  BY <1>b, <1>d, <1>g, <1>h
<1>f. /\ GwOn /\ GwOn' /\ (Dun' <=> Dun) /\ GwTodoOK' /\ gwConfig' = gwConfig /\ GwPastOK'
      /\ (GwCalm' => GwCalm /\ gw.waiting /\ gw.remote = c)
      /\ GwRests /\ ~GwClosesFirst /\ ~GwRelists /\ ~GwReups
      /\ GwRests' /\ ~GwClosesFirst' /\ ~GwRelists' /\ ~GwReups'
      /\ \A t \in GwThreads : ~GwJoins(t) /\ ~GwJoins(t)'
      /\ ~GwNoListen' /\ ~GwNoAccept' /\ ~GwDropped' /\ ~GwDownGone' /\ ~GwUpGone'
      /\ gwWorld'.adapter \notin {"closed", "off"}
  <2>1. GwRests /\ ~GwClosesFirst /\ ~GwRelists /\ ~GwReups /\ GwJoinsNone BY <1>d, GwIdle
  <2>2. GwRests' /\ GwJoinsNone' BY <1>l, GwTakesUp, GwNoJoinYet
  <2>3. GwOn /\ GwOn' /\ (Dun' <=> Dun) /\ gwConfig' = gwConfig BY <1>d, <1>e, <1>o DEF GwOn, Dun
  <2>4. /\ GwTodoOK' /\ GwRests' /\ ~GwClosesFirst' /\ ~GwRelists' /\ ~GwReups'
        /\ ~GwNoListen' /\ ~GwNoAccept' /\ ~GwDropped' /\ ~GwDownGone' /\ ~GwUpGone'
        /\ gwWorld'.adapter \notin {"closed", "off"}
    BY <2>2, <2>3, GwBusyNext
  <2>5. GwPastOK' BY <1>0, <1>d, <1>p DEF GwPastOK
  <2>6. (GwCalm' => GwCalm /\ gw.waiting /\ gw.remote = c) BY <1>0, <1>p DEF GwCalm, GwOdd, GwPastOK
  <2> QED BY <2>1, <2>2, <2>3, <2>4, <2>5, <2>6 DEF GwJoinsNone
<1>t. GwTyped'
  <2>1. GwFieldsOK' BY <1>0, <1>a, <1>f DEF GwFieldsOK
  <2>2. GwLocksOK' BY <1>0, <1>e, <1>f DEF GwLocksOK
  <2>3. GwQueueOK' BY <1>0, <1>e, <1>f DEF GwQueueOK, GwConn
  <2>4. GwWorldOK' BY <1>0, <1>f, <1>o, <1>w DEF GwWorldOK, GwConn
  <2>5. GwLocals(0..gwConfig.conns)' BY <1>e, <1>f, <1>s DEF GwLocals
  <2> QED BY <1>0, <1>e, <1>f, <1>i, <2>1, <2>2, <2>3, <2>4, <2>5 DEF GwTyped
<1>1. GwLocked' BY <1>e, <1>f, <1>i DEF GwListsKept, GwLocked, GwThreads
<1>2. GwClosed' BY <1>e, <1>f, <1>i DEF GwListsKept, GwClosed
<1>3. GwNamed' BY <1>e, <1>f, <1>i DEF GwListsKept, GwNamed
<1>r. GwCalm' => GwOneAtATime' /\ GwServesAllowed' /\ GwOneOpen' /\ GwReports'
  <2> SUFFICES ASSUME GwCalm' PROVE GwOneAtATime' /\ GwServesAllowed' /\ GwOneOpen' /\ GwReports' OBVIOUS
  <2>0. GwOneAtATime /\ GwServesAllowed /\ GwOneOpen /\ GwReports BY <1>f, <1>i
  <2>1. GwOneAtATime'
    BY <1>e, <1>f, <2>0 DEF GwListsKept, GwOneAtATime, GwURuns, GwOver, GwServes, GwBusy, GwFree
  <2>2. GwServesAllowed'
    BY <1>e, <1>f, <2>0
       DEF GwListsKept, GwServesAllowed, GwTaken, GwOneAtATime, GwURuns, GwOver, GwServes, GwBusy, GwFree
  <2>3. GwOneOpen' BY <1>e, <1>f, <2>0 DEF GwListsKept, GwOneOpen
  <2>4. GwReports' BY <1>e, <1>f, <2>0 DEF GwListsKept, GwReports, GwServes
  <2> QED BY <2>1, <2>2, <2>3, <2>4
<1> QED BY <1>1, <1>2, <1>3, <1>f, <1>r, <1>t DEF GwInv, GwRegular

\* The user refuses the access.
LEMMA GwDisallowed ==
  ASSUME GwInv, NEW c, AccessDisallowed(c)
  PROVE  GwInv'
<1>i. /\ GwTyped /\ GwTodoOK /\ GwLocked /\ GwClosed /\ GwNamed
      /\ (GwCalm => GwOneAtATime /\ GwServesAllowed /\ GwOneOpen /\ GwReports)
  BY DEF GwInv, GwRegular
<1>s. PICK S : S = 0..gwConfig.conns OBVIOUS
<1>0. /\ 0 \in S /\ gwConfig.conns \in Nat /\ GwLocals(S)
      /\ GwFieldsOK /\ GwLocksOK /\ GwQueueOK /\ GwWorldOK /\ GwPastOK
  BY <1>i, <1>s DEF GwTyped
<1>l. gwTodo' = Do("closeRfcomm") \o startRfcommListenerThread \o Do("removeTimeouts") BY DEF AccessDisallowed
<1>p. gwPast' = [gwPast EXCEPT !.stale = IF gw.waiting /\ gw.remote = c THEN @ ELSE @ \cup {"answer"}]
  BY DEF AccessDisallowed, Answers
<1>a. gw' = [gw EXCEPT !.interrupted = FALSE, !.waiting = FALSE] BY DEF AccessDisallowed
<1>w. gwWorld' = [gwWorld EXCEPT !.asked = @ \ {c}] BY DEF AccessDisallowed
<1>o. GwOn /\ c \in GwConn BY <1>0 DEF AccessDisallowed, Answers, GwOn, GwWorldOK
<1>d. gwConfig' = gwConfig /\ gwThread' = gwThread /\ gwLock' = gwLock /\ gwQueue' = gwQueue /\ gwTodo = <<>>
  BY DEF AccessDisallowed, Answers, MainIdle
<1>h. /\ gwWorld'.adapter = gwWorld.adapter /\ gwWorld'.open = gwWorld.open
      /\ gwWorld'.allowed = gwWorld.allowed /\ gwWorld'.told = gwWorld.told
  BY <1>0, <1>w DEF GwWorldOK
<1>b. GwLocals(S)' /\ UNCHANGED <<GwA, GwAConn, GwU, GwUConn, GwUInt, GwD, GwDConn>>
  BY <1>0, <1>d, GwSameThreads
<1>g. gw'.rfcomm = gw.rfcomm /\ gw'.remote = gw.remote /\ gw'.waiting = FALSE /\ gw'.listen = gw.listen
  BY <1>0, <1>a DEF GwFieldsOK
<1>e. /\ GwLocals(S)'
      /\ UNCHANGED <<GwA, GwAConn, GwU, GwUConn, GwUInt, GwD, GwDConn>>
      /\ gw'.rfcomm = gw.rfcomm
      /\ gw'.remote = gw.remote
      /\ gw'.waiting = FALSE
      /\ gw'.listen = gw.listen
      /\ gwWorld'.adapter = gwWorld.adapter
      /\ gwWorld'.open = gwWorld.open
      /\ gwWorld'.allowed = gwWorld.allowed
      /\ gwWorld'.told = gwWorld.told
      /\ gwQueue' = gwQueue
      /\ gwLock' = gwLock
  BY <1>b, <1>d, <1>g, <1>h
<1>f. /\ GwOn /\ GwOn' /\ (Dun' <=> Dun) /\ GwTodoOK' /\ gwConfig' = gwConfig /\ GwPastOK'
      /\ (GwCalm' => GwCalm /\ gw.waiting /\ gw.remote = c)
      /\ GwRests /\ ~GwClosesFirst /\ ~GwRelists /\ ~GwReups
      /\ GwClosesFirst' /\ ~GwRelists' /\ ~GwReups' /\ ~GwRests'
      /\ \A t \in GwThreads : ~GwJoins(t) /\ ~GwJoins(t)'
      /\ ~GwNoListen' /\ ~GwNoAccept' /\ ~GwDropped' /\ ~GwDownGone' /\ ~GwUpGone'
      /\ gwWorld'.adapter \notin {"closed", "off"}
  <2>1. GwRests /\ ~GwClosesFirst /\ ~GwRelists /\ ~GwReups /\ GwJoinsNone BY <1>d, GwIdle
  <2>2. GwClosesFirst' /\ GwJoinsNone' BY <1>l, GwTakesUp, GwNoJoinYet
  <2>3. GwOn /\ GwOn' /\ (Dun' <=> Dun) /\ gwConfig' = gwConfig BY <1>d, <1>e, <1>o DEF GwOn, Dun
  <2>4. /\ GwTodoOK' /\ GwClosesFirst' /\ ~GwRelists' /\ ~GwReups' /\ ~GwRests'
        /\ ~GwNoListen' /\ ~GwNoAccept' /\ ~GwDropped' /\ ~GwDownGone' /\ ~GwUpGone'
        /\ gwWorld'.adapter \notin {"closed", "off"}
    BY <2>2, <2>3, GwBusyNext
  <2>5. GwPastOK' BY <1>0, <1>d, <1>p DEF GwPastOK
  <2>6. (GwCalm' => GwCalm /\ gw.waiting /\ gw.remote = c) BY <1>0, <1>p DEF GwCalm, GwOdd, GwPastOK
  <2> QED BY <2>1, <2>2, <2>3, <2>4, <2>5, <2>6 DEF GwJoinsNone
<1>t. GwTyped'
  <2>1. GwFieldsOK' BY <1>0, <1>a, <1>f DEF GwFieldsOK
  <2>2. GwLocksOK' BY <1>0, <1>e, <1>f DEF GwLocksOK
  <2>3. GwQueueOK' BY <1>0, <1>e, <1>f DEF GwQueueOK, GwConn
  <2>4. GwWorldOK' BY <1>0, <1>f, <1>o, <1>w DEF GwWorldOK, GwConn
  <2>5. GwLocals(0..gwConfig.conns)' BY <1>e, <1>f, <1>s DEF GwLocals
  <2> QED BY <1>0, <1>e, <1>f, <1>i, <2>1, <2>2, <2>3, <2>4, <2>5 DEF GwTyped
<1>1. GwLocked' BY <1>e, <1>f, <1>i DEF GwListsKept, GwLocked, GwThreads
<1>2. GwClosed' BY <1>e, <1>f, <1>i DEF GwListsKept, GwClosed
<1>3. GwNamed' BY <1>e, <1>f, <1>i DEF GwListsKept, GwNamed
<1>r. GwCalm' => GwOneAtATime' /\ GwServesAllowed' /\ GwOneOpen' /\ GwReports'
  <2> SUFFICES ASSUME GwCalm' PROVE GwOneAtATime' /\ GwServesAllowed' /\ GwOneOpen' /\ GwReports' OBVIOUS
  <2>0. GwOneAtATime /\ GwServesAllowed /\ GwOneOpen /\ GwReports BY <1>f, <1>i
  <2>1. GwOneAtATime'
    BY <1>e, <1>f, <2>0 DEF GwListsKept, GwOneAtATime, GwURuns, GwOver, GwServes, GwBusy, GwFree
  <2>2. GwServesAllowed'
    BY <1>e, <1>f, <2>0
       DEF GwListsKept, GwServesAllowed, GwTaken, GwOneAtATime, GwURuns, GwOver, GwServes, GwBusy, GwFree
  <2>3. GwOneOpen' BY <1>e, <1>f, <2>0 DEF GwListsKept, GwOneOpen
  <2>4. GwReports' BY <1>e, <1>f, <2>0 DEF GwListsKept, GwReports, GwServes
  <2> QED BY <2>1, <2>2, <2>3, <2>4
<1> QED BY <1>1, <1>2, <1>3, <1>f, <1>r, <1>t DEF GwInv, GwRegular

\* The handlers while Bluetooth is on.
LEMMA GwHandlerStep ==
  ASSUME GwInv, MainHandler \/ User \/ AclDisconnected
  PROVE  GwInv'
<1>1. CASE StartListener BY <1>1, GwStartOff, GwStartOn
<1>2. CASE \E m \in gwQueue.timeouts : UserTimeout(m) BY <1>2, GwTimeoutLate, GwTimeout
<1>3. CASE User BY <1>3, GwAllowed, GwAllowedLate, GwDisallowed DEF User
<1> QED BY <1>1, <1>2, <1>3, GwAcl DEF MainHandler

(***************************************************************************)
(* Bluetooth is switched on and off.                                       *)
(***************************************************************************)
\* Bluetooth is switched on.
LEMMA GwTurnOn ==
  ASSUME GwInv, TurnOn
  PROVE  GwInv'
<1>i. /\ GwTyped /\ GwTodoOK /\ GwLocked /\ GwClosed /\ GwNamed
      /\ (GwCalm => GwOneAtATime /\ GwServesAllowed /\ GwOneOpen /\ GwReports)
  BY DEF GwInv, GwRegular
<1>s. PICK S : S = 0..gwConfig.conns OBVIOUS
<1>0. /\ 0 \in S /\ gwConfig.conns \in Nat /\ GwLocals(S)
      /\ GwFieldsOK /\ GwLocksOK /\ GwQueueOK /\ GwWorldOK /\ GwPastOK
  BY <1>i, <1>s DEF GwTyped
<1>a. gw' = [gw EXCEPT !.interrupted = FALSE, !.enable = TRUE] BY DEF TurnOn
<1>w. gwWorld' = [gwWorld EXCEPT !.adapter = "on"] /\ gwWorld.adapter \in {"off", "closed"} BY DEF TurnOn
<1>c. gwQueue' = [gwQueue EXCEPT !.start = TRUE, !.timeouts = {}] BY DEF TurnOn
<1>p. /\ gwPast' = [gwPast EXCEPT !.ons = @ + 1,
           !.stale = IF gw.rfcomm # 0 \/ gwWorld.told # {} \/ \E t \in GwThreads : gwThread[t].pc # "none"
                     THEN @ \cup {"carried"} ELSE @]
  BY DEF TurnOn
<1>d. gwConfig' = gwConfig /\ gwThread' = gwThread /\ gwLock' = gwLock /\ gwTodo = <<>> /\ gwTodo' = <<>>
  BY DEF TurnOn, MainIdle
<1>b. GwLocals(S)' /\ UNCHANGED <<GwA, GwAConn, GwU, GwUConn, GwUInt, GwD, GwDConn>>
  BY <1>0, <1>d, GwSameThreads
<1>g. gw'.rfcomm = gw.rfcomm /\ gw'.remote = gw.remote /\ gw'.waiting = gw.waiting /\ gw'.listen = gw.listen
  BY <1>0, <1>a DEF GwFieldsOK
<1>q. gwQueue'.start = TRUE BY <1>0, <1>c DEF GwQueueOK
<1>h. /\ gwWorld'.adapter = "on" /\ gwWorld'.open = gwWorld.open
      /\ gwWorld'.allowed = gwWorld.allowed /\ gwWorld'.told = gwWorld.told
  BY <1>0, <1>w DEF GwWorldOK
<1>k. GwCalm' => GwCalm /\ gw.rfcomm = 0 /\ gwWorld.told = {} /\ GwA = "none" /\ GwU = "none" /\ GwD = "none"
  <2>1. {"accept", "up", "down"} \subseteq GwThreads BY DEF GwThreads
  <2> DEFINE odd == gw.rfcomm # 0 \/ gwWorld.told # {} \/ \E t \in GwThreads : gwThread[t].pc # "none"
  <2>2. odd => "carried" \in gwPast'.stale BY <1>0, <1>p DEF GwPastOK
  <2>3. gwPast.stale \subseteq gwPast'.stale BY <1>0, <1>p DEF GwPastOK
  <2>4. GwCalm' => GwCalm /\ ~odd BY <2>2, <2>3 DEF GwCalm, GwOdd
  <2> QED BY <2>1, <2>4 DEF GwA, GwU, GwD
<1>u. ~gw.waiting BY <1>i, <1>w DEF GwClosed
<1>e. /\ GwLocals(S)'
      /\ UNCHANGED <<GwA, GwAConn, GwU, GwUConn, GwUInt, GwD, GwDConn>>
      /\ gw'.rfcomm = gw.rfcomm
      /\ gw'.remote = gw.remote
      /\ gw'.waiting = gw.waiting
      /\ gw'.listen = gw.listen
      /\ gwWorld'.open = gwWorld.open
      /\ gwWorld'.allowed = gwWorld.allowed
      /\ gwWorld'.told = gwWorld.told
      /\ gwQueue'.start = TRUE
      /\ gwLock' = gwLock
  BY <1>b, <1>d, <1>g, <1>h, <1>q
<1>f. /\ GwOn' /\ (Dun' <=> Dun) /\ GwTodoOK' /\ gwConfig' = gwConfig /\ GwPastOK'
      /\ (GwCalm' => GwCalm)
      /\ GwRests' /\ ~GwClosesFirst' /\ ~GwRelists' /\ ~GwReups'
      /\ \A t \in GwThreads : ~GwJoins(t) /\ ~GwJoins(t)'
      /\ ~GwNoListen' /\ ~GwNoAccept' /\ ~GwDropped' /\ ~GwDownGone' /\ ~GwUpGone'
      /\ gwWorld'.adapter \notin {"closed", "off"}
  <2>1. GwJoinsNone BY <1>d, GwIdle
  <2>2. GwRests' /\ GwJoinsNone' BY <1>d DEF GwRests, GwJoinsNone, GwJoins
  <2>3. GwOn' /\ (Dun' <=> Dun) BY <1>d, <1>h DEF GwOn, Dun
  <2>4. /\ GwTodoOK' /\ GwRests' /\ ~GwClosesFirst' /\ ~GwRelists' /\ ~GwReups'
        /\ ~GwNoListen' /\ ~GwNoAccept' /\ ~GwDropped' /\ ~GwDownGone' /\ ~GwUpGone'
        /\ gwWorld'.adapter \notin {"closed", "off"}
    BY <2>2, <2>3, GwBusyNext
  <2>5. GwPastOK'
    <3> DEFINE Kinds == {"answer", "carried", "untimed", "write", "unconnected"}
    <3>1. PICK s \in SUBSET Kinds : gwPast' = [gwPast EXCEPT !.ons = @ + 1, !.stale = s]
      <4>1. gwPast.stale \in SUBSET Kinds BY <1>0 DEF GwPastOK
      <4>2. gwPast.stale \cup {"carried"} \in SUBSET Kinds BY <4>1
      <4> QED BY <1>p, <4>1, <4>2
    <3>2. gwPast.ons + 1 \in Nat BY <1>0 DEF GwPastOK
    <3>3. gwPast' = [gwPast EXCEPT !.ons = gwPast.ons + 1, !.stale = s] BY <3>1
    <3> QED BY <1>0, <1>d, <3>1, <3>2, <3>3 DEF GwPastOK
  <2> QED BY <1>d, <1>k, <2>1, <2>2, <2>3, <2>4, <2>5 DEF GwJoinsNone
<1>t. GwTyped'
  <2>1. GwFieldsOK' BY <1>0, <1>a, <1>f DEF GwFieldsOK
  <2>2. GwLocksOK' BY <1>0, <1>e, <1>f DEF GwLocksOK
  <2>3. GwQueueOK' BY <1>0, <1>c, <1>f DEF GwQueueOK, GwConn
  <2>4. GwWorldOK' BY <1>0, <1>w, <1>f DEF GwWorldOK, GwConn
  <2>5. GwLocals(0..gwConfig.conns)' BY <1>e, <1>f, <1>s DEF GwLocals
  <2> QED BY <1>0, <1>e, <1>f, <1>i, <2>1, <2>2, <2>3, <2>4, <2>5 DEF GwTyped
<1>1. GwLocked' BY <1>e, <1>f, <1>i DEF GwListsKept, GwLocked, GwThreads
<1>2. GwClosed' BY <1>e, <1>f, <1>i DEF GwListsKept, GwClosed
<1>3. GwNamed' BY <1>e, <1>f, <1>i DEF GwListsKept, GwNamed
<1>r. GwCalm' => GwOneAtATime' /\ GwServesAllowed' /\ GwOneOpen' /\ GwReports'
  <2> SUFFICES ASSUME GwCalm' PROVE GwOneAtATime' /\ GwServesAllowed' /\ GwOneOpen' /\ GwReports' OBVIOUS
  <2>0. GwOneAtATime /\ GwServesAllowed /\ GwOneOpen /\ GwReports BY <1>f, <1>i
  <2>1. GwOneAtATime'
    BY <1>e, <1>f, <2>0, <1>u, <1>k DEF GwListsKept, GwOneAtATime, GwURuns, GwOver, GwServes, GwBusy, GwFree
  <2>2. GwServesAllowed' BY <1>e, <1>f, <2>0, <1>u, <1>k DEF GwListsKept, GwServesAllowed, GwTaken
  <2>3. GwOneOpen' BY <1>e, <1>f, <2>0, <1>u, <1>k DEF GwListsKept, GwOneOpen
  <2>4. GwReports' BY <1>e, <1>f, <2>0, <1>u, <1>k DEF GwListsKept, GwReports, GwServes
  <2> QED BY <2>1, <2>2, <2>3, <2>4
<1> QED BY <1>1, <1>2, <1>3, <1>f, <1>r, <1>t DEF GwInv, GwRegular

\* Nothing is closed, and no thread joined, at the start of closeService.
LEMMA GwCloseStart ==
  ASSUME gwTodo = <<>>, NEW last \in {"disable", "destroy"}, gwTodo' = closeService \o Do(last),
         gwConfig' = gwConfig, GwLast' = last, gwWorld'.adapter \in {"turning_off", "closed"}
  PROVE  /\ ~GwOn' /\ (Dun' <=> Dun) /\ GwTodoOK'
         /\ \A t \in GwThreads : ~GwJoins(t) /\ ~GwJoins(t)'
         /\ ~GwNoListen' /\ ~GwNoAccept' /\ ~GwDropped' /\ ~GwDownGone' /\ ~GwUpGone'
<1>1. GwCloses' /\ Len(gwTodo') = GwCloseLen' /\ gwTodo' # <<>> BY GwCloseList
<1>2. Dun' <=> Dun BY DEF Dun
<1>3. GwCloseLen' \in {12, 14} BY DEF GwCloseLen
<1>4. ~GwOn' /\ GwTodoOK' BY <1>1 DEF GwOn, GwTodoOK
<1>5. \A t \in GwThreads : ~GwJoins(t) BY DEF GwJoins
<1>6. \A t \in GwThreads : ~GwJoins(t)'
  <2>1. (GwCloses => \A t \in GwThreads : GwJoins(t) <=> Len(gwTodo) = GwJoinAt(t) /\ (t = "mon" => Dun))'
    BY GwCloseJoins, PTL
  <2>2. \A t : GwJoinAt(t)' = GwJoinAt(t) /\ GwJoinAt(t) \in {2, 5, 7, 9} BY DEF GwJoinAt
  <2>3. Len(gwTodo') \notin {2, 5, 7, 9} BY <1>1, <1>3
  <2> QED BY <1>1, <2>1, <2>2, <2>3
<1>7. /\ ~(Len(gwTodo') < GwCloseLen' - 1) /\ ~(Len(gwTodo') < GwCloseLen' - 2)
      /\ ~(Len(gwTodo') < 2) /\ ~(Len(gwTodo') < 7) /\ ~(Len(gwTodo') < 5)
  <2>1. PICK n : n = GwCloseLen' /\ n \in {12, 14} BY <1>3
  <2>2. ~(n < n - 1) /\ ~(n < n - 2) /\ ~(n < 2) /\ ~(n < 7) /\ ~(n < 5)
    <3>1. CASE n = 12 BY <3>1
    <3>2. CASE n = 14 BY <3>2
    <3> QED BY <2>1, <3>1, <3>2
  <2>3. Len(gwTodo') = n /\ GwCloseLen' = n BY <1>1, <2>1
  <2> QED BY <2>2, <2>3
<1>8. ~GwNoListen' /\ ~GwNoAccept' BY <1>7 DEF GwNoListen, GwNoAccept
<1>9. ~GwDropped' /\ ~GwDownGone' /\ ~GwUpGone' BY <1>7 DEF GwDropped, GwDownGone, GwUpGone, GwLeft
<1> QED BY <1>2, <1>4, <1>5, <1>6, <1>8, <1>9

\* Bluetooth is switched off.
LEMMA GwTurnOff ==
  ASSUME GwInv, TurnOff
  PROVE  GwInv'
<1>i. /\ GwTyped /\ GwTodoOK /\ GwLocked /\ GwClosed /\ GwNamed
      /\ (GwCalm => GwOneAtATime /\ GwServesAllowed /\ GwOneOpen /\ GwReports)
  BY DEF GwInv, GwRegular
<1>s. PICK S : S = 0..gwConfig.conns OBVIOUS
<1>0. /\ 0 \in S /\ gwConfig.conns \in Nat /\ GwLocals(S)
      /\ GwFieldsOK /\ GwLocksOK /\ GwQueueOK /\ GwWorldOK /\ GwPastOK
  BY <1>i, <1>s DEF GwTyped
<1>a. gw' = [gw EXCEPT !.interrupted = FALSE] BY DEF TurnOff
<1>v. gwWorld' = [gwWorld EXCEPT !.adapter = "turning_off"] BY DEF TurnOff
<1>l. gwTodo' = closeService \o Do("disable") BY DEF TurnOff
<1>d. /\ gwConfig' = gwConfig /\ gwThread' = gwThread /\ gwLock' = gwLock /\ gwTodo = <<>>
      /\ gwQueue' = gwQueue
      /\ gwPast' = gwPast
  BY DEF TurnOff, MainIdle
<1>w. gwWorld'.adapter = "turning_off" BY <1>0, <1>v DEF GwWorldOK
<1>h. gwWorld'.open = gwWorld.open /\ gwWorld'.allowed = gwWorld.allowed /\ gwWorld'.told = gwWorld.told
  BY <1>0, <1>v DEF GwWorldOK
<1>b. GwLocals(S)' /\ UNCHANGED <<GwA, GwAConn, GwU, GwUConn, GwUInt, GwD, GwDConn>>
  BY <1>0, <1>d, GwSameThreads
<1>g. gw'.rfcomm = gw.rfcomm /\ gw'.remote = gw.remote /\ gw'.waiting = gw.waiting /\ gw'.listen = gw.listen
  BY <1>0, <1>a DEF GwFieldsOK
<1>e. /\ GwLocals(S)'
      /\ UNCHANGED <<GwA, GwAConn, GwU, GwUConn, GwUInt, GwD, GwDConn>>
      /\ gw'.rfcomm = gw.rfcomm
      /\ gw'.remote = gw.remote
      /\ gw'.waiting = gw.waiting
      /\ gw'.listen = gw.listen
      /\ gwWorld'.adapter = "turning_off"
      /\ gwWorld'.open = gwWorld.open
      /\ gwWorld'.allowed = gwWorld.allowed
      /\ gwWorld'.told = gwWorld.told
      /\ gwQueue' = gwQueue
      /\ gwLock' = gwLock
  BY <1>b, <1>d, <1>g, <1>h, <1>w
<1>f. /\ ~GwOn' /\ (Dun' <=> Dun) /\ GwTodoOK' /\ gwConfig' = gwConfig /\ GwPastOK'
      /\ (GwCalm' <=> GwCalm)
      /\ \A t \in GwThreads : ~GwJoins(t) /\ ~GwJoins(t)'
      /\ ~GwNoListen' /\ ~GwNoAccept' /\ ~GwDropped' /\ ~GwDownGone' /\ ~GwUpGone'
  <2>1. GwLast' = "disable" BY <1>w DEF GwLast
  <2>2. /\ ~GwOn' /\ (Dun' <=> Dun) /\ GwTodoOK'
        /\ \A t \in GwThreads : ~GwJoins(t) /\ ~GwJoins(t)'
        /\ ~GwNoListen' /\ ~GwNoAccept' /\ ~GwDropped' /\ ~GwDownGone' /\ ~GwUpGone'
    BY <1>d, <1>l, <1>w, <2>1, GwCloseStart
  <2>3. GwCalm' <=> GwCalm BY <1>d, GwCalmKept
  <2>4. GwPastOK' BY <1>0, <1>d DEF GwPastOK
  <2> QED BY <1>d, <2>2, <2>3, <2>4
<1>t. GwTyped'
  <2>1. GwFieldsOK' BY <1>0, <1>a, <1>f DEF GwFieldsOK
  <2>2. GwLocksOK' BY <1>0, <1>e, <1>f DEF GwLocksOK
  <2>3. GwQueueOK' BY <1>0, <1>e, <1>f DEF GwQueueOK, GwConn
  <2>4. GwWorldOK' BY <1>0, <1>v, <1>f DEF GwWorldOK, GwConn
  <2>5. GwLocals(0..gwConfig.conns)' BY <1>e, <1>f, <1>s DEF GwLocals
  <2> QED BY <1>0, <1>e, <1>f, <1>i, <2>1, <2>2, <2>3, <2>4, <2>5 DEF GwTyped
<1>1. GwLocked' BY <1>e, <1>f, <1>i DEF GwListsKept, GwLocked, GwThreads
<1>2. GwClosed' BY <1>e, <1>f, <1>i DEF GwListsKept, GwClosed
<1>3. GwNamed' BY <1>e, <1>f, <1>i DEF GwListsKept, GwNamed
<1>r. GwCalm' => GwOneAtATime' /\ GwServesAllowed' /\ GwOneOpen' /\ GwReports'
  <2> SUFFICES ASSUME GwCalm' PROVE GwOneAtATime' /\ GwServesAllowed' /\ GwOneOpen' /\ GwReports' OBVIOUS
  <2>0. GwOneAtATime /\ GwServesAllowed /\ GwOneOpen /\ GwReports BY <1>f, <1>i
  <2>1. GwOneAtATime'
    BY <1>e, <1>f, <2>0 DEF GwListsKept, GwOneAtATime, GwURuns, GwOver, GwServes, GwBusy, GwFree
  <2>2. GwServesAllowed' BY <1>e, <1>f, <2>0 DEF GwListsKept, GwServesAllowed, GwTaken
  <2>3. GwOneOpen' BY <1>e, <1>f, <2>0 DEF GwListsKept, GwOneOpen
  <2>4. GwReports' BY <1>e, <1>f, <2>0 DEF GwListsKept, GwReports, GwServes
  <2> QED BY <2>1, <2>2, <2>3, <2>4
<1> QED BY <1>1, <1>2, <1>3, <1>f, <1>r, <1>t DEF GwInv, GwRegular

\* The service is destroyed.
LEMMA GwDestroy ==
  ASSUME GwInv, Destroy
  PROVE  GwInv'
<1>i. /\ GwTyped /\ GwTodoOK /\ GwLocked /\ GwClosed /\ GwNamed
      /\ (GwCalm => GwOneAtATime /\ GwServesAllowed /\ GwOneOpen /\ GwReports)
  BY DEF GwInv, GwRegular
<1>s. PICK S : S = 0..gwConfig.conns OBVIOUS
<1>0. /\ 0 \in S /\ gwConfig.conns \in Nat /\ GwLocals(S)
      /\ GwFieldsOK /\ GwLocksOK /\ GwQueueOK /\ GwWorldOK /\ GwPastOK
  BY <1>i, <1>s DEF GwTyped
<1>l. gwTodo' = closeService \o Do("destroy") BY DEF Destroy
<1>d. /\ gwConfig' = gwConfig /\ gwThread' = gwThread /\ gwLock' = gwLock /\ gwTodo = <<>>
      /\ gwQueue' = gwQueue
      /\ gwPast' = gwPast /\ gw' = gw /\ gwWorld' = gwWorld
  BY DEF Destroy, MainIdle
<1>w. gwWorld'.adapter = "closed" /\ gwWorld.adapter = "closed" BY DEF Destroy
<1>b. GwLocals(S)' /\ UNCHANGED <<GwA, GwAConn, GwU, GwUConn, GwUInt, GwD, GwDConn>>
  BY <1>0, <1>d, GwSameThreads
<1>e. /\ GwLocals(S)'
      /\ UNCHANGED <<GwA, GwAConn, GwU, GwUConn, GwUInt, GwD, GwDConn>>
      /\ gw' = gw
      /\ gwWorld' = gwWorld
      /\ gwQueue' = gwQueue
      /\ gwLock' = gwLock
  BY <1>b, <1>d
<1>f. /\ ~GwOn' /\ (Dun' <=> Dun) /\ GwTodoOK' /\ gwConfig' = gwConfig /\ GwPastOK'
      /\ (GwCalm' <=> GwCalm)
      /\ \A t \in GwThreads : ~GwJoins(t) /\ ~GwJoins(t)'
      /\ ~GwNoListen' /\ ~GwNoAccept' /\ ~GwDropped' /\ ~GwDownGone' /\ ~GwUpGone'
  <2>1. GwLast' = "destroy" BY <1>w DEF GwLast
  <2>2. /\ ~GwOn' /\ (Dun' <=> Dun) /\ GwTodoOK'
        /\ \A t \in GwThreads : ~GwJoins(t) /\ ~GwJoins(t)'
        /\ ~GwNoListen' /\ ~GwNoAccept' /\ ~GwDropped' /\ ~GwDownGone' /\ ~GwUpGone'
    BY <1>d, <1>l, <1>w, <2>1, GwCloseStart
  <2>3. GwCalm' <=> GwCalm BY <1>d, GwCalmKept
  <2>4. GwPastOK' BY <1>0, <1>d DEF GwPastOK
  <2> QED BY <1>d, <2>2, <2>3, <2>4
<1>t. GwTyped'
  <2>1. GwFieldsOK' BY <1>0, <1>e, <1>f DEF GwFieldsOK
  <2>2. GwLocksOK' BY <1>0, <1>e, <1>f DEF GwLocksOK
  <2>3. GwQueueOK' BY <1>0, <1>e, <1>f DEF GwQueueOK, GwConn
  <2>4. GwWorldOK' BY <1>0, <1>e, <1>f DEF GwWorldOK, GwConn
  <2>5. GwLocals(0..gwConfig.conns)' BY <1>e, <1>f, <1>s DEF GwLocals
  <2> QED BY <1>0, <1>e, <1>f, <1>i, <2>1, <2>2, <2>3, <2>4, <2>5 DEF GwTyped
<1>1. GwLocked' BY <1>e, <1>f, <1>i DEF GwListsKept, GwLocked, GwThreads
<1>2. GwClosed' BY <1>e, <1>f, <1>i, <1>w DEF GwListsKept, GwClosed
<1>3. GwNamed' BY <1>e, <1>f, <1>i DEF GwListsKept, GwNamed
<1>r. GwCalm' => GwOneAtATime' /\ GwServesAllowed' /\ GwOneOpen' /\ GwReports'
  <2> SUFFICES ASSUME GwCalm' PROVE GwOneAtATime' /\ GwServesAllowed' /\ GwOneOpen' /\ GwReports' OBVIOUS
  <2>0. GwOneAtATime /\ GwServesAllowed /\ GwOneOpen /\ GwReports BY <1>f, <1>i
  <2>1. GwOneAtATime'
    BY <1>e, <1>f, <2>0 DEF GwListsKept, GwOneAtATime, GwURuns, GwOver, GwServes, GwBusy, GwFree
  <2>2. GwServesAllowed' BY <1>e, <1>f, <2>0 DEF GwListsKept, GwServesAllowed, GwTaken
  <2>3. GwOneOpen' BY <1>e, <1>f, <2>0 DEF GwListsKept, GwOneOpen
  <2>4. GwReports' BY <1>e, <1>f, <2>0 DEF GwListsKept, GwReports, GwServes
  <2> QED BY <2>1, <2>2, <2>3, <2>4
<1> QED BY <1>1, <1>2, <1>3, <1>f, <1>r, <1>t DEF GwInv, GwRegular

(***************************************************************************)
(* The steps of the main thread.                                           *)
(***************************************************************************)
\* Which thread a list that is run while Bluetooth is on can be about to join.
LEMMA GwMayJoin ==
  /\ GwClosesFirst \/ GwRests => GwJoinsNone
  /\ GwRelists => \A t \in GwThreads : GwJoins(t) => t = "accept"
  /\ GwReups => \A t \in GwThreads : GwJoins(t) => t = "up"
<1>1. \A u, v, w, x : GwTask(u, v) = GwTask(w, x) <=> u = w /\ v = x BY DEF GwTask
<1>2. \A t \in GwThreads : GwJoins(t) => gwTodo # <<>> /\ Head(gwTodo) \in {GwTask("join", t), GwTask("renew", t)}
  BY DEF GwJoins, GwJoin, GwRenew
<1>3. GwClosesFirst \/ GwRests => GwJoinsNone BY <1>1, <1>2, GwHeads DEF GwJoinsNone, GwCloseRfcomm, GwRemove
<1>4. GwRelists => \A t \in GwThreads : GwJoins(t) => t = "accept" BY <1>1, <1>2, GwHeads DEF GwHalt, GwRenew
<1>5. GwReups => \A t \in GwThreads : GwJoins(t) => t = "up" BY <1>1, <1>2, GwHeads DEF GwHalt, GwRenew
<1> QED BY <1>3, <1>4, <1>5

\* The connection is closed, then the listener started.
LEMMA GwOnClosesRfcomm ==
  ASSUME GwInv, GwOn, GwClosesFirst, UNCHANGED gwConfig, Fields(GwCloseRfcomm), GwRelists', GwJoinsNone'
  PROVE  GwInv'
<1>i. /\ GwTyped /\ GwTodoOK /\ GwLocked /\ GwClosed /\ GwNamed
      /\ (GwCalm => GwOneAtATime /\ GwServesAllowed /\ GwOneOpen /\ GwReports)
  BY DEF GwInv, GwRegular
<1>s. PICK S : S = 0..gwConfig.conns OBVIOUS
<1>0. /\ 0 \in S /\ gwConfig.conns \in Nat /\ GwLocals(S)
      /\ GwFieldsOK /\ GwLocksOK /\ GwQueueOK /\ GwWorldOK /\ GwPastOK
  BY <1>i, <1>s DEF GwTyped
<1>k. GwCloseRfcomm.do = "closeRfcomm" BY DEF GwCloseRfcomm, GwTask
<1>a. gw' = [gw EXCEPT !.rfcomm = 0] /\ gwWorld' = RfcommClosed BY <1>k DEF Fields
<1>p. gwPast' = [gwPast EXCEPT !.stale = @] BY <1>k DEF Fields
<1>d. /\ gwConfig' = gwConfig /\ gwThread' = gwThread /\ gwLock' = gwLock /\ gwQueue' = gwQueue
      /\ gwPast' = gwPast
  BY <1>0, <1>k, <1>p DEF Fields, GwPastOK
<1>b. GwLocals(S)' /\ UNCHANGED <<GwA, GwAConn, GwU, GwUConn, GwUInt, GwD, GwDConn>>
  BY <1>0, <1>d, GwSameThreads
<1>g. /\ gw'.rfcomm = 0 /\ gw'.remote = gw.remote /\ gw'.waiting = gw.waiting /\ gw'.listen = gw.listen
      /\ gwWorld'.adapter = gwWorld.adapter /\ gwWorld'.open = gwWorld.open \ {gw.rfcomm}
      /\ gwWorld'.allowed = gwWorld.allowed /\ gwWorld'.told = gwWorld.told
  BY <1>0, <1>a DEF GwFieldsOK, GwWorldOK, RfcommClosed
<1>e. /\ GwLocals(S)'
      /\ UNCHANGED <<GwA, GwAConn, GwU, GwUConn, GwUInt, GwD, GwDConn>>
      /\ gw'.rfcomm = 0
      /\ gw'.remote = gw.remote
      /\ gw'.waiting = gw.waiting
      /\ gw'.listen = gw.listen
      /\ gwWorld'.adapter = gwWorld.adapter
      /\ gwWorld'.open = gwWorld.open \ {gw.rfcomm}
      /\ gwWorld'.allowed = gwWorld.allowed
      /\ gwWorld'.told = gwWorld.told
      /\ gwQueue' = gwQueue
      /\ gwLock' = gwLock
  BY <1>b, <1>d, <1>g
<1>f. /\ GwOn /\ GwOn' /\ (Dun' <=> Dun) /\ GwTodoOK' /\ gwConfig' = gwConfig /\ GwPastOK'
      /\ (GwCalm' <=> GwCalm)
      /\ GwClosesFirst /\ ~GwRelists /\ ~GwReups /\ ~GwRests
      /\ GwRelists' /\ ~GwClosesFirst' /\ ~GwReups' /\ ~GwRests'
      /\ ~GwNoListen' /\ ~GwNoAccept' /\ ~GwDropped' /\ ~GwDownGone' /\ ~GwUpGone'
      /\ gwWorld'.adapter \notin {"closed", "off"}
      /\ \A t \in GwThreads : ~GwJoins(t)
      /\ \A t \in GwThreads : ~GwJoins(t)'
  <2>1. GwClosesFirst /\ ~GwRelists /\ ~GwReups /\ ~GwRests BY GwApart
  <2>2. GwOn /\ GwOn' /\ (Dun' <=> Dun) /\ gwConfig' = gwConfig BY <1>d, <1>e DEF GwOn, Dun
  <2>3. /\ GwTodoOK' /\ GwRelists' /\ ~GwClosesFirst' /\ ~GwReups' /\ ~GwRests'
        /\ ~GwNoListen' /\ ~GwNoAccept' /\ ~GwDropped' /\ ~GwDownGone' /\ ~GwUpGone'
        /\ gwWorld'.adapter \notin {"closed", "off"}
    BY <2>2, GwBusyNext
  <2>4. GwPastOK' BY <1>0, <1>d DEF GwPastOK
  <2>5. GwCalm' <=> GwCalm BY <1>d, GwCalmKept
  <2>6. \A t \in GwThreads : ~GwJoins(t) BY GwMayJoin DEF GwJoinsNone
  <2>7. \A t \in GwThreads : ~GwJoins(t)' BY DEF GwJoinsNone, GwOnlyJoins, GwMStops, GwMEnds
  <2> QED BY <2>1, <2>2, <2>3, <2>4, <2>5, <2>6, <2>7
<1>t. GwTyped'
  <2>1. GwFieldsOK' BY <1>0, <1>a, <1>f, <1>s DEF GwFieldsOK
  <2>2. GwLocksOK' BY <1>0, <1>e, <1>f DEF GwLocksOK
  <2>3. GwQueueOK' BY <1>0, <1>e, <1>f DEF GwQueueOK, GwConn
  <2>4. GwWorldOK' BY <1>0, <1>a, <1>f DEF GwWorldOK, GwConn, RfcommClosed
  <2>5. GwLocals(0..gwConfig.conns)' BY <1>e, <1>f, <1>s DEF GwLocals
  <2> QED BY <1>0, <1>e, <1>f, <1>i, <2>1, <2>2, <2>3, <2>4, <2>5 DEF GwTyped
<1>1. GwLocked' BY <1>e, <1>f, <1>i DEF GwListsKept, GwLocked, GwThreads
<1>2. GwClosed' BY <1>e, <1>f, <1>i DEF GwListsKept, GwClosed
<1>3. GwNamed' BY <1>e, <1>f, <1>i DEF GwListsKept, GwNamed
<1>r. GwCalm' => GwOneAtATime' /\ GwServesAllowed' /\ GwOneOpen' /\ GwReports'
  <2> SUFFICES ASSUME GwCalm' PROVE GwOneAtATime' /\ GwServesAllowed' /\ GwOneOpen' /\ GwReports' OBVIOUS
  <2>0. GwOneAtATime /\ GwServesAllowed /\ GwOneOpen /\ GwReports BY <1>f, <1>i
  <2>1. GwOneAtATime'
    BY <1>e, <1>f, <2>0 DEF GwListsKept, GwOneAtATime, GwURuns, GwOver, GwServes, GwBusy, GwFree
  <2>2. GwServesAllowed'
    BY <1>e, <1>f, <2>0
       DEF GwListsKept, GwServesAllowed, GwTaken, GwOneAtATime, GwURuns, GwOver, GwServes, GwBusy, GwFree
  <2>3. GwOneOpen'
    BY <1>e, <1>f, <2>0 DEF GwListsKept, GwOneOpen, GwOneAtATime, GwURuns, GwOver, GwServes, GwBusy, GwFree
  <2>4. GwReports' BY <1>e, <1>f, <2>0 DEF GwListsKept, GwReports, GwServes
  <2> QED BY <2>1, <2>2, <2>3, <2>4
<1> QED BY <1>1, <1>2, <1>3, <1>f, <1>r, <1>t DEF GwInv, GwRegular

\* The timeouts are removed.
LEMMA GwOnRemoves ==
  ASSUME GwInv, GwOn, GwRests, UNCHANGED gwConfig, Fields(GwRemove), GwRests', GwJoinsNone'
  PROVE  GwInv'
<1>i. /\ GwTyped /\ GwTodoOK /\ GwLocked /\ GwClosed /\ GwNamed
      /\ (GwCalm => GwOneAtATime /\ GwServesAllowed /\ GwOneOpen /\ GwReports)
  BY DEF GwInv, GwRegular
<1>s. PICK S : S = 0..gwConfig.conns OBVIOUS
<1>0. /\ 0 \in S /\ gwConfig.conns \in Nat /\ GwLocals(S)
      /\ GwFieldsOK /\ GwLocksOK /\ GwQueueOK /\ GwWorldOK /\ GwPastOK
  BY <1>i, <1>s DEF GwTyped
<1>k. GwRemove.do = "removeTimeouts" BY DEF GwRemove, GwTask
<1>a. gwQueue' = [gwQueue EXCEPT !.timeouts = {}] BY <1>k DEF Fields
<1>p. gwPast' = [gwPast EXCEPT !.stale = IF gw.waiting THEN @ \cup {"untimed"} ELSE @] BY <1>k DEF Fields
<1>h. gwPast'.stale \in {gwPast.stale, gwPast.stale \cup {"untimed"}} BY <1>0, <1>p DEF GwPastOK
<1>d. gwConfig' = gwConfig /\ gwThread' = gwThread /\ gwLock' = gwLock /\ gw' = gw /\ gwWorld' = gwWorld
  BY <1>k DEF Fields
<1>b. GwLocals(S)' /\ UNCHANGED <<GwA, GwAConn, GwU, GwUConn, GwUInt, GwD, GwDConn>>
  BY <1>0, <1>d, GwSameThreads
<1>q. gwQueue'.start = gwQueue.start BY <1>0, <1>a DEF GwQueueOK
<1>e. /\ GwLocals(S)'
      /\ UNCHANGED <<GwA, GwAConn, GwU, GwUConn, GwUInt, GwD, GwDConn>>
      /\ gw' = gw
      /\ gwWorld' = gwWorld
      /\ gwQueue'.start = gwQueue.start
      /\ gwLock' = gwLock
  BY <1>b, <1>d, <1>q
<1>f. /\ GwOn /\ GwOn' /\ (Dun' <=> Dun) /\ GwTodoOK' /\ gwConfig' = gwConfig /\ GwPastOK'
      /\ (GwCalm' <=> GwCalm)
      /\ GwRests /\ ~GwClosesFirst /\ ~GwRelists /\ ~GwReups
      /\ GwRests' /\ ~GwClosesFirst' /\ ~GwRelists' /\ ~GwReups'
      /\ ~GwNoListen' /\ ~GwNoAccept' /\ ~GwDropped' /\ ~GwDownGone' /\ ~GwUpGone'
      /\ gwWorld'.adapter \notin {"closed", "off"}
      /\ \A t \in GwThreads : ~GwJoins(t)
      /\ \A t \in GwThreads : ~GwJoins(t)'
  <2>1. GwRests /\ ~GwClosesFirst /\ ~GwRelists /\ ~GwReups BY GwApart
  <2>2. GwOn /\ GwOn' /\ (Dun' <=> Dun) /\ gwConfig' = gwConfig BY <1>d, <1>e DEF GwOn, Dun
  <2>3. /\ GwTodoOK' /\ GwRests' /\ ~GwClosesFirst' /\ ~GwRelists' /\ ~GwReups'
        /\ ~GwNoListen' /\ ~GwNoAccept' /\ ~GwDropped' /\ ~GwDownGone' /\ ~GwUpGone'
        /\ gwWorld'.adapter \notin {"closed", "off"}
    BY <2>2, GwBusyNext
  <2>4. GwPastOK' BY <1>0, <1>d, <1>p DEF GwPastOK
  <2>5. GwCalm' <=> GwCalm BY <1>h DEF GwCalm, GwOdd
  <2>6. \A t \in GwThreads : ~GwJoins(t) BY GwMayJoin DEF GwJoinsNone
  <2>7. \A t \in GwThreads : ~GwJoins(t)' BY DEF GwJoinsNone, GwOnlyJoins, GwMStops, GwMEnds
  <2> QED BY <2>1, <2>2, <2>3, <2>4, <2>5, <2>6, <2>7
<1>t. GwTyped'
  <2>1. GwFieldsOK' BY <1>0, <1>e, <1>f DEF GwFieldsOK
  <2>2. GwLocksOK' BY <1>0, <1>e, <1>f DEF GwLocksOK
  <2>3. GwQueueOK' BY <1>0, <1>a, <1>f DEF GwQueueOK, GwConn
  <2>4. GwWorldOK' BY <1>0, <1>e, <1>f DEF GwWorldOK, GwConn
  <2>5. GwLocals(0..gwConfig.conns)' BY <1>e, <1>f, <1>s DEF GwLocals
  <2> QED BY <1>0, <1>e, <1>f, <1>i, <2>1, <2>2, <2>3, <2>4, <2>5 DEF GwTyped
<1>1. GwLocked' BY <1>e, <1>f, <1>i DEF GwListsKept, GwLocked, GwThreads
<1>2. GwClosed' BY <1>e, <1>f, <1>i DEF GwListsKept, GwClosed
<1>3. GwNamed' BY <1>e, <1>f, <1>i DEF GwListsKept, GwNamed
<1>r. GwCalm' => GwOneAtATime' /\ GwServesAllowed' /\ GwOneOpen' /\ GwReports'
  <2> SUFFICES ASSUME GwCalm' PROVE GwOneAtATime' /\ GwServesAllowed' /\ GwOneOpen' /\ GwReports' OBVIOUS
  <2>0. GwOneAtATime /\ GwServesAllowed /\ GwOneOpen /\ GwReports BY <1>f, <1>i
  <2>1. GwOneAtATime'
    BY <1>e, <1>f, <2>0 DEF GwListsKept, GwOneAtATime, GwURuns, GwOver, GwServes, GwBusy, GwFree
  <2>2. GwServesAllowed' BY <1>e, <1>f, <2>0 DEF GwListsKept, GwServesAllowed, GwTaken
  <2>3. GwOneOpen' BY <1>e, <1>f, <2>0 DEF GwListsKept, GwOneOpen
  <2>4. GwReports' BY <1>e, <1>f, <2>0 DEF GwListsKept, GwReports, GwServes
  <2> QED BY <2>1, <2>2, <2>3, <2>4
<1> QED BY <1>1, <1>2, <1>3, <1>f, <1>r, <1>t DEF GwInv, GwRegular

\* The accept thread is told to stop.
LEMMA GwOnStopsAccept ==
  ASSUME GwInv, GwOn, GwRelists, GwMStops("accept"), GwRelists'
  PROVE  GwInv'
<1>i. /\ GwTyped /\ GwTodoOK /\ GwLocked /\ GwClosed /\ GwNamed
      /\ (GwCalm => GwOneAtATime /\ GwServesAllowed /\ GwOneOpen /\ GwReports)
  BY DEF GwInv, GwRegular
<1>s. PICK S : S = 0..gwConfig.conns OBVIOUS
<1>0. /\ 0 \in S /\ gwConfig.conns \in Nat /\ GwLocals(S)
      /\ GwFieldsOK /\ GwLocksOK /\ GwQueueOK /\ GwWorldOK /\ GwPastOK
  BY <1>i, <1>s DEF GwTyped
<1>a. Stop("accept", "main") BY DEF GwMStops
<1>d. gwConfig' = gwConfig /\ gwPast' = gwPast /\ gw' = gw /\ gwWorld' = gwWorld /\ gwQueue' = gwQueue
  BY DEF GwMStops, GwSame
<1>b. GwLocals(S)' /\ UNCHANGED <<GwA, GwAConn, GwU, GwUConn, GwUInt, GwD, GwDConn>>
  <2>1. {"accept", "up", "down"} \subseteq GwThreads BY DEF GwThreads
  <2>2. /\ GwLocals(S)' /\ gwThread'["accept"].pc = gwThread["accept"].pc
        /\ gwThread'["accept"].conn = gwThread["accept"].conn
        /\ \A u \in GwThreads \ {"accept"} : gwThread'[u] = gwThread[u]
    BY <1>0, <1>a, <2>1, GwStopEffect DEF GwLabels
  <2>3. gwThread'["up"] = gwThread["up"] /\ gwThread'["down"] = gwThread["down"] BY <2>1, <2>2
  <2> QED BY <2>2, <2>3 DEF GwA, GwAConn, GwU, GwUConn, GwUInt, GwD, GwDConn, GwNew
<1>l. gwLock["accept"] = "free" /\ gwLock' = [gwLock EXCEPT !["accept"] = "main"] BY <1>a DEF Stop
<1>e. /\ GwLocals(S)'
      /\ UNCHANGED <<GwA, GwAConn, GwU, GwUConn, GwUInt, GwD, GwDConn>>
      /\ gw' = gw
      /\ gwWorld' = gwWorld
      /\ gwQueue' = gwQueue
      /\ gwLock["accept"] = "free" /\ gwLock' = [gwLock EXCEPT !["accept"] = "main"]
  BY <1>b, <1>d, <1>l
<1>f. /\ GwOn /\ GwOn' /\ (Dun' <=> Dun) /\ GwTodoOK' /\ gwConfig' = gwConfig /\ GwPastOK'
      /\ (GwCalm' <=> GwCalm)
      /\ GwRelists /\ ~GwClosesFirst /\ ~GwReups /\ ~GwRests
      /\ GwRelists' /\ ~GwClosesFirst' /\ ~GwReups' /\ ~GwRests'
      /\ ~GwNoListen' /\ ~GwNoAccept' /\ ~GwDropped' /\ ~GwDownGone' /\ ~GwUpGone'
      /\ gwWorld'.adapter \notin {"closed", "off"}
      /\ \A t \in GwThreads : GwJoins(t) => t = "accept"
      /\ \A t \in GwThreads : GwJoins(t)' <=> t = "accept"
  <2>1. GwRelists /\ ~GwClosesFirst /\ ~GwReups /\ ~GwRests BY GwApart
  <2>2. GwOn /\ GwOn' /\ (Dun' <=> Dun) /\ gwConfig' = gwConfig BY <1>d, <1>e DEF GwOn, Dun
  <2>3. /\ GwTodoOK' /\ GwRelists' /\ ~GwClosesFirst' /\ ~GwReups' /\ ~GwRests'
        /\ ~GwNoListen' /\ ~GwNoAccept' /\ ~GwDropped' /\ ~GwDownGone' /\ ~GwUpGone'
        /\ gwWorld'.adapter \notin {"closed", "off"}
    BY <2>2, GwBusyNext
  <2>4. GwPastOK' BY <1>0, <1>d DEF GwPastOK
  <2>5. GwCalm' <=> GwCalm BY <1>d, GwCalmKept
  <2>6. \A t \in GwThreads : GwJoins(t) => t = "accept" BY GwMayJoin DEF GwJoinsNone
  <2>7. \A t \in GwThreads : GwJoins(t)' <=> t = "accept" BY DEF GwJoinsNone, GwOnlyJoins, GwMStops, GwMEnds
  <2> QED BY <2>1, <2>2, <2>3, <2>4, <2>5, <2>6, <2>7
<1>t. GwTyped'
  <2>1. GwFieldsOK' BY <1>0, <1>e, <1>f DEF GwFieldsOK
  <2>2. GwLocksOK' BY <1>0, <1>e DEF GwLocksOK
  <2>3. GwQueueOK' BY <1>0, <1>e, <1>f DEF GwQueueOK, GwConn
  <2>4. GwWorldOK' BY <1>0, <1>e, <1>f DEF GwWorldOK, GwConn
  <2>5. GwLocals(0..gwConfig.conns)' BY <1>e, <1>f, <1>s DEF GwLocals
  <2> QED BY <1>0, <1>e, <1>f, <1>i, <2>1, <2>2, <2>3, <2>4, <2>5 DEF GwTyped
<1>1. GwLocked' BY <1>e, <1>f, <1>i, <1>0 DEF GwListsKept, GwLocked, GwThreads, GwLocksOK
<1>2. GwClosed' BY <1>e, <1>f, <1>i DEF GwListsKept, GwClosed
<1>3. GwNamed' BY <1>e, <1>f, <1>i DEF GwListsKept, GwNamed
<1>r. GwCalm' => GwOneAtATime' /\ GwServesAllowed' /\ GwOneOpen' /\ GwReports'
  <2> SUFFICES ASSUME GwCalm' PROVE GwOneAtATime' /\ GwServesAllowed' /\ GwOneOpen' /\ GwReports' OBVIOUS
  <2>0. GwOneAtATime /\ GwServesAllowed /\ GwOneOpen /\ GwReports BY <1>f, <1>i
  <2>1. GwOneAtATime'
    BY <1>e, <1>f, <2>0 DEF GwListsKept, GwOneAtATime, GwURuns, GwOver, GwServes, GwBusy, GwFree
  <2>2. GwServesAllowed' BY <1>e, <1>f, <2>0 DEF GwListsKept, GwServesAllowed, GwTaken
  <2>3. GwOneOpen' BY <1>e, <1>f, <2>0 DEF GwListsKept, GwOneOpen
  <2>4. GwReports' BY <1>e, <1>f, <2>0 DEF GwListsKept, GwReports, GwServes
  <2> QED BY <2>1, <2>2, <2>3, <2>4
<1> QED BY <1>1, <1>2, <1>3, <1>f, <1>r, <1>t DEF GwInv, GwRegular

\* The uplink thread is told to stop.
LEMMA GwOnStopsUp ==
  ASSUME GwInv, GwOn, GwReups, GwMStops("up"), GwReups'
  PROVE  GwInv'
<1>i. /\ GwTyped /\ GwTodoOK /\ GwLocked /\ GwClosed /\ GwNamed
      /\ (GwCalm => GwOneAtATime /\ GwServesAllowed /\ GwOneOpen /\ GwReports)
  BY DEF GwInv, GwRegular
<1>s. PICK S : S = 0..gwConfig.conns OBVIOUS
<1>0. /\ 0 \in S /\ gwConfig.conns \in Nat /\ GwLocals(S)
      /\ GwFieldsOK /\ GwLocksOK /\ GwQueueOK /\ GwWorldOK /\ GwPastOK
  BY <1>i, <1>s DEF GwTyped
<1>a. Stop("up", "main") BY DEF GwMStops
<1>d. gwConfig' = gwConfig /\ gwPast' = gwPast /\ gw' = gw /\ gwWorld' = gwWorld /\ gwQueue' = gwQueue
  BY DEF GwMStops, GwSame
<1>b. GwLocals(S)' /\ UNCHANGED <<GwA, GwAConn, GwU, GwUConn, GwD, GwDConn>>
  <2>1. {"accept", "up", "down"} \subseteq GwThreads BY DEF GwThreads
  <2>2. /\ GwLocals(S)' /\ gwThread'["up"].pc = gwThread["up"].pc
        /\ gwThread'["up"].conn = gwThread["up"].conn
        /\ \A u \in GwThreads \ {"up"} : gwThread'[u] = gwThread[u]
    BY <1>0, <1>a, <2>1, GwStopEffect DEF GwLabels
  <2>3. gwThread'["accept"] = gwThread["accept"] /\ gwThread'["down"] = gwThread["down"] BY <2>1, <2>2
  <2> QED BY <2>2, <2>3 DEF GwA, GwAConn, GwU, GwUConn, GwUInt, GwD, GwDConn, GwNew
<1>l. gwLock["up"] = "free" /\ gwLock' = [gwLock EXCEPT !["up"] = "main"] BY <1>a DEF Stop
<1>e. /\ GwLocals(S)'
      /\ UNCHANGED <<GwA, GwAConn, GwU, GwUConn, GwD, GwDConn>>
      /\ gw' = gw
      /\ gwWorld' = gwWorld
      /\ gwQueue' = gwQueue
      /\ gwLock["up"] = "free" /\ gwLock' = [gwLock EXCEPT !["up"] = "main"]
  BY <1>b, <1>d, <1>l
<1>f. /\ GwOn /\ GwOn' /\ (Dun' <=> Dun) /\ GwTodoOK' /\ gwConfig' = gwConfig /\ GwPastOK'
      /\ (GwCalm' <=> GwCalm)
      /\ GwReups /\ ~GwClosesFirst /\ ~GwRelists /\ ~GwRests
      /\ GwReups' /\ ~GwClosesFirst' /\ ~GwRelists' /\ ~GwRests'
      /\ ~GwNoListen' /\ ~GwNoAccept' /\ ~GwDropped' /\ ~GwDownGone' /\ ~GwUpGone'
      /\ gwWorld'.adapter \notin {"closed", "off"}
      /\ \A t \in GwThreads : GwJoins(t) => t = "up"
      /\ \A t \in GwThreads : GwJoins(t)' <=> t = "up"
  <2>1. GwReups /\ ~GwClosesFirst /\ ~GwRelists /\ ~GwRests BY GwApart
  <2>2. GwOn /\ GwOn' /\ (Dun' <=> Dun) /\ gwConfig' = gwConfig BY <1>d, <1>e DEF GwOn, Dun
  <2>3. /\ GwTodoOK' /\ GwReups' /\ ~GwClosesFirst' /\ ~GwRelists' /\ ~GwRests'
        /\ ~GwNoListen' /\ ~GwNoAccept' /\ ~GwDropped' /\ ~GwDownGone' /\ ~GwUpGone'
        /\ gwWorld'.adapter \notin {"closed", "off"}
    BY <2>2, GwBusyNext
  <2>4. GwPastOK' BY <1>0, <1>d DEF GwPastOK
  <2>5. GwCalm' <=> GwCalm BY <1>d, GwCalmKept
  <2>6. \A t \in GwThreads : GwJoins(t) => t = "up" BY GwMayJoin DEF GwJoinsNone
  <2>7. \A t \in GwThreads : GwJoins(t)' <=> t = "up" BY DEF GwJoinsNone, GwOnlyJoins, GwMStops, GwMEnds
  <2> QED BY <2>1, <2>2, <2>3, <2>4, <2>5, <2>6, <2>7
<1>t. GwTyped'
  <2>1. GwFieldsOK' BY <1>0, <1>e, <1>f DEF GwFieldsOK
  <2>2. GwLocksOK' BY <1>0, <1>e DEF GwLocksOK
  <2>3. GwQueueOK' BY <1>0, <1>e, <1>f DEF GwQueueOK, GwConn
  <2>4. GwWorldOK' BY <1>0, <1>e, <1>f DEF GwWorldOK, GwConn
  <2>5. GwLocals(0..gwConfig.conns)' BY <1>e, <1>f, <1>s DEF GwLocals
  <2> QED BY <1>0, <1>e, <1>f, <1>i, <2>1, <2>2, <2>3, <2>4, <2>5 DEF GwTyped
<1>1. GwLocked' BY <1>e, <1>f, <1>i, <1>0 DEF GwListsKept, GwLocked, GwThreads, GwLocksOK
<1>2. GwClosed' BY <1>e, <1>f, <1>i DEF GwListsKept, GwClosed
<1>3. GwNamed' BY <1>e, <1>f, <1>i DEF GwListsKept, GwNamed
<1>r. GwCalm' => GwOneAtATime' /\ GwServesAllowed' /\ GwOneOpen' /\ GwReports'
  <2> SUFFICES ASSUME GwCalm' PROVE GwOneAtATime' /\ GwServesAllowed' /\ GwOneOpen' /\ GwReports' OBVIOUS
  <2>0. GwOneAtATime /\ GwServesAllowed /\ GwOneOpen /\ GwReports BY <1>f, <1>i
  <2>1. GwOneAtATime'
    BY <1>e, <1>f, <2>0 DEF GwListsKept, GwOneAtATime, GwURuns, GwOver, GwServes, GwBusy, GwFree
  <2>2. GwServesAllowed' BY <1>e, <1>f, <2>0 DEF GwListsKept, GwServesAllowed, GwTaken
  <2>3. GwOneOpen' BY <1>e, <1>f, <2>0 DEF GwListsKept, GwOneOpen
  <2>4. GwReports' BY <1>e, <1>f, <2>0 DEF GwListsKept, GwReports, GwServes
  <2> QED BY <2>1, <2>2, <2>3, <2>4
<1> QED BY <1>1, <1>2, <1>3, <1>f, <1>r, <1>t DEF GwInv, GwRegular

\* It has ended, and a new one is started.
LEMMA GwOnStartsAccept ==
  ASSUME GwInv, GwOn, GwRelists, GwMEnds("accept", "start"), GwRests'
  PROVE  GwInv'
<1>i. /\ GwTyped /\ GwTodoOK /\ GwLocked /\ GwClosed /\ GwNamed
      /\ (GwCalm => GwOneAtATime /\ GwServesAllowed /\ GwOneOpen /\ GwReports)
  BY DEF GwInv, GwRegular
<1>s. PICK S : S = 0..gwConfig.conns OBVIOUS
<1>0. /\ 0 \in S /\ gwConfig.conns \in Nat /\ GwLocals(S)
      /\ GwFieldsOK /\ GwLocksOK /\ GwQueueOK /\ GwWorldOK /\ GwPastOK
  BY <1>i, <1>s DEF GwTyped
<1>a. Joined("accept", "start") BY DEF GwMEnds
<1>d. gwConfig' = gwConfig /\ gwPast' = gwPast /\ gw' = gw /\ gwWorld' = gwWorld /\ gwQueue' = gwQueue
  BY DEF GwMEnds, GwSame
<1>b. GwLocals(S)' /\ GwA' = "start" /\ GwAConn' = 0 /\ UNCHANGED <<GwU, GwUConn, GwUInt, GwD, GwDConn>>
  <2>1. {"accept", "up", "down"} \subseteq GwThreads BY DEF GwThreads
  <2>2. /\ GwLocals(S)' /\ gwThread'["accept"] = GwNew("start")
        /\ \A u \in GwThreads \ {"accept"} : gwThread'[u] = gwThread[u]
    BY <1>0, <1>a, <2>1, GwJoinedEffect DEF GwLabels
  <2>3. gwThread'["up"] = gwThread["up"] /\ gwThread'["down"] = gwThread["down"] BY <2>1, <2>2
  <2> QED BY <2>2, <2>3 DEF GwA, GwAConn, GwU, GwUConn, GwUInt, GwD, GwDConn, GwNew
<1>l. /\ gwLock["accept"] \in {"free", "main"} /\ gwLock' = [gwLock EXCEPT !["accept"] = "free"]
      /\ GwA \in {"none", "done"}
  BY <1>a DEF GwMEnds, Joined, Running, GwA
<1>e. /\ GwLocals(S)'
      /\ GwA \in {"none", "done"}
      /\ GwA' = "start" /\ GwAConn' = 0 /\ UNCHANGED <<GwU, GwUConn, GwUInt, GwD, GwDConn>>
      /\ gw' = gw
      /\ gwWorld' = gwWorld
      /\ gwQueue' = gwQueue
      /\ gwLock["accept"] \in {"free", "main"} /\ gwLock' = [gwLock EXCEPT !["accept"] = "free"]
  BY <1>b, <1>d, <1>l
<1>f. /\ GwOn /\ GwOn' /\ (Dun' <=> Dun) /\ GwTodoOK' /\ gwConfig' = gwConfig /\ GwPastOK'
      /\ (GwCalm' <=> GwCalm)
      /\ GwRelists /\ ~GwClosesFirst /\ ~GwReups /\ ~GwRests
      /\ GwRests' /\ ~GwClosesFirst' /\ ~GwRelists' /\ ~GwReups'
      /\ ~GwNoListen' /\ ~GwNoAccept' /\ ~GwDropped' /\ ~GwDownGone' /\ ~GwUpGone'
      /\ gwWorld'.adapter \notin {"closed", "off"}
      /\ \A t \in GwThreads : GwJoins(t) => t = "accept"
      /\ \A t \in GwThreads : ~GwJoins(t)'
  <2>1. GwRelists /\ ~GwClosesFirst /\ ~GwReups /\ ~GwRests BY GwApart
  <2>2. GwOn /\ GwOn' /\ (Dun' <=> Dun) /\ gwConfig' = gwConfig BY <1>d, <1>e DEF GwOn, Dun
  <2>3. /\ GwTodoOK' /\ GwRests' /\ ~GwClosesFirst' /\ ~GwRelists' /\ ~GwReups'
        /\ ~GwNoListen' /\ ~GwNoAccept' /\ ~GwDropped' /\ ~GwDownGone' /\ ~GwUpGone'
        /\ gwWorld'.adapter \notin {"closed", "off"}
    BY <2>2, GwBusyNext
  <2>4. GwPastOK' BY <1>0, <1>d DEF GwPastOK
  <2>5. GwCalm' <=> GwCalm BY <1>d, GwCalmKept
  <2>6. \A t \in GwThreads : GwJoins(t) => t = "accept" BY GwMayJoin DEF GwJoinsNone
  <2>7. \A t \in GwThreads : ~GwJoins(t)' BY DEF GwJoinsNone, GwOnlyJoins, GwMStops, GwMEnds
  <2> QED BY <2>1, <2>2, <2>3, <2>4, <2>5, <2>6, <2>7
<1>t. GwTyped'
  <2>1. GwFieldsOK' BY <1>0, <1>e, <1>f DEF GwFieldsOK
  <2>2. GwLocksOK' BY <1>0, <1>e DEF GwLocksOK
  <2>3. GwQueueOK' BY <1>0, <1>e, <1>f DEF GwQueueOK, GwConn
  <2>4. GwWorldOK' BY <1>0, <1>e, <1>f DEF GwWorldOK, GwConn
  <2>5. GwLocals(0..gwConfig.conns)' BY <1>e, <1>f, <1>s DEF GwLocals
  <2> QED BY <1>0, <1>e, <1>f, <1>i, <2>1, <2>2, <2>3, <2>4, <2>5 DEF GwTyped
<1>1. GwLocked' BY <1>e, <1>f, <1>i, <1>0 DEF GwListsKept, GwLocked, GwThreads, GwLocksOK
<1>2. GwClosed' BY <1>e, <1>f, <1>i DEF GwListsKept, GwClosed
<1>3. GwNamed' BY <1>e, <1>f, <1>i DEF GwListsKept, GwNamed
<1>r. GwCalm' => GwOneAtATime' /\ GwServesAllowed' /\ GwOneOpen' /\ GwReports'
  <2> SUFFICES ASSUME GwCalm' PROVE GwOneAtATime' /\ GwServesAllowed' /\ GwOneOpen' /\ GwReports' OBVIOUS
  <2>0. GwOneAtATime /\ GwServesAllowed /\ GwOneOpen /\ GwReports BY <1>f, <1>i
  <2>1. GwOneAtATime'
    BY <1>e, <1>f, <2>0 DEF GwListsKept, GwOneAtATime, GwURuns, GwOver, GwServes, GwBusy, GwFree
  <2>2. GwServesAllowed'
    BY <1>e, <1>f, <2>0
       DEF GwListsKept, GwServesAllowed, GwTaken, GwOneAtATime, GwURuns, GwOver, GwServes, GwBusy, GwFree
  <2>3. GwOneOpen'
    BY <1>e, <1>f, <2>0 DEF GwListsKept, GwOneOpen, GwOneAtATime, GwURuns, GwOver, GwServes, GwBusy, GwFree
  <2>4. GwReports'
    BY <1>e, <1>f, <2>0
       DEF GwListsKept, GwReports, GwServes, GwOneAtATime, GwURuns, GwOver, GwServes, GwBusy, GwFree
  <2> QED BY <2>1, <2>2, <2>3, <2>4
<1> QED BY <1>1, <1>2, <1>3, <1>f, <1>r, <1>t DEF GwInv, GwRegular

\* It has ended, and a new one is started.
LEMMA GwOnStartsUp ==
  ASSUME GwInv, GwOn, GwReups, GwMEnds("up", "start"), GwRests'
  PROVE  GwInv'
<1>i. /\ GwTyped /\ GwTodoOK /\ GwLocked /\ GwClosed /\ GwNamed
      /\ (GwCalm => GwOneAtATime /\ GwServesAllowed /\ GwOneOpen /\ GwReports)
  BY DEF GwInv, GwRegular
<1>s. PICK S : S = 0..gwConfig.conns OBVIOUS
<1>0. /\ 0 \in S /\ gwConfig.conns \in Nat /\ GwLocals(S)
      /\ GwFieldsOK /\ GwLocksOK /\ GwQueueOK /\ GwWorldOK /\ GwPastOK
  BY <1>i, <1>s DEF GwTyped
<1>a. Joined("up", "start") BY DEF GwMEnds
<1>d. gwConfig' = gwConfig /\ gwPast' = gwPast /\ gw' = gw /\ gwWorld' = gwWorld /\ gwQueue' = gwQueue
  BY DEF GwMEnds, GwSame
<1>b. /\ GwLocals(S)' /\ GwU' = "start" /\ GwUConn' = 0 /\ GwUInt' = FALSE
      /\ UNCHANGED <<GwA, GwAConn, GwD, GwDConn>>
  <2>1. {"accept", "up", "down"} \subseteq GwThreads BY DEF GwThreads
  <2>2. /\ GwLocals(S)' /\ gwThread'["up"] = GwNew("start")
        /\ \A u \in GwThreads \ {"up"} : gwThread'[u] = gwThread[u]
    BY <1>0, <1>a, <2>1, GwJoinedEffect DEF GwLabels
  <2>3. gwThread'["accept"] = gwThread["accept"] /\ gwThread'["down"] = gwThread["down"] BY <2>1, <2>2
  <2> QED BY <2>2, <2>3 DEF GwA, GwAConn, GwU, GwUConn, GwUInt, GwD, GwDConn, GwNew
<1>l. /\ gwLock["up"] \in {"free", "main"} /\ gwLock' = [gwLock EXCEPT !["up"] = "free"]
      /\ GwU \in {"none", "done"}
  BY <1>a DEF GwMEnds, Joined, Running, GwU
<1>e. /\ GwLocals(S)'
      /\ GwU \in {"none", "done"}
      /\ GwU' = "start" /\ GwUConn' = 0 /\ GwUInt' = FALSE /\ UNCHANGED <<GwA, GwAConn, GwD, GwDConn>>
      /\ gw' = gw
      /\ gwWorld' = gwWorld
      /\ gwQueue' = gwQueue
      /\ gwLock["up"] \in {"free", "main"} /\ gwLock' = [gwLock EXCEPT !["up"] = "free"]
  BY <1>b, <1>d, <1>l
<1>f. /\ GwOn /\ GwOn' /\ (Dun' <=> Dun) /\ GwTodoOK' /\ gwConfig' = gwConfig /\ GwPastOK'
      /\ (GwCalm' <=> GwCalm)
      /\ GwReups /\ ~GwClosesFirst /\ ~GwRelists /\ ~GwRests
      /\ GwRests' /\ ~GwClosesFirst' /\ ~GwRelists' /\ ~GwReups'
      /\ ~GwNoListen' /\ ~GwNoAccept' /\ ~GwDropped' /\ ~GwDownGone' /\ ~GwUpGone'
      /\ gwWorld'.adapter \notin {"closed", "off"}
      /\ \A t \in GwThreads : GwJoins(t) => t = "up"
      /\ \A t \in GwThreads : ~GwJoins(t)'
  <2>1. GwReups /\ ~GwClosesFirst /\ ~GwRelists /\ ~GwRests BY GwApart
  <2>2. GwOn /\ GwOn' /\ (Dun' <=> Dun) /\ gwConfig' = gwConfig BY <1>d, <1>e DEF GwOn, Dun
  <2>3. /\ GwTodoOK' /\ GwRests' /\ ~GwClosesFirst' /\ ~GwRelists' /\ ~GwReups'
        /\ ~GwNoListen' /\ ~GwNoAccept' /\ ~GwDropped' /\ ~GwDownGone' /\ ~GwUpGone'
        /\ gwWorld'.adapter \notin {"closed", "off"}
    BY <2>2, GwBusyNext
  <2>4. GwPastOK' BY <1>0, <1>d DEF GwPastOK
  <2>5. GwCalm' <=> GwCalm BY <1>d, GwCalmKept
  <2>6. \A t \in GwThreads : GwJoins(t) => t = "up" BY GwMayJoin DEF GwJoinsNone
  <2>7. \A t \in GwThreads : ~GwJoins(t)' BY DEF GwJoinsNone, GwOnlyJoins, GwMStops, GwMEnds
  <2> QED BY <2>1, <2>2, <2>3, <2>4, <2>5, <2>6, <2>7
<1>t. GwTyped'
  <2>1. GwFieldsOK' BY <1>0, <1>e, <1>f DEF GwFieldsOK
  <2>2. GwLocksOK' BY <1>0, <1>e DEF GwLocksOK
  <2>3. GwQueueOK' BY <1>0, <1>e, <1>f DEF GwQueueOK, GwConn
  <2>4. GwWorldOK' BY <1>0, <1>e, <1>f DEF GwWorldOK, GwConn
  <2>5. GwLocals(0..gwConfig.conns)' BY <1>e, <1>f, <1>s DEF GwLocals
  <2> QED BY <1>0, <1>e, <1>f, <1>i, <2>1, <2>2, <2>3, <2>4, <2>5 DEF GwTyped
<1>1. GwLocked' BY <1>e, <1>f, <1>i, <1>0 DEF GwListsKept, GwLocked, GwThreads, GwLocksOK
<1>2. GwClosed' BY <1>e, <1>f, <1>i DEF GwListsKept, GwClosed
<1>3. GwNamed' BY <1>e, <1>f, <1>i DEF GwListsKept, GwNamed
<1>r. GwCalm' => GwOneAtATime' /\ GwServesAllowed' /\ GwOneOpen' /\ GwReports'
  <2> SUFFICES ASSUME GwCalm' PROVE GwOneAtATime' /\ GwServesAllowed' /\ GwOneOpen' /\ GwReports' OBVIOUS
  <2>0. GwOneAtATime /\ GwServesAllowed /\ GwOneOpen /\ GwReports BY <1>f, <1>i
  <2>1. GwOneAtATime'
    BY <1>e, <1>f, <2>0 DEF GwListsKept, GwOneAtATime, GwURuns, GwOver, GwServes, GwBusy, GwFree
  <2>2. GwServesAllowed'
    BY <1>e, <1>f, <2>0
       DEF GwListsKept, GwServesAllowed, GwTaken, GwOneAtATime, GwURuns, GwOver, GwServes, GwBusy, GwFree
  <2>3. GwOneOpen'
    BY <1>e, <1>f, <2>0 DEF GwListsKept, GwOneOpen, GwOneAtATime, GwURuns, GwOver, GwServes, GwBusy, GwFree
  <2>4. GwReports'
    BY <1>e, <1>f, <2>0
       DEF GwListsKept, GwReports, GwServes, GwOneAtATime, GwURuns, GwOver, GwServes, GwBusy, GwFree
  <2> QED BY <2>1, <2>2, <2>3, <2>4
<1> QED BY <1>1, <1>2, <1>3, <1>f, <1>r, <1>t DEF GwInv, GwRegular

\* A step of the main thread while Bluetooth is on.
LEMMA GwMainOnStep ==
  ASSUME GwInv, GwOn, MainStep
  PROVE  GwInv'
<1>1. /\ GwClosesFirst \/ GwRelists \/ GwReups \/ GwRests
      /\ \A t \in GwThreads : gwLock[t] = "main" <=> GwJoins(t)
  BY DEF GwInv, GwTodoOK, GwLocked
<1>2. \/ /\ GwClosesFirst /\ UNCHANGED gwConfig /\ Fields(GwCloseRfcomm)
         /\ GwRelists' /\ GwJoinsNone'
      \/ GwRelists /\ GwMStops("accept") /\ GwRelists'
      \/ GwRelists /\ GwMEnds("accept", "start") /\ GwRests'
      \/ GwReups /\ GwMStops("up") /\ GwReups'
      \/ GwReups /\ GwMEnds("up", "start") /\ GwRests'
      \/ /\ GwRests /\ UNCHANGED gwConfig /\ Fields(GwRemove)
         /\ GwRests' /\ GwJoinsNone'
  BY <1>1, GwMainOn
<1> QED BY <1>2, GwOnClosesRfcomm, GwOnRemoves, GwOnStopsAccept, GwOnStopsUp, GwOnStartsAccept, GwOnStartsUp

\* What is closed changes only where the list passes the step that closes it.
LEMMA GwClosing ==
  ASSUME GwCloses, GwCloses', UNCHANGED gwConfig, gwWorld'.adapter = gwWorld.adapter,
         gwWorld.adapter \in {"turning_off", "closed"}, gwTodo # <<>>,
         NEW n \in Nat, n = Len(gwTodo), NEW m \in Nat, m = Len(gwTodo'), m > 0
  PROVE  /\ GwTodoOK' /\ ~GwOn /\ ~GwOn' /\ (Dun' <=> Dun)
         /\ (n < GwCloseLen - 1 <=> m < GwCloseLen - 1) => (GwNoListen' <=> GwNoListen)
         /\ (n < GwCloseLen - 2 <=> m < GwCloseLen - 2) => (GwDropped' <=> GwDropped)
         /\ (n < 2 <=> m < 2) => (GwNoAccept' <=> GwNoAccept)
         /\ (n < 7 <=> m < 7) => (GwDownGone' <=> GwDownGone)
         /\ (n < 5 <=> m < 5) => (GwUpGone' <=> GwUpGone)
<1>1. gwTodo' # <<>>
  <2>1. Len(<<>>) = 0 OBVIOUS
  <2> QED BY <2>1
<1>2. ~GwOn /\ ~GwOn' /\ GwTodoOK' BY <1>1 DEF GwOn, GwTodoOK
<1>3. (Dun' <=> Dun) /\ GwCloseLen' = GwCloseLen BY DEF Dun, GwCloseLen
<1>4. (n < GwCloseLen - 1 <=> m < GwCloseLen - 1) => (GwNoListen' <=> GwNoListen) BY <1>3 DEF GwNoListen
<1>5. (n < GwCloseLen - 2 <=> m < GwCloseLen - 2) => (GwDropped' <=> GwDropped)
  BY <1>1, <1>3 DEF GwDropped, GwLeft
<1>6. (n < 2 <=> m < 2) => (GwNoAccept' <=> GwNoAccept) BY DEF GwNoAccept
<1>7. (n < 7 <=> m < 7) => (GwDownGone' <=> GwDownGone) BY <1>1 DEF GwDownGone, GwLeft
<1>8. (n < 5 <=> m < 5) => (GwUpGone' <=> GwUpGone) BY <1>1 DEF GwUpGone, GwLeft
<1> QED BY <1>2, <1>3, <1>4, <1>5, <1>6, <1>7, <1>8

\* A step of closeService that sets fields passes only the place that its name says.
LEMMA GwFieldPlaces ==
  ASSUME NEW what \in GwFieldSteps, NEW n \in Nat, n = GwFieldAt(what), NEW m \in Nat, m = n - 1
  PROVE  /\ m > 0 /\ (n < 2 <=> m < 2) /\ (n < 7 <=> m < 7) /\ (n < 5 <=> m < 5)
         /\ what # "closeListen" => (n < GwCloseLen - 1 <=> m < GwCloseLen - 1)
         /\ what # "closeRfcomm" => (n < GwCloseLen - 2 <=> m < GwCloseLen - 2)
         /\ \A t \in GwThreads : ~(n = GwJoinAt(t) /\ (t = "mon" => Dun))
<1>1. GwCloseLen = IF Dun THEN 14 ELSE 12 BY DEF GwCloseLen
<1>2. n = CASE what = "interrupt" -> GwCloseLen [] what = "closeListen" -> GwCloseLen - 1
            [] what = "closeRfcomm" -> GwCloseLen - 2 [] what = "closeServer" -> GwCloseLen - 3
            [] what = "removeStart" -> 4
  BY DEF GwFieldAt, GwFieldSteps
<1>a. \A t \in GwThreads : GwJoinAt(t) = CASE t = "accept" -> 2 [] t = "up" -> 5 [] t = "down" -> 7 [] t = "mon" -> 9
  BY DEF GwJoinAt, GwThreads
<1>3. CASE Dun
  <2>1. GwCloseLen = 14 BY <1>1, <1>3
  <2>2. n \in {4, 11, 12, 13, 14} /\ (n = 13 => what = "closeListen") /\ (n = 12 => what = "closeRfcomm")
    BY <1>2, <2>1 DEF GwFieldSteps
  <2>3. \A t \in GwThreads : n # GwJoinAt(t) BY <1>a, <2>2 DEF GwThreads
  <2> QED BY <2>1, <2>2, <2>3
<1>4. CASE ~Dun
  <2>1. GwCloseLen = 12 BY <1>1, <1>4
  <2>2. n \in {4, 9, 10, 11, 12} /\ (n = 11 => what = "closeListen") /\ (n = 10 => what = "closeRfcomm")
    BY <1>2, <2>1 DEF GwFieldSteps
  <2>3. \A t \in GwThreads : n = GwJoinAt(t) => t = "mon" BY <1>a, <2>2 DEF GwThreads
  <2> QED BY <1>4, <2>1, <2>2, <2>3
<1> QED BY <1>3, <1>4

\* A step of closeService about a thread passes only the place where it is joined.
LEMMA GwJoinPlaces ==
  ASSUME NEW t \in GwThreads, t = "mon" => Dun, NEW n \in Nat, NEW m \in Nat,
         \/ n = GwJoinAt(t) + 1 /\ m = GwJoinAt(t)
         \/ n \in {GwJoinAt(t), GwJoinAt(t) + 1} /\ m = GwJoinAt(t) - 1
  PROVE  /\ m > 0 /\ (n < GwCloseLen - 1 <=> m < GwCloseLen - 1) /\ (n < GwCloseLen - 2 <=> m < GwCloseLen - 2)
         /\ t # "accept" \/ m = GwJoinAt(t) => (n < 2 <=> m < 2)
         /\ t # "down" \/ m = GwJoinAt(t) => (n < 7 <=> m < 7)
         /\ t # "up" \/ m = GwJoinAt(t) => (n < 5 <=> m < 5)
         /\ \A u \in GwThreads : n = GwJoinAt(u) => u = t
         /\ m = GwJoinAt(t) => \A u \in GwThreads : n # GwJoinAt(u)
<1>1. GwCloseLen = IF Dun THEN 14 ELSE 12 BY DEF GwCloseLen
<1>a. \A u \in GwThreads : GwJoinAt(u) = CASE u = "accept" -> 2 [] u = "up" -> 5 [] u = "down" -> 7 [] u = "mon" -> 9
  BY DEF GwJoinAt, GwThreads
<1>b. {"accept", "up", "down", "mon"} = GwThreads BY DEF GwThreads
<1>2. GwJoinAt("accept") = 2 /\ GwJoinAt("up") = 5 /\ GwJoinAt("down") = 7 /\ GwJoinAt("mon") = 9
  BY <1>a, <1>b
<1>3. CASE t = "accept"
  <2>1. n \in {2, 3} /\ m \in {1, 2} /\ (m = 2 => n = 3) BY <1>2, <1>3
  <2>2. \A u \in GwThreads : GwJoinAt(u) \in {2, 5, 7, 9} /\ (GwJoinAt(u) = 2 => u = t) BY <1>2, <1>3, <1>b
  <2> QED BY <1>1, <1>2, <1>3, <2>1, <2>2
<1>4. CASE t = "up"
  <2>1. n \in {5, 6} /\ m \in {4, 5} /\ (m = 5 => n = 6) BY <1>2, <1>4
  <2>2. \A u \in GwThreads : GwJoinAt(u) \in {2, 5, 7, 9} /\ (GwJoinAt(u) = 5 => u = t) BY <1>2, <1>4, <1>b
  <2> QED BY <1>1, <1>2, <1>4, <2>1, <2>2
<1>5. CASE t = "down"
  <2>1. n \in {7, 8} /\ m \in {6, 7} /\ (m = 7 => n = 8) BY <1>2, <1>5
  <2>2. \A u \in GwThreads : GwJoinAt(u) \in {2, 5, 7, 9} /\ (GwJoinAt(u) = 7 => u = t) BY <1>2, <1>5, <1>b
  <2> QED BY <1>1, <1>2, <1>5, <2>1, <2>2
<1>6. CASE t = "mon"
  <2>1. n \in {9, 10} /\ m \in {8, 9} /\ (m = 9 => n = 10) BY <1>2, <1>6
  <2>2. \A u \in GwThreads : GwJoinAt(u) \in {2, 5, 7, 9} /\ (GwJoinAt(u) = 9 => u = t) BY <1>2, <1>6, <1>b
  <2>3. GwCloseLen = 14 BY <1>1, <1>6
  <2> QED BY <1>2, <1>6, <2>1, <2>2, <2>3
<1> QED BY <1>3, <1>4, <1>5, <1>6, <1>b

\* closeService: the flag is set, ...
LEMMA GwCloseInterrupt ==
  ASSUME GwInv, gwWorld.adapter \in {"turning_off", "closed"}, GwCloses, gwTodo # <<>>, NEW n \in Nat,
         n = Len(gwTodo), NEW m \in Nat, m = Len(gwTodo'), GwCloses', UNCHANGED gwConfig,
         Fields(GwTask("interrupt", "accept")), GwJoinsNone', n = GwFieldAt("interrupt"), m = n - 1
  PROVE  GwInv'
<1>i. /\ GwTyped /\ GwTodoOK /\ GwLocked /\ GwClosed /\ GwNamed
      /\ (GwCalm => GwOneAtATime /\ GwServesAllowed /\ GwOneOpen /\ GwReports)
  BY DEF GwInv, GwRegular
<1>s. PICK S : S = 0..gwConfig.conns OBVIOUS
<1>0. /\ 0 \in S /\ gwConfig.conns \in Nat /\ GwLocals(S)
      /\ GwFieldsOK /\ GwLocksOK /\ GwQueueOK /\ GwWorldOK /\ GwPastOK
  BY <1>i, <1>s DEF GwTyped
<1>k. GwTask("interrupt", "accept").do = "interrupt" BY DEF GwTask
<1>p. gwPast' = [gwPast EXCEPT !.stale = @] BY <1>k DEF Fields
<1>d. /\ gwConfig' = gwConfig /\ gwLock' = gwLock /\ gwPast' = gwPast /\ gwTodo' = Tail(gwTodo)
      /\ gwThread' = gwThread /\ gwWorld' = gwWorld /\ gwQueue' = gwQueue
  BY <1>0, <1>k, <1>p DEF Fields, GwPastOK
<1>a. gw' = [gw EXCEPT !.interrupted = TRUE] BY <1>k DEF Fields
<1>g. gw'.rfcomm = gw.rfcomm /\ gw'.remote = gw.remote /\ gw'.waiting = gw.waiting /\ gw'.listen = gw.listen
  BY <1>0, <1>a DEF GwFieldsOK
<1>b. GwLocals(S)' /\ UNCHANGED <<GwA, GwAConn, GwU, GwUConn, GwUInt, GwD, GwDConn>>
  BY <1>0, <1>d, GwSameThreads
<1>e. /\ GwLocals(S)'
      /\ UNCHANGED <<GwA, GwAConn, GwU, GwUConn, GwUInt, GwD, GwDConn>>
      /\ gw'.rfcomm = gw.rfcomm
      /\ gw'.remote = gw.remote
      /\ gw'.waiting = gw.waiting
      /\ gw'.listen = gw.listen
      /\ gwWorld' = gwWorld
      /\ gwQueue' = gwQueue
      /\ gwLock' = gwLock
  BY <1>b, <1>d, <1>g
<1>f. /\ ~GwOn /\ ~GwOn' /\ (Dun' <=> Dun) /\ GwTodoOK' /\ gwConfig' = gwConfig /\ GwPastOK'
      /\ (GwCalm' <=> GwCalm)
      /\ (GwNoListen' <=> GwNoListen) /\ (GwNoAccept' <=> GwNoAccept) /\ (GwDropped' <=> GwDropped)
      /\ (GwDownGone' <=> GwDownGone) /\ (GwUpGone' <=> GwUpGone)
      /\ \A t \in GwThreads : ~GwJoins(t)
      /\ \A t \in GwThreads : ~GwJoins(t)'
  <2>1. /\ m > 0 /\ (n < 2 <=> m < 2) /\ (n < 7 <=> m < 7) /\ (n < 5 <=> m < 5)
        /\ (n < GwCloseLen - 1 <=> m < GwCloseLen - 1) /\ (n < GwCloseLen - 2 <=> m < GwCloseLen - 2)
        /\ \A t \in GwThreads : ~(n = GwJoinAt(t) /\ (t = "mon" => Dun))
    <3>1. "interrupt" \in GwFieldSteps BY DEF GwFieldSteps
    <3> QED BY <3>1, GwFieldPlaces
  <2>2. GwTodoOK' /\ ~GwOn /\ ~GwOn' /\ (Dun' <=> Dun)
        /\ (GwNoListen' <=> GwNoListen) /\ (GwNoAccept' <=> GwNoAccept) /\ (GwDropped' <=> GwDropped)
        /\ (GwDownGone' <=> GwDownGone) /\ (GwUpGone' <=> GwUpGone)
    BY <1>d, <1>e, <2>1, GwClosing
  <2>3. GwPastOK' BY <1>0, <1>d DEF GwPastOK
  <2>4. GwCalm' <=> GwCalm BY <1>d, GwCalmKept
  <2>5. \A t \in GwThreads : GwJoins(t) <=> n = GwJoinAt(t) /\ (t = "mon" => Dun) BY GwCloseJoins
  <2>6. \A t \in GwThreads : ~GwJoins(t) BY <2>1, <2>5
  <2>7. \A t \in GwThreads : ~GwJoins(t)' BY DEF GwJoinsNone
  <2> QED BY <1>d, <2>2, <2>3, <2>4, <2>6, <2>7
<1>t. GwTyped'
  <2>1. GwFieldsOK' BY <1>0, <1>a, <1>f DEF GwFieldsOK
  <2>2. GwLocksOK' BY <1>0, <1>e, <1>f DEF GwLocksOK
  <2>3. GwQueueOK' BY <1>0, <1>e, <1>f DEF GwQueueOK, GwConn
  <2>4. GwWorldOK' BY <1>0, <1>e, <1>f DEF GwWorldOK, GwConn
  <2>5. GwLocals(0..gwConfig.conns)' BY <1>e, <1>f, <1>s DEF GwLocals
  <2> QED BY <1>0, <1>e, <1>f, <1>i, <2>1, <2>2, <2>3, <2>4, <2>5 DEF GwTyped
<1>1. GwLocked' BY <1>e, <1>f, <1>i DEF GwListsKept, GwLocked, GwThreads
<1>2. GwClosed' BY <1>e, <1>f, <1>i DEF GwListsKept, GwClosed
<1>3. GwNamed' BY <1>e, <1>f, <1>i DEF GwListsKept, GwNamed
<1>r. GwCalm' => GwOneAtATime' /\ GwServesAllowed' /\ GwOneOpen' /\ GwReports'
  <2> SUFFICES ASSUME GwCalm' PROVE GwOneAtATime' /\ GwServesAllowed' /\ GwOneOpen' /\ GwReports' OBVIOUS
  <2>0. GwOneAtATime /\ GwServesAllowed /\ GwOneOpen /\ GwReports BY <1>f, <1>i
  <2>1. GwOneAtATime'
    BY <1>e, <1>f, <2>0 DEF GwListsKept, GwOneAtATime, GwURuns, GwOver, GwServes, GwBusy, GwFree
  <2>2. GwServesAllowed' BY <1>e, <1>f, <2>0 DEF GwListsKept, GwServesAllowed, GwTaken
  <2>3. GwOneOpen' BY <1>e, <1>f, <2>0 DEF GwListsKept, GwOneOpen
  <2>4. GwReports' BY <1>e, <1>f, <2>0 DEF GwListsKept, GwReports, GwServes
  <2> QED BY <2>1, <2>2, <2>3, <2>4
<1> QED BY <1>1, <1>2, <1>3, <1>f, <1>r, <1>t DEF GwInv, GwRegular

\* ... the listening socket closed, ...
LEMMA GwCloseCloseListen ==
  ASSUME GwInv, gwWorld.adapter \in {"turning_off", "closed"}, GwCloses, gwTodo # <<>>, NEW n \in Nat,
         n = Len(gwTodo), NEW m \in Nat, m = Len(gwTodo'), GwCloses', UNCHANGED gwConfig,
         Fields(GwTask("closeListen", "accept")), GwJoinsNone', n = GwFieldAt("closeListen"), m = n - 1
  PROVE  GwInv'
<1>i. /\ GwTyped /\ GwTodoOK /\ GwLocked /\ GwClosed /\ GwNamed
      /\ (GwCalm => GwOneAtATime /\ GwServesAllowed /\ GwOneOpen /\ GwReports)
  BY DEF GwInv, GwRegular
<1>s. PICK S : S = 0..gwConfig.conns OBVIOUS
<1>0. /\ 0 \in S /\ gwConfig.conns \in Nat /\ GwLocals(S)
      /\ GwFieldsOK /\ GwLocksOK /\ GwQueueOK /\ GwWorldOK /\ GwPastOK
  BY <1>i, <1>s DEF GwTyped
<1>k. GwTask("closeListen", "accept").do = "closeListen" BY DEF GwTask
<1>p. gwPast' = [gwPast EXCEPT !.stale = @] BY <1>k DEF Fields
<1>d. /\ gwConfig' = gwConfig /\ gwLock' = gwLock /\ gwPast' = gwPast /\ gwTodo' = Tail(gwTodo)
      /\ gwThread' = gwThread /\ gwWorld' = gwWorld /\ gwQueue' = gwQueue
  BY <1>0, <1>k, <1>p DEF Fields, GwPastOK
<1>a. gw' = [gw EXCEPT !.listen = FALSE] BY <1>k DEF Fields
<1>g. gw'.rfcomm = gw.rfcomm /\ gw'.remote = gw.remote /\ gw'.waiting = gw.waiting /\ gw'.listen = FALSE
  BY <1>0, <1>a DEF GwFieldsOK
<1>b. GwLocals(S)' /\ UNCHANGED <<GwA, GwAConn, GwU, GwUConn, GwUInt, GwD, GwDConn>>
  BY <1>0, <1>d, GwSameThreads
<1>e. /\ GwLocals(S)'
      /\ UNCHANGED <<GwA, GwAConn, GwU, GwUConn, GwUInt, GwD, GwDConn>>
      /\ gw'.rfcomm = gw.rfcomm
      /\ gw'.remote = gw.remote
      /\ gw'.waiting = gw.waiting
      /\ gw'.listen = FALSE
      /\ gwWorld' = gwWorld
      /\ gwQueue' = gwQueue
      /\ gwLock' = gwLock
  BY <1>b, <1>d, <1>g
<1>f. /\ ~GwOn /\ ~GwOn' /\ (Dun' <=> Dun) /\ GwTodoOK' /\ gwConfig' = gwConfig /\ GwPastOK'
      /\ (GwCalm' <=> GwCalm)
      /\ (GwNoAccept' <=> GwNoAccept) /\ (GwDropped' <=> GwDropped) /\ (GwDownGone' <=> GwDownGone)
      /\ (GwUpGone' <=> GwUpGone)
      /\ \A t \in GwThreads : ~GwJoins(t)
      /\ \A t \in GwThreads : ~GwJoins(t)'
  <2>1. /\ m > 0 /\ (n < 2 <=> m < 2) /\ (n < 7 <=> m < 7) /\ (n < 5 <=> m < 5)
        /\ (n < GwCloseLen - 2 <=> m < GwCloseLen - 2)
        /\ \A t \in GwThreads : ~(n = GwJoinAt(t) /\ (t = "mon" => Dun))
    <3>1. "closeListen" \in GwFieldSteps BY DEF GwFieldSteps
    <3> QED BY <3>1, GwFieldPlaces
  <2>2. GwTodoOK' /\ ~GwOn /\ ~GwOn' /\ (Dun' <=> Dun)
        /\ (GwNoAccept' <=> GwNoAccept) /\ (GwDropped' <=> GwDropped) /\ (GwDownGone' <=> GwDownGone)
        /\ (GwUpGone' <=> GwUpGone)
    BY <1>d, <1>e, <2>1, GwClosing
  <2>3. GwPastOK' BY <1>0, <1>d DEF GwPastOK
  <2>4. GwCalm' <=> GwCalm BY <1>d, GwCalmKept
  <2>5. \A t \in GwThreads : GwJoins(t) <=> n = GwJoinAt(t) /\ (t = "mon" => Dun) BY GwCloseJoins
  <2>6. \A t \in GwThreads : ~GwJoins(t) BY <2>1, <2>5
  <2>7. \A t \in GwThreads : ~GwJoins(t)' BY DEF GwJoinsNone
  <2> QED BY <1>d, <2>2, <2>3, <2>4, <2>6, <2>7
<1>t. GwTyped'
  <2>1. GwFieldsOK' BY <1>0, <1>a, <1>f DEF GwFieldsOK
  <2>2. GwLocksOK' BY <1>0, <1>e, <1>f DEF GwLocksOK
  <2>3. GwQueueOK' BY <1>0, <1>e, <1>f DEF GwQueueOK, GwConn
  <2>4. GwWorldOK' BY <1>0, <1>e, <1>f DEF GwWorldOK, GwConn
  <2>5. GwLocals(0..gwConfig.conns)' BY <1>e, <1>f, <1>s DEF GwLocals
  <2> QED BY <1>0, <1>e, <1>f, <1>i, <2>1, <2>2, <2>3, <2>4, <2>5 DEF GwTyped
<1>1. GwLocked' BY <1>e, <1>f, <1>i DEF GwListsKept, GwLocked, GwThreads
<1>2. GwClosed' BY <1>e, <1>f, <1>i DEF GwListsKept, GwClosed
<1>3. GwNamed' BY <1>e, <1>f, <1>i DEF GwListsKept, GwNamed
<1>r. GwCalm' => GwOneAtATime' /\ GwServesAllowed' /\ GwOneOpen' /\ GwReports'
  <2> SUFFICES ASSUME GwCalm' PROVE GwOneAtATime' /\ GwServesAllowed' /\ GwOneOpen' /\ GwReports' OBVIOUS
  <2>0. GwOneAtATime /\ GwServesAllowed /\ GwOneOpen /\ GwReports BY <1>f, <1>i
  <2>1. GwOneAtATime'
    BY <1>e, <1>f, <2>0 DEF GwListsKept, GwOneAtATime, GwURuns, GwOver, GwServes, GwBusy, GwFree
  <2>2. GwServesAllowed' BY <1>e, <1>f, <2>0 DEF GwListsKept, GwServesAllowed, GwTaken
  <2>3. GwOneOpen' BY <1>e, <1>f, <2>0 DEF GwListsKept, GwOneOpen
  <2>4. GwReports' BY <1>e, <1>f, <2>0 DEF GwListsKept, GwReports, GwServes
  <2> QED BY <2>1, <2>2, <2>3, <2>4
<1> QED BY <1>1, <1>2, <1>3, <1>f, <1>r, <1>t DEF GwInv, GwRegular

\* ... the connection, ...
LEMMA GwCloseCloseRfcomm ==
  ASSUME GwInv, gwWorld.adapter \in {"turning_off", "closed"}, GwCloses, gwTodo # <<>>, NEW n \in Nat,
         n = Len(gwTodo), NEW m \in Nat, m = Len(gwTodo'), GwCloses', UNCHANGED gwConfig,
         Fields(GwTask("closeRfcomm", "accept")), GwJoinsNone', n = GwFieldAt("closeRfcomm"), m = n - 1
  PROVE  GwInv'
<1>i. /\ GwTyped /\ GwTodoOK /\ GwLocked /\ GwClosed /\ GwNamed
      /\ (GwCalm => GwOneAtATime /\ GwServesAllowed /\ GwOneOpen /\ GwReports)
  BY DEF GwInv, GwRegular
<1>s. PICK S : S = 0..gwConfig.conns OBVIOUS
<1>0. /\ 0 \in S /\ gwConfig.conns \in Nat /\ GwLocals(S)
      /\ GwFieldsOK /\ GwLocksOK /\ GwQueueOK /\ GwWorldOK /\ GwPastOK
  BY <1>i, <1>s DEF GwTyped
<1>k. GwTask("closeRfcomm", "accept").do = "closeRfcomm" BY DEF GwTask
<1>p. gwPast' = [gwPast EXCEPT !.stale = @] BY <1>k DEF Fields
<1>d. /\ gwConfig' = gwConfig /\ gwLock' = gwLock /\ gwPast' = gwPast /\ gwTodo' = Tail(gwTodo)
      /\ gwThread' = gwThread /\ gwQueue' = gwQueue
  BY <1>0, <1>k, <1>p DEF Fields, GwPastOK
<1>a. gw' = [gw EXCEPT !.rfcomm = 0] /\ gwWorld' = RfcommClosed BY <1>k DEF Fields
<1>g. /\ gw'.rfcomm = 0 /\ gw'.remote = gw.remote /\ gw'.waiting = gw.waiting /\ gw'.listen = gw.listen
      /\ gwWorld'.adapter = gwWorld.adapter /\ gwWorld'.open = gwWorld.open \ {gw.rfcomm}
      /\ gwWorld'.allowed = gwWorld.allowed /\ gwWorld'.told = gwWorld.told
  BY <1>0, <1>a DEF GwFieldsOK, GwWorldOK, RfcommClosed
<1>b. GwLocals(S)' /\ UNCHANGED <<GwA, GwAConn, GwU, GwUConn, GwUInt, GwD, GwDConn>>
  BY <1>0, <1>d, GwSameThreads
<1>e. /\ GwLocals(S)'
      /\ UNCHANGED <<GwA, GwAConn, GwU, GwUConn, GwUInt, GwD, GwDConn>>
      /\ gw'.rfcomm = 0
      /\ gw'.remote = gw.remote
      /\ gw'.waiting = gw.waiting
      /\ gw'.listen = gw.listen
      /\ gwWorld'.adapter = gwWorld.adapter
      /\ gwWorld'.open = gwWorld.open \ {gw.rfcomm}
      /\ gwWorld'.allowed = gwWorld.allowed
      /\ gwWorld'.told = gwWorld.told
      /\ gwQueue' = gwQueue
      /\ gwLock' = gwLock
  BY <1>b, <1>d, <1>g
<1>f. /\ ~GwOn /\ ~GwOn' /\ (Dun' <=> Dun) /\ GwTodoOK' /\ gwConfig' = gwConfig /\ GwPastOK'
      /\ (GwCalm' <=> GwCalm)
      /\ (GwNoListen' <=> GwNoListen) /\ (GwNoAccept' <=> GwNoAccept) /\ (GwDownGone' <=> GwDownGone)
      /\ (GwUpGone' <=> GwUpGone)
      /\ \A t \in GwThreads : ~GwJoins(t)
      /\ \A t \in GwThreads : ~GwJoins(t)'
  <2>1. /\ m > 0 /\ (n < 2 <=> m < 2) /\ (n < 7 <=> m < 7) /\ (n < 5 <=> m < 5)
        /\ (n < GwCloseLen - 1 <=> m < GwCloseLen - 1)
        /\ \A t \in GwThreads : ~(n = GwJoinAt(t) /\ (t = "mon" => Dun))
    <3>1. "closeRfcomm" \in GwFieldSteps BY DEF GwFieldSteps
    <3> QED BY <3>1, GwFieldPlaces
  <2>2. GwTodoOK' /\ ~GwOn /\ ~GwOn' /\ (Dun' <=> Dun)
        /\ (GwNoListen' <=> GwNoListen) /\ (GwNoAccept' <=> GwNoAccept) /\ (GwDownGone' <=> GwDownGone)
        /\ (GwUpGone' <=> GwUpGone)
    BY <1>d, <1>e, <2>1, GwClosing
  <2>3. GwPastOK' BY <1>0, <1>d DEF GwPastOK
  <2>4. GwCalm' <=> GwCalm BY <1>d, GwCalmKept
  <2>5. \A t \in GwThreads : GwJoins(t) <=> n = GwJoinAt(t) /\ (t = "mon" => Dun) BY GwCloseJoins
  <2>6. \A t \in GwThreads : ~GwJoins(t) BY <2>1, <2>5
  <2>7. \A t \in GwThreads : ~GwJoins(t)' BY DEF GwJoinsNone
  <2> QED BY <1>d, <2>2, <2>3, <2>4, <2>6, <2>7
<1>t. GwTyped'
  <2>1. GwFieldsOK' BY <1>0, <1>a, <1>f, <1>s DEF GwFieldsOK
  <2>2. GwLocksOK' BY <1>0, <1>e, <1>f DEF GwLocksOK
  <2>3. GwQueueOK' BY <1>0, <1>e, <1>f DEF GwQueueOK, GwConn
  <2>4. GwWorldOK' BY <1>0, <1>a, <1>f DEF GwWorldOK, GwConn, RfcommClosed
  <2>5. GwLocals(0..gwConfig.conns)' BY <1>e, <1>f, <1>s DEF GwLocals
  <2> QED BY <1>0, <1>e, <1>f, <1>i, <2>1, <2>2, <2>3, <2>4, <2>5 DEF GwTyped
<1>1. GwLocked' BY <1>e, <1>f, <1>i DEF GwListsKept, GwLocked, GwThreads
<1>2. GwClosed' BY <1>e, <1>f, <1>i DEF GwListsKept, GwClosed
<1>3. GwNamed' BY <1>e, <1>f, <1>i DEF GwListsKept, GwNamed
<1>r. GwCalm' => GwOneAtATime' /\ GwServesAllowed' /\ GwOneOpen' /\ GwReports'
  <2> SUFFICES ASSUME GwCalm' PROVE GwOneAtATime' /\ GwServesAllowed' /\ GwOneOpen' /\ GwReports' OBVIOUS
  <2>0. GwOneAtATime /\ GwServesAllowed /\ GwOneOpen /\ GwReports BY <1>f, <1>i
  <2>1. GwOneAtATime'
    BY <1>e, <1>f, <2>0 DEF GwListsKept, GwOneAtATime, GwURuns, GwOver, GwServes, GwBusy, GwFree
  <2>2. GwServesAllowed' BY <1>e, <1>f, <2>0 DEF GwListsKept, GwServesAllowed, GwTaken
  <2>3. GwOneOpen' BY <1>e, <1>f, <2>0 DEF GwListsKept, GwOneOpen
  <2>4. GwReports' BY <1>e, <1>f, <2>0 DEF GwListsKept, GwReports, GwServes
  <2> QED BY <2>1, <2>2, <2>3, <2>4
<1> QED BY <1>1, <1>2, <1>3, <1>f, <1>r, <1>t DEF GwInv, GwRegular

\* ... the socket of the server; ...
LEMMA GwCloseCloseServer ==
  ASSUME GwInv, gwWorld.adapter \in {"turning_off", "closed"}, GwCloses, gwTodo # <<>>, NEW n \in Nat,
         n = Len(gwTodo), NEW m \in Nat, m = Len(gwTodo'), GwCloses', UNCHANGED gwConfig,
         Fields(GwTask("closeServer", "accept")), GwJoinsNone', n = GwFieldAt("closeServer"), m = n - 1
  PROVE  GwInv'
<1>i. /\ GwTyped /\ GwTodoOK /\ GwLocked /\ GwClosed /\ GwNamed
      /\ (GwCalm => GwOneAtATime /\ GwServesAllowed /\ GwOneOpen /\ GwReports)
  BY DEF GwInv, GwRegular
<1>s. PICK S : S = 0..gwConfig.conns OBVIOUS
<1>0. /\ 0 \in S /\ gwConfig.conns \in Nat /\ GwLocals(S)
      /\ GwFieldsOK /\ GwLocksOK /\ GwQueueOK /\ GwWorldOK /\ GwPastOK
  BY <1>i, <1>s DEF GwTyped
<1>k. GwTask("closeServer", "accept").do = "closeServer" BY DEF GwTask
<1>p. gwPast' = [gwPast EXCEPT !.stale = @] BY <1>k DEF Fields
<1>d. /\ gwConfig' = gwConfig /\ gwLock' = gwLock /\ gwPast' = gwPast /\ gwTodo' = Tail(gwTodo)
      /\ gwThread' = ServerCut /\ gwWorld' = gwWorld /\ gwQueue' = gwQueue
  BY <1>0, <1>k, <1>p DEF Fields, GwPastOK
<1>a. gw' = [gw EXCEPT !.server = "none"] BY <1>k DEF Fields
<1>g. gw'.rfcomm = gw.rfcomm /\ gw'.remote = gw.remote /\ gw'.waiting = gw.waiting /\ gw'.listen = gw.listen
  BY <1>0, <1>a DEF GwFieldsOK
<1>b. GwLocals(S)' /\ UNCHANGED <<GwA, GwAConn, GwU, GwUConn, GwUInt, GwD, GwDConn>>
  <2>1. \A u \in GwThreads :
          /\ ServerCut \in [GwThreads -> GwLocal(S)]
          /\ ServerCut[u].pc = gwThread[u].pc /\ ServerCut[u].conn = gwThread[u].conn
          /\ ServerCut[u].interrupt = gwThread[u].interrupt
    BY <1>0, GwCutEffect
  <2>2. {"accept", "up", "down", "mon"} \subseteq GwThreads BY DEF GwThreads
  <2> QED BY <1>d, <2>1, <2>2 DEF GwLocals, GwA, GwAConn, GwU, GwUConn, GwUInt, GwD, GwDConn
<1>e. /\ GwLocals(S)'
      /\ UNCHANGED <<GwA, GwAConn, GwU, GwUConn, GwUInt, GwD, GwDConn>>
      /\ gw'.rfcomm = gw.rfcomm
      /\ gw'.remote = gw.remote
      /\ gw'.waiting = gw.waiting
      /\ gw'.listen = gw.listen
      /\ gwWorld' = gwWorld
      /\ gwQueue' = gwQueue
      /\ gwLock' = gwLock
  BY <1>b, <1>d, <1>g
<1>f. /\ ~GwOn /\ ~GwOn' /\ (Dun' <=> Dun) /\ GwTodoOK' /\ gwConfig' = gwConfig /\ GwPastOK'
      /\ (GwCalm' <=> GwCalm)
      /\ (GwNoListen' <=> GwNoListen) /\ (GwNoAccept' <=> GwNoAccept) /\ (GwDropped' <=> GwDropped)
      /\ (GwDownGone' <=> GwDownGone) /\ (GwUpGone' <=> GwUpGone)
      /\ \A t \in GwThreads : ~GwJoins(t)
      /\ \A t \in GwThreads : ~GwJoins(t)'
  <2>1. /\ m > 0 /\ (n < 2 <=> m < 2) /\ (n < 7 <=> m < 7) /\ (n < 5 <=> m < 5)
        /\ (n < GwCloseLen - 1 <=> m < GwCloseLen - 1) /\ (n < GwCloseLen - 2 <=> m < GwCloseLen - 2)
        /\ \A t \in GwThreads : ~(n = GwJoinAt(t) /\ (t = "mon" => Dun))
    <3>1. "closeServer" \in GwFieldSteps BY DEF GwFieldSteps
    <3> QED BY <3>1, GwFieldPlaces
  <2>2. GwTodoOK' /\ ~GwOn /\ ~GwOn' /\ (Dun' <=> Dun)
        /\ (GwNoListen' <=> GwNoListen) /\ (GwNoAccept' <=> GwNoAccept) /\ (GwDropped' <=> GwDropped)
        /\ (GwDownGone' <=> GwDownGone) /\ (GwUpGone' <=> GwUpGone)
    BY <1>d, <1>e, <2>1, GwClosing
  <2>3. GwPastOK' BY <1>0, <1>d DEF GwPastOK
  <2>4. GwCalm' <=> GwCalm BY <1>d, GwCalmKept
  <2>5. \A t \in GwThreads : GwJoins(t) <=> n = GwJoinAt(t) /\ (t = "mon" => Dun) BY GwCloseJoins
  <2>6. \A t \in GwThreads : ~GwJoins(t) BY <2>1, <2>5
  <2>7. \A t \in GwThreads : ~GwJoins(t)' BY DEF GwJoinsNone
  <2> QED BY <1>d, <2>2, <2>3, <2>4, <2>6, <2>7
<1>t. GwTyped'
  <2>1. GwFieldsOK' BY <1>0, <1>a, <1>f DEF GwFieldsOK
  <2>2. GwLocksOK' BY <1>0, <1>e, <1>f DEF GwLocksOK
  <2>3. GwQueueOK' BY <1>0, <1>e, <1>f DEF GwQueueOK, GwConn
  <2>4. GwWorldOK' BY <1>0, <1>e, <1>f DEF GwWorldOK, GwConn
  <2>5. GwLocals(0..gwConfig.conns)' BY <1>e, <1>f, <1>s DEF GwLocals
  <2> QED BY <1>0, <1>e, <1>f, <1>i, <2>1, <2>2, <2>3, <2>4, <2>5 DEF GwTyped
<1>1. GwLocked' BY <1>e, <1>f, <1>i DEF GwListsKept, GwLocked, GwThreads
<1>2. GwClosed' BY <1>e, <1>f, <1>i DEF GwListsKept, GwClosed
<1>3. GwNamed' BY <1>e, <1>f, <1>i DEF GwListsKept, GwNamed
<1>r. GwCalm' => GwOneAtATime' /\ GwServesAllowed' /\ GwOneOpen' /\ GwReports'
  <2> SUFFICES ASSUME GwCalm' PROVE GwOneAtATime' /\ GwServesAllowed' /\ GwOneOpen' /\ GwReports' OBVIOUS
  <2>0. GwOneAtATime /\ GwServesAllowed /\ GwOneOpen /\ GwReports BY <1>f, <1>i
  <2>1. GwOneAtATime'
    BY <1>e, <1>f, <2>0 DEF GwListsKept, GwOneAtATime, GwURuns, GwOver, GwServes, GwBusy, GwFree
  <2>2. GwServesAllowed' BY <1>e, <1>f, <2>0 DEF GwListsKept, GwServesAllowed, GwTaken
  <2>3. GwOneOpen' BY <1>e, <1>f, <2>0 DEF GwListsKept, GwOneOpen
  <2>4. GwReports' BY <1>e, <1>f, <2>0 DEF GwListsKept, GwReports, GwServes
  <2> QED BY <2>1, <2>2, <2>3, <2>4
<1> QED BY <1>1, <1>2, <1>3, <1>f, <1>r, <1>t DEF GwInv, GwRegular

\* ... MESSAGE_START_LISTENER is removed; ...
LEMMA GwCloseRemoveStart ==
  ASSUME GwInv, gwWorld.adapter \in {"turning_off", "closed"}, GwCloses, gwTodo # <<>>, NEW n \in Nat,
         n = Len(gwTodo), NEW m \in Nat, m = Len(gwTodo'), GwCloses', UNCHANGED gwConfig,
         Fields(GwTask("removeStart", "accept")), GwJoinsNone', n = GwFieldAt("removeStart"), m = n - 1
  PROVE  GwInv'
<1>i. /\ GwTyped /\ GwTodoOK /\ GwLocked /\ GwClosed /\ GwNamed
      /\ (GwCalm => GwOneAtATime /\ GwServesAllowed /\ GwOneOpen /\ GwReports)
  BY DEF GwInv, GwRegular
<1>s. PICK S : S = 0..gwConfig.conns OBVIOUS
<1>0. /\ 0 \in S /\ gwConfig.conns \in Nat /\ GwLocals(S)
      /\ GwFieldsOK /\ GwLocksOK /\ GwQueueOK /\ GwWorldOK /\ GwPastOK
  BY <1>i, <1>s DEF GwTyped
<1>k. GwTask("removeStart", "accept").do = "removeStart" BY DEF GwTask
<1>p. gwPast' = [gwPast EXCEPT !.stale = @] BY <1>k DEF Fields
<1>d. /\ gwConfig' = gwConfig /\ gwLock' = gwLock /\ gwPast' = gwPast /\ gwTodo' = Tail(gwTodo)
      /\ gwThread' = gwThread /\ gw' = gw /\ gwWorld' = gwWorld
  BY <1>0, <1>k, <1>p DEF Fields, GwPastOK
<1>a. gwQueue' = [gwQueue EXCEPT !.start = FALSE] BY <1>k DEF Fields
<1>q. gwQueue'.start = FALSE BY <1>0, <1>a DEF GwQueueOK
<1>b. GwLocals(S)' /\ UNCHANGED <<GwA, GwAConn, GwU, GwUConn, GwUInt, GwD, GwDConn>>
  BY <1>0, <1>d, GwSameThreads
<1>e. /\ GwLocals(S)'
      /\ UNCHANGED <<GwA, GwAConn, GwU, GwUConn, GwUInt, GwD, GwDConn>>
      /\ gw' = gw
      /\ gwWorld' = gwWorld
      /\ gwQueue'.start = FALSE
      /\ gwLock' = gwLock
  BY <1>b, <1>d, <1>q
<1>f. /\ ~GwOn /\ ~GwOn' /\ (Dun' <=> Dun) /\ GwTodoOK' /\ gwConfig' = gwConfig /\ GwPastOK'
      /\ (GwCalm' <=> GwCalm)
      /\ (GwNoListen' <=> GwNoListen) /\ (GwNoAccept' <=> GwNoAccept) /\ (GwDropped' <=> GwDropped)
      /\ (GwDownGone' <=> GwDownGone) /\ (GwUpGone' <=> GwUpGone)
      /\ \A t \in GwThreads : ~GwJoins(t)
      /\ \A t \in GwThreads : ~GwJoins(t)'
  <2>1. /\ m > 0 /\ (n < 2 <=> m < 2) /\ (n < 7 <=> m < 7) /\ (n < 5 <=> m < 5)
        /\ (n < GwCloseLen - 1 <=> m < GwCloseLen - 1) /\ (n < GwCloseLen - 2 <=> m < GwCloseLen - 2)
        /\ \A t \in GwThreads : ~(n = GwJoinAt(t) /\ (t = "mon" => Dun))
    <3>1. "removeStart" \in GwFieldSteps BY DEF GwFieldSteps
    <3> QED BY <3>1, GwFieldPlaces
  <2>2. GwTodoOK' /\ ~GwOn /\ ~GwOn' /\ (Dun' <=> Dun)
        /\ (GwNoListen' <=> GwNoListen) /\ (GwNoAccept' <=> GwNoAccept) /\ (GwDropped' <=> GwDropped)
        /\ (GwDownGone' <=> GwDownGone) /\ (GwUpGone' <=> GwUpGone)
    BY <1>d, <1>e, <2>1, GwClosing
  <2>3. GwPastOK' BY <1>0, <1>d DEF GwPastOK
  <2>4. GwCalm' <=> GwCalm BY <1>d, GwCalmKept
  <2>5. \A t \in GwThreads : GwJoins(t) <=> n = GwJoinAt(t) /\ (t = "mon" => Dun) BY GwCloseJoins
  <2>6. \A t \in GwThreads : ~GwJoins(t) BY <2>1, <2>5
  <2>7. \A t \in GwThreads : ~GwJoins(t)' BY DEF GwJoinsNone
  <2> QED BY <1>d, <2>2, <2>3, <2>4, <2>6, <2>7
<1>t. GwTyped'
  <2>1. GwFieldsOK' BY <1>0, <1>e, <1>f DEF GwFieldsOK
  <2>2. GwLocksOK' BY <1>0, <1>e, <1>f DEF GwLocksOK
  <2>3. GwQueueOK' BY <1>0, <1>a, <1>f DEF GwQueueOK, GwConn
  <2>4. GwWorldOK' BY <1>0, <1>e, <1>f DEF GwWorldOK, GwConn
  <2>5. GwLocals(0..gwConfig.conns)' BY <1>e, <1>f, <1>s DEF GwLocals
  <2> QED BY <1>0, <1>e, <1>f, <1>i, <2>1, <2>2, <2>3, <2>4, <2>5 DEF GwTyped
<1>1. GwLocked' BY <1>e, <1>f, <1>i DEF GwListsKept, GwLocked, GwThreads
<1>2. GwClosed' BY <1>e, <1>f, <1>i DEF GwListsKept, GwClosed
<1>3. GwNamed' BY <1>e, <1>f, <1>i DEF GwListsKept, GwNamed
<1>r. GwCalm' => GwOneAtATime' /\ GwServesAllowed' /\ GwOneOpen' /\ GwReports'
  <2> SUFFICES ASSUME GwCalm' PROVE GwOneAtATime' /\ GwServesAllowed' /\ GwOneOpen' /\ GwReports' OBVIOUS
  <2>0. GwOneAtATime /\ GwServesAllowed /\ GwOneOpen /\ GwReports BY <1>f, <1>i
  <2>1. GwOneAtATime'
    BY <1>e, <1>f, <2>0 DEF GwListsKept, GwOneAtATime, GwURuns, GwOver, GwServes, GwBusy, GwFree
  <2>2. GwServesAllowed' BY <1>e, <1>f, <2>0 DEF GwListsKept, GwServesAllowed, GwTaken
  <2>3. GwOneOpen' BY <1>e, <1>f, <2>0 DEF GwListsKept, GwOneOpen
  <2>4. GwReports' BY <1>e, <1>f, <2>0 DEF GwListsKept, GwReports, GwServes
  <2> QED BY <2>1, <2>2, <2>3, <2>4
<1> QED BY <1>1, <1>2, <1>3, <1>f, <1>r, <1>t DEF GwInv, GwRegular

\* ... the accept thread is told to stop, ...
LEMMA GwCloseStopsAccept ==
  ASSUME GwInv, gwWorld.adapter \in {"turning_off", "closed"}, GwCloses, gwTodo # <<>>, NEW n \in Nat,
         n = Len(gwTodo), NEW m \in Nat, m = Len(gwTodo'), GwCloses',
         GwMStops("accept"), n = GwJoinAt("accept") + 1, m = GwJoinAt("accept")
  PROVE  GwInv'
<1>i. /\ GwTyped /\ GwTodoOK /\ GwLocked /\ GwClosed /\ GwNamed
      /\ (GwCalm => GwOneAtATime /\ GwServesAllowed /\ GwOneOpen /\ GwReports)
  BY DEF GwInv, GwRegular
<1>s. PICK S : S = 0..gwConfig.conns OBVIOUS
<1>0. /\ 0 \in S /\ gwConfig.conns \in Nat /\ GwLocals(S)
      /\ GwFieldsOK /\ GwLocksOK /\ GwQueueOK /\ GwWorldOK /\ GwPastOK
  BY <1>i, <1>s DEF GwTyped
<1>a. Stop("accept", "main") BY DEF GwMStops
<1>d. gwConfig' = gwConfig /\ gwPast' = gwPast /\ gw' = gw /\ gwWorld' = gwWorld /\ gwQueue' = gwQueue
  BY DEF GwMStops, GwSame
<1>b. GwLocals(S)' /\ UNCHANGED <<GwA, GwAConn, GwU, GwUConn, GwUInt, GwD, GwDConn>>
  <2>1. {"accept", "up", "down", "mon"} \subseteq GwThreads BY DEF GwThreads
  <2>2. /\ GwLocals(S)' /\ gwThread'["accept"].pc = gwThread["accept"].pc
        /\ gwThread'["accept"].conn = gwThread["accept"].conn
        /\ \A u \in GwThreads \ {"accept"} : gwThread'[u] = gwThread[u]
    BY <1>0, <1>a, <2>1, GwStopEffect DEF GwLabels
  <2>3. gwThread'["up"] = gwThread["up"] /\ gwThread'["down"] = gwThread["down"] BY <2>1, <2>2
  <2> QED BY <2>2, <2>3 DEF GwA, GwAConn, GwU, GwUConn, GwUInt, GwD, GwDConn, GwNew
<1>l. gwLock["accept"] = "free" /\ gwLock' = [gwLock EXCEPT !["accept"] = "main"] BY <1>a DEF Stop
<1>e. /\ GwLocals(S)'
      /\ UNCHANGED <<GwA, GwAConn, GwU, GwUConn, GwUInt, GwD, GwDConn>>
      /\ gw' = gw
      /\ gwWorld' = gwWorld
      /\ gwQueue' = gwQueue
      /\ gwLock["accept"] = "free" /\ gwLock' = [gwLock EXCEPT !["accept"] = "main"]
  BY <1>b, <1>d, <1>l
<1>f. /\ ~GwOn /\ ~GwOn' /\ (Dun' <=> Dun) /\ GwTodoOK' /\ gwConfig' = gwConfig /\ GwPastOK'
      /\ (GwCalm' <=> GwCalm)
      /\ (GwNoListen' <=> GwNoListen) /\ (GwNoAccept' <=> GwNoAccept) /\ (GwDropped' <=> GwDropped)
      /\ (GwDownGone' <=> GwDownGone) /\ (GwUpGone' <=> GwUpGone)
      /\ \A t \in GwThreads : ~GwJoins(t)
      /\ \A t \in GwThreads : GwJoins(t)' <=> t = "accept"
  <2>1. /\ m > 0 /\ (n < GwCloseLen - 1 <=> m < GwCloseLen - 1)
        /\ (n < GwCloseLen - 2 <=> m < GwCloseLen - 2) /\ (n < 2 <=> m < 2) /\ (n < 7 <=> m < 7)
        /\ (n < 5 <=> m < 5)
        /\ \A u \in GwThreads : n # GwJoinAt(u)
    <3>1. "accept" \in GwThreads BY DEF GwThreads
    <3> QED BY <3>1, GwJoinPlaces
  <2>2. GwTodoOK' /\ ~GwOn /\ ~GwOn' /\ (Dun' <=> Dun)
        /\ (GwNoListen' <=> GwNoListen) /\ (GwNoAccept' <=> GwNoAccept) /\ (GwDropped' <=> GwDropped)
        /\ (GwDownGone' <=> GwDownGone) /\ (GwUpGone' <=> GwUpGone)
    BY <1>d, <1>e, <2>1, GwClosing
  <2>3. GwPastOK' BY <1>0, <1>d DEF GwPastOK
  <2>4. GwCalm' <=> GwCalm BY <1>d, GwCalmKept
  <2>5. \A t \in GwThreads : GwJoins(t) <=> n = GwJoinAt(t) /\ (t = "mon" => Dun) BY GwCloseJoins
  <2>6. \A t \in GwThreads : ~GwJoins(t) BY <2>1, <2>5
  <2>7. \A t \in GwThreads : GwJoins(t)' <=> t = "accept" BY DEF GwMStops, GwOnlyJoins
  <2> QED BY <1>d, <2>2, <2>3, <2>4, <2>6, <2>7
<1>t. GwTyped'
  <2>1. GwFieldsOK' BY <1>0, <1>e, <1>f DEF GwFieldsOK
  <2>2. GwLocksOK' BY <1>0, <1>e DEF GwLocksOK
  <2>3. GwQueueOK' BY <1>0, <1>e, <1>f DEF GwQueueOK, GwConn
  <2>4. GwWorldOK' BY <1>0, <1>e, <1>f DEF GwWorldOK, GwConn
  <2>5. GwLocals(0..gwConfig.conns)' BY <1>e, <1>f, <1>s DEF GwLocals
  <2> QED BY <1>0, <1>e, <1>f, <1>i, <2>1, <2>2, <2>3, <2>4, <2>5 DEF GwTyped
<1>1. GwLocked' BY <1>e, <1>f, <1>i, <1>0 DEF GwListsKept, GwLocked, GwThreads, GwLocksOK
<1>2. GwClosed' BY <1>e, <1>f, <1>i DEF GwListsKept, GwClosed
<1>3. GwNamed' BY <1>e, <1>f, <1>i DEF GwListsKept, GwNamed
<1>r. GwCalm' => GwOneAtATime' /\ GwServesAllowed' /\ GwOneOpen' /\ GwReports'
  <2> SUFFICES ASSUME GwCalm' PROVE GwOneAtATime' /\ GwServesAllowed' /\ GwOneOpen' /\ GwReports' OBVIOUS
  <2>0. GwOneAtATime /\ GwServesAllowed /\ GwOneOpen /\ GwReports BY <1>f, <1>i
  <2>1. GwOneAtATime'
    BY <1>e, <1>f, <2>0 DEF GwListsKept, GwOneAtATime, GwURuns, GwOver, GwServes, GwBusy, GwFree
  <2>2. GwServesAllowed' BY <1>e, <1>f, <2>0 DEF GwListsKept, GwServesAllowed, GwTaken
  <2>3. GwOneOpen' BY <1>e, <1>f, <2>0 DEF GwListsKept, GwOneOpen
  <2>4. GwReports' BY <1>e, <1>f, <2>0 DEF GwListsKept, GwReports, GwServes
  <2> QED BY <2>1, <2>2, <2>3, <2>4
<1> QED BY <1>1, <1>2, <1>3, <1>f, <1>r, <1>t DEF GwInv, GwRegular

\* ... the uplink thread is told to stop, ...
LEMMA GwCloseStopsUp ==
  ASSUME GwInv, gwWorld.adapter \in {"turning_off", "closed"}, GwCloses, gwTodo # <<>>, NEW n \in Nat,
         n = Len(gwTodo), NEW m \in Nat, m = Len(gwTodo'), GwCloses',
         GwMStops("up"), n = GwJoinAt("up") + 1, m = GwJoinAt("up")
  PROVE  GwInv'
<1>i. /\ GwTyped /\ GwTodoOK /\ GwLocked /\ GwClosed /\ GwNamed
      /\ (GwCalm => GwOneAtATime /\ GwServesAllowed /\ GwOneOpen /\ GwReports)
  BY DEF GwInv, GwRegular
<1>s. PICK S : S = 0..gwConfig.conns OBVIOUS
<1>0. /\ 0 \in S /\ gwConfig.conns \in Nat /\ GwLocals(S)
      /\ GwFieldsOK /\ GwLocksOK /\ GwQueueOK /\ GwWorldOK /\ GwPastOK
  BY <1>i, <1>s DEF GwTyped
<1>a. Stop("up", "main") BY DEF GwMStops
<1>d. gwConfig' = gwConfig /\ gwPast' = gwPast /\ gw' = gw /\ gwWorld' = gwWorld /\ gwQueue' = gwQueue
  BY DEF GwMStops, GwSame
<1>b. GwLocals(S)' /\ UNCHANGED <<GwA, GwAConn, GwU, GwUConn, GwD, GwDConn>>
  <2>1. {"accept", "up", "down", "mon"} \subseteq GwThreads BY DEF GwThreads
  <2>2. /\ GwLocals(S)' /\ gwThread'["up"].pc = gwThread["up"].pc
        /\ gwThread'["up"].conn = gwThread["up"].conn
        /\ \A u \in GwThreads \ {"up"} : gwThread'[u] = gwThread[u]
    BY <1>0, <1>a, <2>1, GwStopEffect DEF GwLabels
  <2>3. gwThread'["accept"] = gwThread["accept"] /\ gwThread'["down"] = gwThread["down"] BY <2>1, <2>2
  <2> QED BY <2>2, <2>3 DEF GwA, GwAConn, GwU, GwUConn, GwUInt, GwD, GwDConn, GwNew
<1>l. gwLock["up"] = "free" /\ gwLock' = [gwLock EXCEPT !["up"] = "main"] BY <1>a DEF Stop
<1>e. /\ GwLocals(S)'
      /\ UNCHANGED <<GwA, GwAConn, GwU, GwUConn, GwD, GwDConn>>
      /\ gw' = gw
      /\ gwWorld' = gwWorld
      /\ gwQueue' = gwQueue
      /\ gwLock["up"] = "free" /\ gwLock' = [gwLock EXCEPT !["up"] = "main"]
  BY <1>b, <1>d, <1>l
<1>f. /\ ~GwOn /\ ~GwOn' /\ (Dun' <=> Dun) /\ GwTodoOK' /\ gwConfig' = gwConfig /\ GwPastOK'
      /\ (GwCalm' <=> GwCalm)
      /\ (GwNoListen' <=> GwNoListen) /\ (GwNoAccept' <=> GwNoAccept) /\ (GwDropped' <=> GwDropped)
      /\ (GwDownGone' <=> GwDownGone) /\ (GwUpGone' <=> GwUpGone)
      /\ \A t \in GwThreads : ~GwJoins(t)
      /\ \A t \in GwThreads : GwJoins(t)' <=> t = "up"
  <2>1. /\ m > 0 /\ (n < GwCloseLen - 1 <=> m < GwCloseLen - 1)
        /\ (n < GwCloseLen - 2 <=> m < GwCloseLen - 2) /\ (n < 2 <=> m < 2) /\ (n < 7 <=> m < 7)
        /\ (n < 5 <=> m < 5)
        /\ \A u \in GwThreads : n # GwJoinAt(u)
    <3>1. "up" \in GwThreads BY DEF GwThreads
    <3> QED BY <3>1, GwJoinPlaces
  <2>2. GwTodoOK' /\ ~GwOn /\ ~GwOn' /\ (Dun' <=> Dun)
        /\ (GwNoListen' <=> GwNoListen) /\ (GwNoAccept' <=> GwNoAccept) /\ (GwDropped' <=> GwDropped)
        /\ (GwDownGone' <=> GwDownGone) /\ (GwUpGone' <=> GwUpGone)
    BY <1>d, <1>e, <2>1, GwClosing
  <2>3. GwPastOK' BY <1>0, <1>d DEF GwPastOK
  <2>4. GwCalm' <=> GwCalm BY <1>d, GwCalmKept
  <2>5. \A t \in GwThreads : GwJoins(t) <=> n = GwJoinAt(t) /\ (t = "mon" => Dun) BY GwCloseJoins
  <2>6. \A t \in GwThreads : ~GwJoins(t) BY <2>1, <2>5
  <2>7. \A t \in GwThreads : GwJoins(t)' <=> t = "up" BY DEF GwMStops, GwOnlyJoins
  <2> QED BY <1>d, <2>2, <2>3, <2>4, <2>6, <2>7
<1>t. GwTyped'
  <2>1. GwFieldsOK' BY <1>0, <1>e, <1>f DEF GwFieldsOK
  <2>2. GwLocksOK' BY <1>0, <1>e DEF GwLocksOK
  <2>3. GwQueueOK' BY <1>0, <1>e, <1>f DEF GwQueueOK, GwConn
  <2>4. GwWorldOK' BY <1>0, <1>e, <1>f DEF GwWorldOK, GwConn
  <2>5. GwLocals(0..gwConfig.conns)' BY <1>e, <1>f, <1>s DEF GwLocals
  <2> QED BY <1>0, <1>e, <1>f, <1>i, <2>1, <2>2, <2>3, <2>4, <2>5 DEF GwTyped
<1>1. GwLocked' BY <1>e, <1>f, <1>i, <1>0 DEF GwListsKept, GwLocked, GwThreads, GwLocksOK
<1>2. GwClosed' BY <1>e, <1>f, <1>i DEF GwListsKept, GwClosed
<1>3. GwNamed' BY <1>e, <1>f, <1>i DEF GwListsKept, GwNamed
<1>r. GwCalm' => GwOneAtATime' /\ GwServesAllowed' /\ GwOneOpen' /\ GwReports'
  <2> SUFFICES ASSUME GwCalm' PROVE GwOneAtATime' /\ GwServesAllowed' /\ GwOneOpen' /\ GwReports' OBVIOUS
  <2>0. GwOneAtATime /\ GwServesAllowed /\ GwOneOpen /\ GwReports BY <1>f, <1>i
  <2>1. GwOneAtATime'
    BY <1>e, <1>f, <2>0 DEF GwListsKept, GwOneAtATime, GwURuns, GwOver, GwServes, GwBusy, GwFree
  <2>2. GwServesAllowed' BY <1>e, <1>f, <2>0 DEF GwListsKept, GwServesAllowed, GwTaken
  <2>3. GwOneOpen' BY <1>e, <1>f, <2>0 DEF GwListsKept, GwOneOpen
  <2>4. GwReports' BY <1>e, <1>f, <2>0 DEF GwListsKept, GwReports, GwServes
  <2> QED BY <2>1, <2>2, <2>3, <2>4
<1> QED BY <1>1, <1>2, <1>3, <1>f, <1>r, <1>t DEF GwInv, GwRegular

\* ... the downlink thread is told to stop, ...
LEMMA GwCloseStopsDown ==
  ASSUME GwInv, gwWorld.adapter \in {"turning_off", "closed"}, GwCloses, gwTodo # <<>>, NEW n \in Nat,
         n = Len(gwTodo), NEW m \in Nat, m = Len(gwTodo'), GwCloses',
         GwMStops("down"), n = GwJoinAt("down") + 1, m = GwJoinAt("down")
  PROVE  GwInv'
<1>i. /\ GwTyped /\ GwTodoOK /\ GwLocked /\ GwClosed /\ GwNamed
      /\ (GwCalm => GwOneAtATime /\ GwServesAllowed /\ GwOneOpen /\ GwReports)
  BY DEF GwInv, GwRegular
<1>s. PICK S : S = 0..gwConfig.conns OBVIOUS
<1>0. /\ 0 \in S /\ gwConfig.conns \in Nat /\ GwLocals(S)
      /\ GwFieldsOK /\ GwLocksOK /\ GwQueueOK /\ GwWorldOK /\ GwPastOK
  BY <1>i, <1>s DEF GwTyped
<1>a. Stop("down", "main") BY DEF GwMStops
<1>d. gwConfig' = gwConfig /\ gwPast' = gwPast /\ gw' = gw /\ gwWorld' = gwWorld /\ gwQueue' = gwQueue
  BY DEF GwMStops, GwSame
<1>b. GwLocals(S)' /\ UNCHANGED <<GwA, GwAConn, GwU, GwUConn, GwUInt, GwD, GwDConn>>
  <2>1. {"accept", "up", "down", "mon"} \subseteq GwThreads BY DEF GwThreads
  <2>2. /\ GwLocals(S)' /\ gwThread'["down"].pc = gwThread["down"].pc
        /\ gwThread'["down"].conn = gwThread["down"].conn
        /\ \A u \in GwThreads \ {"down"} : gwThread'[u] = gwThread[u]
    BY <1>0, <1>a, <2>1, GwStopEffect DEF GwLabels
  <2>3. gwThread'["accept"] = gwThread["accept"] /\ gwThread'["up"] = gwThread["up"] BY <2>1, <2>2
  <2> QED BY <2>2, <2>3 DEF GwA, GwAConn, GwU, GwUConn, GwUInt, GwD, GwDConn, GwNew
<1>l. gwLock["down"] = "free" /\ gwLock' = [gwLock EXCEPT !["down"] = "main"] BY <1>a DEF Stop
<1>e. /\ GwLocals(S)'
      /\ UNCHANGED <<GwA, GwAConn, GwU, GwUConn, GwUInt, GwD, GwDConn>>
      /\ gw' = gw
      /\ gwWorld' = gwWorld
      /\ gwQueue' = gwQueue
      /\ gwLock["down"] = "free" /\ gwLock' = [gwLock EXCEPT !["down"] = "main"]
  BY <1>b, <1>d, <1>l
<1>f. /\ ~GwOn /\ ~GwOn' /\ (Dun' <=> Dun) /\ GwTodoOK' /\ gwConfig' = gwConfig /\ GwPastOK'
      /\ (GwCalm' <=> GwCalm)
      /\ (GwNoListen' <=> GwNoListen) /\ (GwNoAccept' <=> GwNoAccept) /\ (GwDropped' <=> GwDropped)
      /\ (GwDownGone' <=> GwDownGone) /\ (GwUpGone' <=> GwUpGone)
      /\ \A t \in GwThreads : ~GwJoins(t)
      /\ \A t \in GwThreads : GwJoins(t)' <=> t = "down"
  <2>1. /\ m > 0 /\ (n < GwCloseLen - 1 <=> m < GwCloseLen - 1)
        /\ (n < GwCloseLen - 2 <=> m < GwCloseLen - 2) /\ (n < 2 <=> m < 2) /\ (n < 7 <=> m < 7)
        /\ (n < 5 <=> m < 5)
        /\ \A u \in GwThreads : n # GwJoinAt(u)
    <3>1. "down" \in GwThreads BY DEF GwThreads
    <3> QED BY <3>1, GwJoinPlaces
  <2>2. GwTodoOK' /\ ~GwOn /\ ~GwOn' /\ (Dun' <=> Dun)
        /\ (GwNoListen' <=> GwNoListen) /\ (GwNoAccept' <=> GwNoAccept) /\ (GwDropped' <=> GwDropped)
        /\ (GwDownGone' <=> GwDownGone) /\ (GwUpGone' <=> GwUpGone)
    BY <1>d, <1>e, <2>1, GwClosing
  <2>3. GwPastOK' BY <1>0, <1>d DEF GwPastOK
  <2>4. GwCalm' <=> GwCalm BY <1>d, GwCalmKept
  <2>5. \A t \in GwThreads : GwJoins(t) <=> n = GwJoinAt(t) /\ (t = "mon" => Dun) BY GwCloseJoins
  <2>6. \A t \in GwThreads : ~GwJoins(t) BY <2>1, <2>5
  <2>7. \A t \in GwThreads : GwJoins(t)' <=> t = "down" BY DEF GwMStops, GwOnlyJoins
  <2> QED BY <1>d, <2>2, <2>3, <2>4, <2>6, <2>7
<1>t. GwTyped'
  <2>1. GwFieldsOK' BY <1>0, <1>e, <1>f DEF GwFieldsOK
  <2>2. GwLocksOK' BY <1>0, <1>e DEF GwLocksOK
  <2>3. GwQueueOK' BY <1>0, <1>e, <1>f DEF GwQueueOK, GwConn
  <2>4. GwWorldOK' BY <1>0, <1>e, <1>f DEF GwWorldOK, GwConn
  <2>5. GwLocals(0..gwConfig.conns)' BY <1>e, <1>f, <1>s DEF GwLocals
  <2> QED BY <1>0, <1>e, <1>f, <1>i, <2>1, <2>2, <2>3, <2>4, <2>5 DEF GwTyped
<1>1. GwLocked' BY <1>e, <1>f, <1>i, <1>0 DEF GwListsKept, GwLocked, GwThreads, GwLocksOK
<1>2. GwClosed' BY <1>e, <1>f, <1>i DEF GwListsKept, GwClosed
<1>3. GwNamed' BY <1>e, <1>f, <1>i DEF GwListsKept, GwNamed
<1>r. GwCalm' => GwOneAtATime' /\ GwServesAllowed' /\ GwOneOpen' /\ GwReports'
  <2> SUFFICES ASSUME GwCalm' PROVE GwOneAtATime' /\ GwServesAllowed' /\ GwOneOpen' /\ GwReports' OBVIOUS
  <2>0. GwOneAtATime /\ GwServesAllowed /\ GwOneOpen /\ GwReports BY <1>f, <1>i
  <2>1. GwOneAtATime'
    BY <1>e, <1>f, <2>0 DEF GwListsKept, GwOneAtATime, GwURuns, GwOver, GwServes, GwBusy, GwFree
  <2>2. GwServesAllowed' BY <1>e, <1>f, <2>0 DEF GwListsKept, GwServesAllowed, GwTaken
  <2>3. GwOneOpen' BY <1>e, <1>f, <2>0 DEF GwListsKept, GwOneOpen
  <2>4. GwReports' BY <1>e, <1>f, <2>0 DEF GwListsKept, GwReports, GwServes
  <2> QED BY <2>1, <2>2, <2>3, <2>4
<1> QED BY <1>1, <1>2, <1>3, <1>f, <1>r, <1>t DEF GwInv, GwRegular

\* ... the monitor thread is told to stop, ...
LEMMA GwCloseStopsMon ==
  ASSUME GwInv, gwWorld.adapter \in {"turning_off", "closed"}, GwCloses, gwTodo # <<>>, NEW n \in Nat,
         n = Len(gwTodo), NEW m \in Nat, m = Len(gwTodo'), GwCloses',
         GwMStops("mon"), n = GwJoinAt("mon") + 1, m = GwJoinAt("mon"), Dun
  PROVE  GwInv'
<1>i. /\ GwTyped /\ GwTodoOK /\ GwLocked /\ GwClosed /\ GwNamed
      /\ (GwCalm => GwOneAtATime /\ GwServesAllowed /\ GwOneOpen /\ GwReports)
  BY DEF GwInv, GwRegular
<1>s. PICK S : S = 0..gwConfig.conns OBVIOUS
<1>0. /\ 0 \in S /\ gwConfig.conns \in Nat /\ GwLocals(S)
      /\ GwFieldsOK /\ GwLocksOK /\ GwQueueOK /\ GwWorldOK /\ GwPastOK
  BY <1>i, <1>s DEF GwTyped
<1>a. Stop("mon", "main") BY DEF GwMStops
<1>d. gwConfig' = gwConfig /\ gwPast' = gwPast /\ gw' = gw /\ gwWorld' = gwWorld /\ gwQueue' = gwQueue
  BY DEF GwMStops, GwSame
<1>b. GwLocals(S)' /\ UNCHANGED <<GwA, GwAConn, GwU, GwUConn, GwUInt, GwD, GwDConn>>
  <2>1. {"accept", "up", "down", "mon"} \subseteq GwThreads BY DEF GwThreads
  <2>2. /\ GwLocals(S)' /\ gwThread'["mon"].pc = gwThread["mon"].pc
        /\ gwThread'["mon"].conn = gwThread["mon"].conn
        /\ \A u \in GwThreads \ {"mon"} : gwThread'[u] = gwThread[u]
    BY <1>0, <1>a, <2>1, GwStopEffect DEF GwLabels
  <2>3. /\ gwThread'["accept"] = gwThread["accept"] /\ gwThread'["up"] = gwThread["up"]
        /\ gwThread'["down"] = gwThread["down"]
    BY <2>1, <2>2
  <2> QED BY <2>2, <2>3 DEF GwA, GwAConn, GwU, GwUConn, GwUInt, GwD, GwDConn, GwNew
<1>l. gwLock["mon"] = "free" /\ gwLock' = [gwLock EXCEPT !["mon"] = "main"] BY <1>a DEF Stop
<1>e. /\ GwLocals(S)'
      /\ UNCHANGED <<GwA, GwAConn, GwU, GwUConn, GwUInt, GwD, GwDConn>>
      /\ gw' = gw
      /\ gwWorld' = gwWorld
      /\ gwQueue' = gwQueue
      /\ gwLock["mon"] = "free" /\ gwLock' = [gwLock EXCEPT !["mon"] = "main"]
  BY <1>b, <1>d, <1>l
<1>f. /\ ~GwOn /\ ~GwOn' /\ (Dun' <=> Dun) /\ GwTodoOK' /\ gwConfig' = gwConfig /\ GwPastOK'
      /\ (GwCalm' <=> GwCalm)
      /\ (GwNoListen' <=> GwNoListen) /\ (GwNoAccept' <=> GwNoAccept) /\ (GwDropped' <=> GwDropped)
      /\ (GwDownGone' <=> GwDownGone) /\ (GwUpGone' <=> GwUpGone)
      /\ \A t \in GwThreads : ~GwJoins(t)
      /\ \A t \in GwThreads : GwJoins(t)' <=> t = "mon"
  <2>1. /\ m > 0 /\ (n < GwCloseLen - 1 <=> m < GwCloseLen - 1)
        /\ (n < GwCloseLen - 2 <=> m < GwCloseLen - 2) /\ (n < 2 <=> m < 2) /\ (n < 7 <=> m < 7)
        /\ (n < 5 <=> m < 5)
        /\ \A u \in GwThreads : n # GwJoinAt(u)
    <3>1. "mon" \in GwThreads BY DEF GwThreads
    <3> QED BY <3>1, GwJoinPlaces
  <2>2. GwTodoOK' /\ ~GwOn /\ ~GwOn' /\ (Dun' <=> Dun)
        /\ (GwNoListen' <=> GwNoListen) /\ (GwNoAccept' <=> GwNoAccept) /\ (GwDropped' <=> GwDropped)
        /\ (GwDownGone' <=> GwDownGone) /\ (GwUpGone' <=> GwUpGone)
    BY <1>d, <1>e, <2>1, GwClosing
  <2>3. GwPastOK' BY <1>0, <1>d DEF GwPastOK
  <2>4. GwCalm' <=> GwCalm BY <1>d, GwCalmKept
  <2>5. \A t \in GwThreads : GwJoins(t) <=> n = GwJoinAt(t) /\ (t = "mon" => Dun) BY GwCloseJoins
  <2>6. \A t \in GwThreads : ~GwJoins(t) BY <2>1, <2>5
  <2>7. \A t \in GwThreads : GwJoins(t)' <=> t = "mon" BY DEF GwMStops, GwOnlyJoins
  <2> QED BY <1>d, <2>2, <2>3, <2>4, <2>6, <2>7
<1>t. GwTyped'
  <2>1. GwFieldsOK' BY <1>0, <1>e, <1>f DEF GwFieldsOK
  <2>2. GwLocksOK' BY <1>0, <1>e DEF GwLocksOK
  <2>3. GwQueueOK' BY <1>0, <1>e, <1>f DEF GwQueueOK, GwConn
  <2>4. GwWorldOK' BY <1>0, <1>e, <1>f DEF GwWorldOK, GwConn
  <2>5. GwLocals(0..gwConfig.conns)' BY <1>e, <1>f, <1>s DEF GwLocals
  <2> QED BY <1>0, <1>e, <1>f, <1>i, <2>1, <2>2, <2>3, <2>4, <2>5 DEF GwTyped
<1>1. GwLocked' BY <1>e, <1>f, <1>i, <1>0 DEF GwListsKept, GwLocked, GwThreads, GwLocksOK
<1>2. GwClosed' BY <1>e, <1>f, <1>i DEF GwListsKept, GwClosed
<1>3. GwNamed' BY <1>e, <1>f, <1>i DEF GwListsKept, GwNamed
<1>r. GwCalm' => GwOneAtATime' /\ GwServesAllowed' /\ GwOneOpen' /\ GwReports'
  <2> SUFFICES ASSUME GwCalm' PROVE GwOneAtATime' /\ GwServesAllowed' /\ GwOneOpen' /\ GwReports' OBVIOUS
  <2>0. GwOneAtATime /\ GwServesAllowed /\ GwOneOpen /\ GwReports BY <1>f, <1>i
  <2>1. GwOneAtATime'
    BY <1>e, <1>f, <2>0 DEF GwListsKept, GwOneAtATime, GwURuns, GwOver, GwServes, GwBusy, GwFree
  <2>2. GwServesAllowed' BY <1>e, <1>f, <2>0 DEF GwListsKept, GwServesAllowed, GwTaken
  <2>3. GwOneOpen' BY <1>e, <1>f, <2>0 DEF GwListsKept, GwOneOpen
  <2>4. GwReports' BY <1>e, <1>f, <2>0 DEF GwListsKept, GwReports, GwServes
  <2> QED BY <2>1, <2>2, <2>3, <2>4
<1> QED BY <1>1, <1>2, <1>3, <1>f, <1>r, <1>t DEF GwInv, GwRegular

\* ... and has ended, ...
LEMMA GwCloseEndsAccept ==
  ASSUME GwInv, gwWorld.adapter \in {"turning_off", "closed"}, GwCloses, gwTodo # <<>>, NEW n \in Nat,
         n = Len(gwTodo), NEW m \in Nat, m = Len(gwTodo'), GwCloses',
         GwMEnds("accept", "none"), n \in {GwJoinAt("accept"), GwJoinAt("accept") + 1}, m = GwJoinAt("accept") - 1
  PROVE  GwInv'
<1>i. /\ GwTyped /\ GwTodoOK /\ GwLocked /\ GwClosed /\ GwNamed
      /\ (GwCalm => GwOneAtATime /\ GwServesAllowed /\ GwOneOpen /\ GwReports)
  BY DEF GwInv, GwRegular
<1>s. PICK S : S = 0..gwConfig.conns OBVIOUS
<1>0. /\ 0 \in S /\ gwConfig.conns \in Nat /\ GwLocals(S)
      /\ GwFieldsOK /\ GwLocksOK /\ GwQueueOK /\ GwWorldOK /\ GwPastOK
  BY <1>i, <1>s DEF GwTyped
<1>a. Joined("accept", "none") BY DEF GwMEnds
<1>d. gwConfig' = gwConfig /\ gwPast' = gwPast /\ gw' = gw /\ gwWorld' = gwWorld /\ gwQueue' = gwQueue
  BY DEF GwMEnds, GwSame
<1>b. GwLocals(S)' /\ GwA' = "none" /\ GwAConn' = 0 /\ UNCHANGED <<GwU, GwUConn, GwUInt, GwD, GwDConn>>
  <2>1. {"accept", "up", "down", "mon"} \subseteq GwThreads BY DEF GwThreads
  <2>2. /\ GwLocals(S)' /\ gwThread'["accept"] = GwNew("none")
        /\ \A u \in GwThreads \ {"accept"} : gwThread'[u] = gwThread[u]
    BY <1>0, <1>a, <2>1, GwJoinedEffect DEF GwLabels
  <2>3. gwThread'["up"] = gwThread["up"] /\ gwThread'["down"] = gwThread["down"] BY <2>1, <2>2
  <2> QED BY <2>2, <2>3 DEF GwA, GwAConn, GwU, GwUConn, GwUInt, GwD, GwDConn, GwNew
<1>l. /\ gwLock["accept"] \in {"free", "main"} /\ gwLock' = [gwLock EXCEPT !["accept"] = "free"]
      /\ GwA \in {"none", "done"}
  BY <1>a DEF GwMEnds, Joined, Running, GwA
<1>e. /\ GwLocals(S)'
      /\ GwA \in {"none", "done"}
      /\ GwA' = "none" /\ GwAConn' = 0 /\ UNCHANGED <<GwU, GwUConn, GwUInt, GwD, GwDConn>>
      /\ gw' = gw
      /\ gwWorld' = gwWorld
      /\ gwQueue' = gwQueue
      /\ gwLock["accept"] \in {"free", "main"} /\ gwLock' = [gwLock EXCEPT !["accept"] = "free"]
  BY <1>b, <1>d, <1>l
<1>f. /\ ~GwOn /\ ~GwOn' /\ (Dun' <=> Dun) /\ GwTodoOK' /\ gwConfig' = gwConfig /\ GwPastOK'
      /\ (GwCalm' <=> GwCalm)
      /\ (GwNoListen' <=> GwNoListen) /\ (GwDropped' <=> GwDropped) /\ (GwDownGone' <=> GwDownGone)
      /\ (GwUpGone' <=> GwUpGone)
      /\ \A t \in GwThreads : GwJoins(t) => t = "accept"
      /\ \A t \in GwThreads : ~GwJoins(t)'
  <2>1. /\ m > 0 /\ (n < GwCloseLen - 1 <=> m < GwCloseLen - 1)
        /\ (n < GwCloseLen - 2 <=> m < GwCloseLen - 2) /\ (n < 7 <=> m < 7) /\ (n < 5 <=> m < 5)
        /\ \A u \in GwThreads : n = GwJoinAt(u) => u = "accept"
    <3>1. "accept" \in GwThreads BY DEF GwThreads
    <3> QED BY <3>1, GwJoinPlaces
  <2>2. GwTodoOK' /\ ~GwOn /\ ~GwOn' /\ (Dun' <=> Dun)
        /\ (GwNoListen' <=> GwNoListen) /\ (GwDropped' <=> GwDropped) /\ (GwDownGone' <=> GwDownGone)
        /\ (GwUpGone' <=> GwUpGone)
    BY <1>d, <1>e, <2>1, GwClosing
  <2>3. GwPastOK' BY <1>0, <1>d DEF GwPastOK
  <2>4. GwCalm' <=> GwCalm BY <1>d, GwCalmKept
  <2>5. \A t \in GwThreads : GwJoins(t) <=> n = GwJoinAt(t) /\ (t = "mon" => Dun) BY GwCloseJoins
  <2>6. \A t \in GwThreads : GwJoins(t) => t = "accept" BY <2>1, <2>5
  <2>7. \A t \in GwThreads : ~GwJoins(t)' BY DEF GwMEnds, GwJoinsNone
  <2> QED BY <1>d, <2>2, <2>3, <2>4, <2>6, <2>7
<1>t. GwTyped'
  <2>1. GwFieldsOK' BY <1>0, <1>e, <1>f DEF GwFieldsOK
  <2>2. GwLocksOK' BY <1>0, <1>e DEF GwLocksOK
  <2>3. GwQueueOK' BY <1>0, <1>e, <1>f DEF GwQueueOK, GwConn
  <2>4. GwWorldOK' BY <1>0, <1>e, <1>f DEF GwWorldOK, GwConn
  <2>5. GwLocals(0..gwConfig.conns)' BY <1>e, <1>f, <1>s DEF GwLocals
  <2> QED BY <1>0, <1>e, <1>f, <1>i, <2>1, <2>2, <2>3, <2>4, <2>5 DEF GwTyped
<1>1. GwLocked' BY <1>e, <1>f, <1>i, <1>0 DEF GwListsKept, GwLocked, GwThreads, GwLocksOK
<1>2. GwClosed' BY <1>e, <1>f, <1>i DEF GwListsKept, GwClosed
<1>3. GwNamed' BY <1>e, <1>f, <1>i DEF GwListsKept, GwNamed
<1>r. GwCalm' => GwOneAtATime' /\ GwServesAllowed' /\ GwOneOpen' /\ GwReports'
  <2> SUFFICES ASSUME GwCalm' PROVE GwOneAtATime' /\ GwServesAllowed' /\ GwOneOpen' /\ GwReports' OBVIOUS
  <2>0. GwOneAtATime /\ GwServesAllowed /\ GwOneOpen /\ GwReports BY <1>f, <1>i
  <2>1. GwOneAtATime'
    BY <1>e, <1>f, <2>0 DEF GwListsKept, GwOneAtATime, GwURuns, GwOver, GwServes, GwBusy, GwFree
  <2>2. GwServesAllowed' BY <1>e, <1>f, <2>0 DEF GwListsKept, GwServesAllowed, GwTaken
  <2>3. GwOneOpen' BY <1>e, <1>f, <2>0 DEF GwListsKept, GwOneOpen
  <2>4. GwReports' BY <1>e, <1>f, <2>0 DEF GwListsKept, GwReports, GwServes
  <2> QED BY <2>1, <2>2, <2>3, <2>4
<1> QED BY <1>1, <1>2, <1>3, <1>f, <1>r, <1>t DEF GwInv, GwRegular

\* ... and has ended, ...
LEMMA GwCloseEndsUp ==
  ASSUME GwInv, gwWorld.adapter \in {"turning_off", "closed"}, GwCloses, gwTodo # <<>>, NEW n \in Nat,
         n = Len(gwTodo), NEW m \in Nat, m = Len(gwTodo'), GwCloses',
         GwMEnds("up", "none"), n \in {GwJoinAt("up"), GwJoinAt("up") + 1}, m = GwJoinAt("up") - 1
  PROVE  GwInv'
<1>i. /\ GwTyped /\ GwTodoOK /\ GwLocked /\ GwClosed /\ GwNamed
      /\ (GwCalm => GwOneAtATime /\ GwServesAllowed /\ GwOneOpen /\ GwReports)
  BY DEF GwInv, GwRegular
<1>s. PICK S : S = 0..gwConfig.conns OBVIOUS
<1>0. /\ 0 \in S /\ gwConfig.conns \in Nat /\ GwLocals(S)
      /\ GwFieldsOK /\ GwLocksOK /\ GwQueueOK /\ GwWorldOK /\ GwPastOK
  BY <1>i, <1>s DEF GwTyped
<1>a. Joined("up", "none") BY DEF GwMEnds
<1>d. gwConfig' = gwConfig /\ gwPast' = gwPast /\ gw' = gw /\ gwWorld' = gwWorld /\ gwQueue' = gwQueue
  BY DEF GwMEnds, GwSame
<1>b. /\ GwLocals(S)' /\ GwU' = "none" /\ GwUConn' = 0 /\ GwUInt' = FALSE
      /\ UNCHANGED <<GwA, GwAConn, GwD, GwDConn>>
  <2>1. {"accept", "up", "down", "mon"} \subseteq GwThreads BY DEF GwThreads
  <2>2. /\ GwLocals(S)' /\ gwThread'["up"] = GwNew("none")
        /\ \A u \in GwThreads \ {"up"} : gwThread'[u] = gwThread[u]
    BY <1>0, <1>a, <2>1, GwJoinedEffect DEF GwLabels
  <2>3. gwThread'["accept"] = gwThread["accept"] /\ gwThread'["down"] = gwThread["down"] BY <2>1, <2>2
  <2> QED BY <2>2, <2>3 DEF GwA, GwAConn, GwU, GwUConn, GwUInt, GwD, GwDConn, GwNew
<1>l. /\ gwLock["up"] \in {"free", "main"} /\ gwLock' = [gwLock EXCEPT !["up"] = "free"]
      /\ GwU \in {"none", "done"}
  BY <1>a DEF GwMEnds, Joined, Running, GwU
<1>e. /\ GwLocals(S)'
      /\ GwU \in {"none", "done"}
      /\ GwU' = "none" /\ GwUConn' = 0 /\ GwUInt' = FALSE /\ UNCHANGED <<GwA, GwAConn, GwD, GwDConn>>
      /\ gw' = gw
      /\ gwWorld' = gwWorld
      /\ gwQueue' = gwQueue
      /\ gwLock["up"] \in {"free", "main"} /\ gwLock' = [gwLock EXCEPT !["up"] = "free"]
  BY <1>b, <1>d, <1>l
<1>f. /\ ~GwOn /\ ~GwOn' /\ (Dun' <=> Dun) /\ GwTodoOK' /\ gwConfig' = gwConfig /\ GwPastOK'
      /\ (GwCalm' <=> GwCalm)
      /\ (GwNoListen' <=> GwNoListen) /\ (GwNoAccept' <=> GwNoAccept) /\ (GwDropped' <=> GwDropped)
      /\ (GwDownGone' <=> GwDownGone)
      /\ \A t \in GwThreads : GwJoins(t) => t = "up"
      /\ \A t \in GwThreads : ~GwJoins(t)'
  <2>1. /\ m > 0 /\ (n < GwCloseLen - 1 <=> m < GwCloseLen - 1)
        /\ (n < GwCloseLen - 2 <=> m < GwCloseLen - 2) /\ (n < 2 <=> m < 2) /\ (n < 7 <=> m < 7)
        /\ \A u \in GwThreads : n = GwJoinAt(u) => u = "up"
    <3>1. "up" \in GwThreads BY DEF GwThreads
    <3> QED BY <3>1, GwJoinPlaces
  <2>2. GwTodoOK' /\ ~GwOn /\ ~GwOn' /\ (Dun' <=> Dun)
        /\ (GwNoListen' <=> GwNoListen) /\ (GwNoAccept' <=> GwNoAccept) /\ (GwDropped' <=> GwDropped)
        /\ (GwDownGone' <=> GwDownGone)
    BY <1>d, <1>e, <2>1, GwClosing
  <2>3. GwPastOK' BY <1>0, <1>d DEF GwPastOK
  <2>4. GwCalm' <=> GwCalm BY <1>d, GwCalmKept
  <2>5. \A t \in GwThreads : GwJoins(t) <=> n = GwJoinAt(t) /\ (t = "mon" => Dun) BY GwCloseJoins
  <2>6. \A t \in GwThreads : GwJoins(t) => t = "up" BY <2>1, <2>5
  <2>7. \A t \in GwThreads : ~GwJoins(t)' BY DEF GwMEnds, GwJoinsNone
  <2> QED BY <1>d, <2>2, <2>3, <2>4, <2>6, <2>7
<1>t. GwTyped'
  <2>1. GwFieldsOK' BY <1>0, <1>e, <1>f DEF GwFieldsOK
  <2>2. GwLocksOK' BY <1>0, <1>e DEF GwLocksOK
  <2>3. GwQueueOK' BY <1>0, <1>e, <1>f DEF GwQueueOK, GwConn
  <2>4. GwWorldOK' BY <1>0, <1>e, <1>f DEF GwWorldOK, GwConn
  <2>5. GwLocals(0..gwConfig.conns)' BY <1>e, <1>f, <1>s DEF GwLocals
  <2> QED BY <1>0, <1>e, <1>f, <1>i, <2>1, <2>2, <2>3, <2>4, <2>5 DEF GwTyped
<1>1. GwLocked' BY <1>e, <1>f, <1>i, <1>0 DEF GwListsKept, GwLocked, GwThreads, GwLocksOK
<1>2. GwClosed' BY <1>e, <1>f, <1>i DEF GwListsKept, GwClosed
<1>3. GwNamed' BY <1>e, <1>f, <1>i DEF GwListsKept, GwNamed
<1>r. GwCalm' => GwOneAtATime' /\ GwServesAllowed' /\ GwOneOpen' /\ GwReports'
  <2> SUFFICES ASSUME GwCalm' PROVE GwOneAtATime' /\ GwServesAllowed' /\ GwOneOpen' /\ GwReports' OBVIOUS
  <2>0. GwOneAtATime /\ GwServesAllowed /\ GwOneOpen /\ GwReports BY <1>f, <1>i
  <2>1. GwOneAtATime'
    BY <1>e, <1>f, <2>0 DEF GwListsKept, GwOneAtATime, GwURuns, GwOver, GwServes, GwBusy, GwFree
  <2>2. GwServesAllowed' BY <1>e, <1>f, <2>0 DEF GwListsKept, GwServesAllowed, GwTaken
  <2>3. GwOneOpen' BY <1>e, <1>f, <2>0 DEF GwListsKept, GwOneOpen
  <2>4. GwReports' BY <1>e, <1>f, <2>0 DEF GwListsKept, GwReports, GwServes
  <2> QED BY <2>1, <2>2, <2>3, <2>4
<1> QED BY <1>1, <1>2, <1>3, <1>f, <1>r, <1>t DEF GwInv, GwRegular

\* ... and has ended, ...
LEMMA GwCloseEndsDown ==
  ASSUME GwInv, gwWorld.adapter \in {"turning_off", "closed"}, GwCloses, gwTodo # <<>>, NEW n \in Nat,
         n = Len(gwTodo), NEW m \in Nat, m = Len(gwTodo'), GwCloses',
         GwMEnds("down", "none"), n \in {GwJoinAt("down"), GwJoinAt("down") + 1}, m = GwJoinAt("down") - 1
  PROVE  GwInv'
<1>i. /\ GwTyped /\ GwTodoOK /\ GwLocked /\ GwClosed /\ GwNamed
      /\ (GwCalm => GwOneAtATime /\ GwServesAllowed /\ GwOneOpen /\ GwReports)
  BY DEF GwInv, GwRegular
<1>s. PICK S : S = 0..gwConfig.conns OBVIOUS
<1>0. /\ 0 \in S /\ gwConfig.conns \in Nat /\ GwLocals(S)
      /\ GwFieldsOK /\ GwLocksOK /\ GwQueueOK /\ GwWorldOK /\ GwPastOK
  BY <1>i, <1>s DEF GwTyped
<1>a. Joined("down", "none") BY DEF GwMEnds
<1>d. gwConfig' = gwConfig /\ gwPast' = gwPast /\ gw' = gw /\ gwWorld' = gwWorld /\ gwQueue' = gwQueue
  BY DEF GwMEnds, GwSame
<1>b. GwLocals(S)' /\ GwD' = "none" /\ GwDConn' = 0 /\ UNCHANGED <<GwA, GwAConn, GwU, GwUConn, GwUInt>>
  <2>1. {"accept", "up", "down", "mon"} \subseteq GwThreads BY DEF GwThreads
  <2>2. /\ GwLocals(S)' /\ gwThread'["down"] = GwNew("none")
        /\ \A u \in GwThreads \ {"down"} : gwThread'[u] = gwThread[u]
    BY <1>0, <1>a, <2>1, GwJoinedEffect DEF GwLabels
  <2>3. gwThread'["accept"] = gwThread["accept"] /\ gwThread'["up"] = gwThread["up"] BY <2>1, <2>2
  <2> QED BY <2>2, <2>3 DEF GwA, GwAConn, GwU, GwUConn, GwUInt, GwD, GwDConn, GwNew
<1>l. /\ gwLock["down"] \in {"free", "main"} /\ gwLock' = [gwLock EXCEPT !["down"] = "free"]
      /\ GwD \in {"none", "done"}
  BY <1>a DEF GwMEnds, Joined, Running, GwD
<1>e. /\ GwLocals(S)'
      /\ GwD \in {"none", "done"}
      /\ GwD' = "none" /\ GwDConn' = 0 /\ UNCHANGED <<GwA, GwAConn, GwU, GwUConn, GwUInt>>
      /\ gw' = gw
      /\ gwWorld' = gwWorld
      /\ gwQueue' = gwQueue
      /\ gwLock["down"] \in {"free", "main"} /\ gwLock' = [gwLock EXCEPT !["down"] = "free"]
  BY <1>b, <1>d, <1>l
<1>f. /\ ~GwOn /\ ~GwOn' /\ (Dun' <=> Dun) /\ GwTodoOK' /\ gwConfig' = gwConfig /\ GwPastOK'
      /\ (GwCalm' <=> GwCalm)
      /\ (GwNoListen' <=> GwNoListen) /\ (GwNoAccept' <=> GwNoAccept) /\ (GwDropped' <=> GwDropped)
      /\ (GwUpGone' <=> GwUpGone)
      /\ \A t \in GwThreads : GwJoins(t) => t = "down"
      /\ \A t \in GwThreads : ~GwJoins(t)'
  <2>1. /\ m > 0 /\ (n < GwCloseLen - 1 <=> m < GwCloseLen - 1)
        /\ (n < GwCloseLen - 2 <=> m < GwCloseLen - 2) /\ (n < 2 <=> m < 2) /\ (n < 5 <=> m < 5)
        /\ \A u \in GwThreads : n = GwJoinAt(u) => u = "down"
    <3>1. "down" \in GwThreads BY DEF GwThreads
    <3> QED BY <3>1, GwJoinPlaces
  <2>2. GwTodoOK' /\ ~GwOn /\ ~GwOn' /\ (Dun' <=> Dun)
        /\ (GwNoListen' <=> GwNoListen) /\ (GwNoAccept' <=> GwNoAccept) /\ (GwDropped' <=> GwDropped)
        /\ (GwUpGone' <=> GwUpGone)
    BY <1>d, <1>e, <2>1, GwClosing
  <2>3. GwPastOK' BY <1>0, <1>d DEF GwPastOK
  <2>4. GwCalm' <=> GwCalm BY <1>d, GwCalmKept
  <2>5. \A t \in GwThreads : GwJoins(t) <=> n = GwJoinAt(t) /\ (t = "mon" => Dun) BY GwCloseJoins
  <2>6. \A t \in GwThreads : GwJoins(t) => t = "down" BY <2>1, <2>5
  <2>7. \A t \in GwThreads : ~GwJoins(t)' BY DEF GwMEnds, GwJoinsNone
  <2> QED BY <1>d, <2>2, <2>3, <2>4, <2>6, <2>7
<1>t. GwTyped'
  <2>1. GwFieldsOK' BY <1>0, <1>e, <1>f DEF GwFieldsOK
  <2>2. GwLocksOK' BY <1>0, <1>e DEF GwLocksOK
  <2>3. GwQueueOK' BY <1>0, <1>e, <1>f DEF GwQueueOK, GwConn
  <2>4. GwWorldOK' BY <1>0, <1>e, <1>f DEF GwWorldOK, GwConn
  <2>5. GwLocals(0..gwConfig.conns)' BY <1>e, <1>f, <1>s DEF GwLocals
  <2> QED BY <1>0, <1>e, <1>f, <1>i, <2>1, <2>2, <2>3, <2>4, <2>5 DEF GwTyped
<1>1. GwLocked' BY <1>e, <1>f, <1>i, <1>0 DEF GwListsKept, GwLocked, GwThreads, GwLocksOK
<1>2. GwClosed' BY <1>e, <1>f, <1>i DEF GwListsKept, GwClosed
<1>3. GwNamed' BY <1>e, <1>f, <1>i DEF GwListsKept, GwNamed
<1>r. GwCalm' => GwOneAtATime' /\ GwServesAllowed' /\ GwOneOpen' /\ GwReports'
  <2> SUFFICES ASSUME GwCalm' PROVE GwOneAtATime' /\ GwServesAllowed' /\ GwOneOpen' /\ GwReports' OBVIOUS
  <2>0. GwOneAtATime /\ GwServesAllowed /\ GwOneOpen /\ GwReports BY <1>f, <1>i
  <2>1. GwOneAtATime'
    BY <1>e, <1>f, <2>0 DEF GwListsKept, GwOneAtATime, GwURuns, GwOver, GwServes, GwBusy, GwFree
  <2>2. GwServesAllowed' BY <1>e, <1>f, <2>0 DEF GwListsKept, GwServesAllowed, GwTaken
  <2>3. GwOneOpen' BY <1>e, <1>f, <2>0 DEF GwListsKept, GwOneOpen
  <2>4. GwReports' BY <1>e, <1>f, <2>0 DEF GwListsKept, GwReports, GwServes
  <2> QED BY <2>1, <2>2, <2>3, <2>4
<1> QED BY <1>1, <1>2, <1>3, <1>f, <1>r, <1>t DEF GwInv, GwRegular

\* ... and has ended, ...
LEMMA GwCloseEndsMon ==
  ASSUME GwInv, gwWorld.adapter \in {"turning_off", "closed"}, GwCloses, gwTodo # <<>>, NEW n \in Nat,
         n = Len(gwTodo), NEW m \in Nat, m = Len(gwTodo'), GwCloses',
         GwMEnds("mon", "none"), n \in {GwJoinAt("mon"), GwJoinAt("mon") + 1}, m = GwJoinAt("mon") - 1, Dun
  PROVE  GwInv'
<1>i. /\ GwTyped /\ GwTodoOK /\ GwLocked /\ GwClosed /\ GwNamed
      /\ (GwCalm => GwOneAtATime /\ GwServesAllowed /\ GwOneOpen /\ GwReports)
  BY DEF GwInv, GwRegular
<1>s. PICK S : S = 0..gwConfig.conns OBVIOUS
<1>0. /\ 0 \in S /\ gwConfig.conns \in Nat /\ GwLocals(S)
      /\ GwFieldsOK /\ GwLocksOK /\ GwQueueOK /\ GwWorldOK /\ GwPastOK
  BY <1>i, <1>s DEF GwTyped
<1>a. Joined("mon", "none") BY DEF GwMEnds
<1>d. gwConfig' = gwConfig /\ gwPast' = gwPast /\ gw' = gw /\ gwWorld' = gwWorld /\ gwQueue' = gwQueue
  BY DEF GwMEnds, GwSame
<1>b. GwLocals(S)' /\ UNCHANGED <<GwA, GwAConn, GwU, GwUConn, GwUInt, GwD, GwDConn>>
  <2>1. {"accept", "up", "down", "mon"} \subseteq GwThreads BY DEF GwThreads
  <2>2. /\ GwLocals(S)'
        /\ \A u \in GwThreads \ {"mon"} : gwThread'[u] = gwThread[u]
    BY <1>0, <1>a, <2>1, GwJoinedEffect DEF GwLabels
  <2>3. /\ gwThread'["accept"] = gwThread["accept"] /\ gwThread'["up"] = gwThread["up"]
        /\ gwThread'["down"] = gwThread["down"]
    BY <2>1, <2>2
  <2> QED BY <2>2, <2>3 DEF GwA, GwAConn, GwU, GwUConn, GwUInt, GwD, GwDConn, GwNew
<1>l. gwLock["mon"] \in {"free", "main"} /\ gwLock' = [gwLock EXCEPT !["mon"] = "free"]
  BY <1>a DEF GwMEnds, Joined
<1>e. /\ GwLocals(S)'
      /\ UNCHANGED <<GwA, GwAConn, GwU, GwUConn, GwUInt, GwD, GwDConn>>
      /\ gw' = gw
      /\ gwWorld' = gwWorld
      /\ gwQueue' = gwQueue
      /\ gwLock["mon"] \in {"free", "main"} /\ gwLock' = [gwLock EXCEPT !["mon"] = "free"]
  BY <1>b, <1>d, <1>l
<1>f. /\ ~GwOn /\ ~GwOn' /\ (Dun' <=> Dun) /\ GwTodoOK' /\ gwConfig' = gwConfig /\ GwPastOK'
      /\ (GwCalm' <=> GwCalm)
      /\ (GwNoListen' <=> GwNoListen) /\ (GwNoAccept' <=> GwNoAccept) /\ (GwDropped' <=> GwDropped)
      /\ (GwDownGone' <=> GwDownGone) /\ (GwUpGone' <=> GwUpGone)
      /\ \A t \in GwThreads : GwJoins(t) => t = "mon"
      /\ \A t \in GwThreads : ~GwJoins(t)'
  <2>1. /\ m > 0 /\ (n < GwCloseLen - 1 <=> m < GwCloseLen - 1)
        /\ (n < GwCloseLen - 2 <=> m < GwCloseLen - 2) /\ (n < 2 <=> m < 2) /\ (n < 7 <=> m < 7)
        /\ (n < 5 <=> m < 5)
        /\ \A u \in GwThreads : n = GwJoinAt(u) => u = "mon"
    <3>1. "mon" \in GwThreads BY DEF GwThreads
    <3> QED BY <3>1, GwJoinPlaces
  <2>2. GwTodoOK' /\ ~GwOn /\ ~GwOn' /\ (Dun' <=> Dun)
        /\ (GwNoListen' <=> GwNoListen) /\ (GwNoAccept' <=> GwNoAccept) /\ (GwDropped' <=> GwDropped)
        /\ (GwDownGone' <=> GwDownGone) /\ (GwUpGone' <=> GwUpGone)
    BY <1>d, <1>e, <2>1, GwClosing
  <2>3. GwPastOK' BY <1>0, <1>d DEF GwPastOK
  <2>4. GwCalm' <=> GwCalm BY <1>d, GwCalmKept
  <2>5. \A t \in GwThreads : GwJoins(t) <=> n = GwJoinAt(t) /\ (t = "mon" => Dun) BY GwCloseJoins
  <2>6. \A t \in GwThreads : GwJoins(t) => t = "mon" BY <2>1, <2>5
  <2>7. \A t \in GwThreads : ~GwJoins(t)' BY DEF GwMEnds, GwJoinsNone
  <2> QED BY <1>d, <2>2, <2>3, <2>4, <2>6, <2>7
<1>t. GwTyped'
  <2>1. GwFieldsOK' BY <1>0, <1>e, <1>f DEF GwFieldsOK
  <2>2. GwLocksOK' BY <1>0, <1>e DEF GwLocksOK
  <2>3. GwQueueOK' BY <1>0, <1>e, <1>f DEF GwQueueOK, GwConn
  <2>4. GwWorldOK' BY <1>0, <1>e, <1>f DEF GwWorldOK, GwConn
  <2>5. GwLocals(0..gwConfig.conns)' BY <1>e, <1>f, <1>s DEF GwLocals
  <2> QED BY <1>0, <1>e, <1>f, <1>i, <2>1, <2>2, <2>3, <2>4, <2>5 DEF GwTyped
<1>1. GwLocked' BY <1>e, <1>f, <1>i, <1>0 DEF GwListsKept, GwLocked, GwThreads, GwLocksOK
<1>2. GwClosed' BY <1>e, <1>f, <1>i DEF GwListsKept, GwClosed
<1>3. GwNamed' BY <1>e, <1>f, <1>i DEF GwListsKept, GwNamed
<1>r. GwCalm' => GwOneAtATime' /\ GwServesAllowed' /\ GwOneOpen' /\ GwReports'
  <2> SUFFICES ASSUME GwCalm' PROVE GwOneAtATime' /\ GwServesAllowed' /\ GwOneOpen' /\ GwReports' OBVIOUS
  <2>0. GwOneAtATime /\ GwServesAllowed /\ GwOneOpen /\ GwReports BY <1>f, <1>i
  <2>1. GwOneAtATime'
    BY <1>e, <1>f, <2>0 DEF GwListsKept, GwOneAtATime, GwURuns, GwOver, GwServes, GwBusy, GwFree
  <2>2. GwServesAllowed' BY <1>e, <1>f, <2>0 DEF GwListsKept, GwServesAllowed, GwTaken
  <2>3. GwOneOpen' BY <1>e, <1>f, <2>0 DEF GwListsKept, GwOneOpen
  <2>4. GwReports' BY <1>e, <1>f, <2>0 DEF GwListsKept, GwReports, GwServes
  <2> QED BY <2>1, <2>2, <2>3, <2>4
<1> QED BY <1>1, <1>2, <1>3, <1>f, <1>r, <1>t DEF GwInv, GwRegular

\* The last step leaves nothing to do.
LEMMA GwLastStep ==
  ASSUME GwCloses, Len(gwTodo) = 1, gwTodo' = <<>>
  PROVE  GwCloses' /\ GwJoinsNone /\ GwJoinsNone'
<1>1. \A t \in GwThreads : GwJoins(t) <=> Len(gwTodo) = GwJoinAt(t) /\ (t = "mon" => Dun) BY GwCloseJoins
<1>2. \A t : GwJoinAt(t) # 1 BY DEF GwJoinAt
<1>3. GwJoinsNone BY <1>1, <1>2 DEF GwJoinsNone
<1>4. GwJoinsNone' BY DEF GwJoinsNone, GwJoins
<1>5. GwCloseLen' \in {12, 14} BY DEF GwCloseLen
<1>6. gwTodo' \in Seq(GwTasks) /\ Len(gwTodo') = 0 OBVIOUS
<1>7. 1..Len(gwTodo') = {} BY <1>6
<1>8. Len(gwTodo') <= GwCloseLen' BY <1>5, <1>6
<1>9. GwCloses' BY <1>6, <1>7, <1>8 DEF GwCloses
<1> QED BY <1>3, <1>4, <1>9

\* ... the service is closed.
LEMMA GwDisables ==
  ASSUME GwInv, gwWorld.adapter = "turning_off", GwCloses, Len(gwTodo) = 1, gwTodo' = <<>>,
         UNCHANGED gwConfig,
         Fields(GwTask("disable", "accept"))
  PROVE  GwInv'
<1>i. /\ GwTyped /\ GwTodoOK /\ GwLocked /\ GwClosed /\ GwNamed
      /\ (GwCalm => GwOneAtATime /\ GwServesAllowed /\ GwOneOpen /\ GwReports)
  BY DEF GwInv, GwRegular
<1>s. PICK S : S = 0..gwConfig.conns OBVIOUS
<1>0. /\ 0 \in S /\ gwConfig.conns \in Nat /\ GwLocals(S)
      /\ GwFieldsOK /\ GwLocksOK /\ GwQueueOK /\ GwWorldOK /\ GwPastOK
  BY <1>i, <1>s DEF GwTyped
<1>k. GwTask("disable", "accept").do = "disable" BY DEF GwTask
<1>p. gwPast' = [gwPast EXCEPT !.stale = @] BY <1>k DEF Fields
<1>d. gwConfig' = gwConfig /\ gwLock' = gwLock /\ gwPast' = gwPast /\ gwThread' = gwThread
  BY <1>0, <1>k, <1>p DEF Fields, GwPastOK
<1>a. /\ gw' = [gw EXCEPT !.enable = FALSE, !.waiting = FALSE]
      /\ gwWorld' = [gwWorld EXCEPT !.adapter = "closed"]
  BY <1>k DEF Fields
<1>c. gwQueue' = [gwQueue EXCEPT !.timeouts = {}] BY <1>k DEF Fields
<1>g. gw'.rfcomm = gw.rfcomm /\ gw'.remote = gw.remote /\ gw'.waiting = FALSE /\ gw'.listen = gw.listen
  BY <1>0, <1>a DEF GwFieldsOK
<1>h. /\ gwWorld'.adapter = "closed" /\ gwWorld'.open = gwWorld.open
      /\ gwWorld'.allowed = gwWorld.allowed /\ gwWorld'.told = gwWorld.told
  BY <1>0, <1>a DEF GwWorldOK
<1>q. gwQueue'.start = gwQueue.start BY <1>0, <1>c DEF GwQueueOK
<1>b. GwLocals(S)' /\ UNCHANGED <<GwA, GwAConn, GwU, GwUConn, GwUInt, GwD, GwDConn>>
  BY <1>0, <1>d, GwSameThreads
<1>e. /\ GwLocals(S)'
      /\ UNCHANGED <<GwA, GwAConn, GwU, GwUConn, GwUInt, GwD, GwDConn>>
      /\ gw'.rfcomm = gw.rfcomm
      /\ gw'.remote = gw.remote
      /\ gw'.waiting = FALSE
      /\ gw'.listen = gw.listen
      /\ gwWorld'.adapter = "closed"
      /\ gwWorld'.open = gwWorld.open
      /\ gwWorld'.allowed = gwWorld.allowed
      /\ gwWorld'.told = gwWorld.told
      /\ gwQueue'.start = gwQueue.start
      /\ gwLock' = gwLock
  BY <1>b, <1>d, <1>g, <1>h, <1>q
<1>f. /\ ~GwOn /\ ~GwOn' /\ (Dun' <=> Dun) /\ GwTodoOK' /\ gwConfig' = gwConfig /\ GwPastOK'
      /\ (GwCalm' <=> GwCalm)
      /\ GwNoListen /\ GwNoAccept
      /\ ~GwNoListen' /\ ~GwNoAccept' /\ ~GwDropped' /\ ~GwDownGone' /\ ~GwUpGone'
      /\ \A t \in GwThreads : ~GwJoins(t) /\ ~GwJoins(t)'
      /\ gwWorld.adapter = "turning_off"
  <2>1. GwCloses' /\ GwJoinsNone /\ GwJoinsNone' BY GwLastStep
  <2>2. ~GwOn /\ ~GwOn' /\ GwTodoOK' BY <1>e, <2>1 DEF GwOn, GwTodoOK
  <2>3. GwCloseLen \in {12, 14} BY DEF GwCloseLen
  <2>4. GwNoListen /\ GwNoAccept
    BY <2>3, EmptySeq DEF GwNoListen, GwNoAccept, GwDropped, GwDownGone, GwUpGone, GwLeft
  <2>5. ~GwNoListen' /\ ~GwNoAccept' /\ ~GwDropped' /\ ~GwDownGone' /\ ~GwUpGone'
    BY <1>e DEF GwNoListen, GwNoAccept, GwDropped, GwDownGone, GwUpGone, GwLeft
  <2>6. GwPastOK' BY <1>0, <1>d DEF GwPastOK
  <2>7. GwCalm' <=> GwCalm BY <1>d, GwCalmKept
  <2>8. Dun' <=> Dun BY <1>d DEF Dun
  <2> QED BY <1>d, <2>1, <2>2, <2>4, <2>5, <2>6, <2>7, <2>8 DEF GwJoinsNone
<1>t. GwTyped'
  <2>1. GwFieldsOK' BY <1>0, <1>a, <1>f DEF GwFieldsOK
  <2>2. GwLocksOK' BY <1>0, <1>e, <1>f DEF GwLocksOK
  <2>3. GwQueueOK' BY <1>0, <1>c, <1>f DEF GwQueueOK, GwConn
  <2>4. GwWorldOK' BY <1>0, <1>a, <1>f DEF GwWorldOK, GwConn
  <2>5. GwLocals(0..gwConfig.conns)' BY <1>e, <1>f, <1>s DEF GwLocals
  <2> QED BY <1>0, <1>e, <1>f, <1>i, <2>1, <2>2, <2>3, <2>4, <2>5 DEF GwTyped
<1>1. GwLocked' BY <1>e, <1>f, <1>i DEF GwListsKept, GwLocked, GwThreads
<1>2. GwClosed' BY <1>e, <1>f, <1>i DEF GwListsKept, GwClosed
<1>3. GwNamed' BY <1>e, <1>f, <1>i DEF GwListsKept, GwNamed
<1>r. GwCalm' => GwOneAtATime' /\ GwServesAllowed' /\ GwOneOpen' /\ GwReports'
  <2> SUFFICES ASSUME GwCalm' PROVE GwOneAtATime' /\ GwServesAllowed' /\ GwOneOpen' /\ GwReports' OBVIOUS
  <2>0. GwOneAtATime /\ GwServesAllowed /\ GwOneOpen /\ GwReports BY <1>f, <1>i
  <2>1. GwOneAtATime'
    BY <1>e, <1>f, <2>0 DEF GwListsKept, GwOneAtATime, GwURuns, GwOver, GwServes, GwBusy, GwFree
  <2>2. GwServesAllowed' BY <1>e, <1>f, <2>0 DEF GwListsKept, GwServesAllowed, GwTaken
  <2>3. GwOneOpen' BY <1>e, <1>f, <2>0 DEF GwListsKept, GwOneOpen
  <2>4. GwReports' BY <1>e, <1>f, <2>0 DEF GwListsKept, GwReports, GwServes
  <2> QED BY <2>1, <2>2, <2>3, <2>4
<1> QED BY <1>1, <1>2, <1>3, <1>f, <1>r, <1>t DEF GwInv, GwRegular

\* onDestroy drops what is left.
LEMMA GwDestroys ==
  ASSUME GwInv, gwWorld.adapter = "closed", GwCloses, Len(gwTodo) = 1, gwTodo' = <<>>, UNCHANGED gwConfig,
         Fields(GwTask("destroy", "accept"))
  PROVE  GwInv'
<1>i. /\ GwTyped /\ GwTodoOK /\ GwLocked /\ GwClosed /\ GwNamed
      /\ (GwCalm => GwOneAtATime /\ GwServesAllowed /\ GwOneOpen /\ GwReports)
  BY DEF GwInv, GwRegular
<1>s. PICK S : S = 0..gwConfig.conns OBVIOUS
<1>0. /\ 0 \in S /\ gwConfig.conns \in Nat /\ GwLocals(S)
      /\ GwFieldsOK /\ GwLocksOK /\ GwQueueOK /\ GwWorldOK /\ GwPastOK
  BY <1>i, <1>s DEF GwTyped
<1>k. GwTask("destroy", "accept").do = "destroy" BY DEF GwTask
<1>p. gwPast' = [gwPast EXCEPT !.stale = @] BY <1>k DEF Fields
<1>d. gwConfig' = gwConfig /\ gwLock' = gwLock /\ gwPast' = gwPast /\ gwThread' = gwThread /\ gw' = gw
  BY <1>0, <1>k, <1>p DEF Fields, GwPastOK
<1>a. gwWorld' = [gwWorld EXCEPT !.adapter = "off", !.asked = {}, !.told = {}] BY <1>k DEF Fields
<1>c. gwQueue' = [start |-> FALSE, timeouts |-> {}] BY <1>k DEF Fields
<1>g. gw' = gw BY <1>d
<1>h. /\ gwWorld'.adapter = "off" /\ gwWorld'.open = gwWorld.open
      /\ gwWorld'.allowed = gwWorld.allowed /\ gwWorld'.told = {}
  BY <1>0, <1>a DEF GwWorldOK
<1>q. gwQueue'.start = FALSE BY <1>c
<1>b. GwLocals(S)' /\ UNCHANGED <<GwA, GwAConn, GwU, GwUConn, GwUInt, GwD, GwDConn>>
  BY <1>0, <1>d, GwSameThreads
<1>e. /\ GwLocals(S)'
      /\ UNCHANGED <<GwA, GwAConn, GwU, GwUConn, GwUInt, GwD, GwDConn>>
      /\ gw' = gw
      /\ gwWorld'.adapter = "off"
      /\ gwWorld'.open = gwWorld.open
      /\ gwWorld'.allowed = gwWorld.allowed
      /\ gwWorld'.told = {}
      /\ gwQueue'.start = FALSE
      /\ gwLock' = gwLock
  BY <1>b, <1>d, <1>g, <1>h, <1>q
<1>f. /\ ~GwOn /\ ~GwOn' /\ (Dun' <=> Dun) /\ GwTodoOK' /\ gwConfig' = gwConfig /\ GwPastOK'
      /\ (GwCalm' <=> GwCalm)
      /\ GwDropped /\ GwDownGone /\ GwUpGone
      /\ ~GwNoListen' /\ ~GwNoAccept'
      /\ \A t \in GwThreads : ~GwJoins(t) /\ ~GwJoins(t)'
      /\ gwWorld.adapter = "closed"
  <2>1. GwCloses' /\ GwJoinsNone /\ GwJoinsNone' BY GwLastStep
  <2>2. ~GwOn /\ ~GwOn' /\ GwTodoOK' BY <1>e, <2>1 DEF GwOn, GwTodoOK
  <2>3. GwCloseLen \in {12, 14} BY DEF GwCloseLen
  <2>4. GwDropped /\ GwDownGone /\ GwUpGone
    BY <2>3, EmptySeq DEF GwNoListen, GwNoAccept, GwDropped, GwDownGone, GwUpGone, GwLeft
  <2>5. ~GwNoListen' /\ ~GwNoAccept'
    BY <1>e DEF GwNoListen, GwNoAccept, GwDropped, GwDownGone, GwUpGone, GwLeft
  <2>6. GwPastOK' BY <1>0, <1>d DEF GwPastOK
  <2>7. GwCalm' <=> GwCalm BY <1>d, GwCalmKept
  <2>8. Dun' <=> Dun BY <1>d DEF Dun
  <2> QED BY <1>d, <2>1, <2>2, <2>4, <2>5, <2>6, <2>7, <2>8 DEF GwJoinsNone
<1>t. GwTyped'
  <2>1. GwFieldsOK' BY <1>0, <1>e, <1>f DEF GwFieldsOK
  <2>2. GwLocksOK' BY <1>0, <1>e, <1>f DEF GwLocksOK
  <2>3. GwQueueOK' BY <1>0, <1>c, <1>f DEF GwQueueOK, GwConn
  <2>4. GwWorldOK' BY <1>0, <1>a, <1>f DEF GwWorldOK, GwConn
  <2>5. GwLocals(0..gwConfig.conns)' BY <1>e, <1>f, <1>s DEF GwLocals
  <2> QED BY <1>0, <1>e, <1>f, <1>i, <2>1, <2>2, <2>3, <2>4, <2>5 DEF GwTyped
<1>1. GwLocked' BY <1>e, <1>f, <1>i DEF GwListsKept, GwLocked, GwThreads
<1>2. GwClosed' BY <1>e, <1>f, <1>i DEF GwListsKept, GwClosed
<1>3. GwNamed' BY <1>e, <1>f, <1>i DEF GwListsKept, GwNamed
<1>r. GwCalm' => GwOneAtATime' /\ GwServesAllowed' /\ GwOneOpen' /\ GwReports'
  <2> SUFFICES ASSUME GwCalm' PROVE GwOneAtATime' /\ GwServesAllowed' /\ GwOneOpen' /\ GwReports' OBVIOUS
  <2>0. GwOneAtATime /\ GwServesAllowed /\ GwOneOpen /\ GwReports BY <1>f, <1>i
  <2>1. GwOneAtATime'
    BY <1>e, <1>f, <2>0 DEF GwListsKept, GwOneAtATime, GwURuns, GwOver, GwServes, GwBusy, GwFree
  <2>2. GwServesAllowed' BY <1>e, <1>f, <2>0 DEF GwListsKept, GwServesAllowed, GwTaken
  <2>3. GwOneOpen' BY <1>e, <1>f, <2>0 DEF GwListsKept, GwOneOpen
  <2>4. GwReports' BY <1>e, <1>f, <2>0 DEF GwListsKept, GwReports, GwServes
  <2> QED BY <2>1, <2>2, <2>3, <2>4
<1> QED BY <1>1, <1>2, <1>3, <1>f, <1>r, <1>t DEF GwInv, GwRegular

\* A step of the main thread while the service is closed.
LEMMA GwMainClosesStep ==
  ASSUME GwInv, gwWorld.adapter \in {"turning_off", "closed"}, MainStep
  PROVE  GwInv'
<1>1. GwCloses /\ gwTodo # <<>> /\ GwTyped /\ \A t \in GwThreads : gwLock[t] = "main" <=> GwJoins(t)
  BY DEF GwInv, GwTodoOK, GwLocked, MainStep
<1>2. PICK n \in Nat : n = Len(gwTodo) BY <1>1 DEF GwCloses
<1>3. \/ n = 1 /\ UNCHANGED gwConfig /\ Fields(GwTask(GwLast, "accept")) /\ gwTodo' = <<>>
      \/ \E what \in GwFieldSteps :
           /\ n = GwFieldAt(what) /\ n > 1 /\ UNCHANGED gwConfig /\ Fields(GwTask(what, "accept"))
           /\ GwJoinsNone'
           /\ GwCloses' /\ Len(gwTodo') = n - 1
      \/ \E t \in GwThreads : /\ GwMStops(t) /\ GwCloses' /\ (t = "mon" => Dun)
                              /\ n = GwJoinAt(t) + 1 /\ Len(gwTodo') = GwJoinAt(t)
      \/ \E t \in GwThreads : /\ GwMEnds(t, "none") /\ GwCloses' /\ (t = "mon" => Dun)
                              /\ n \in {GwJoinAt(t), GwJoinAt(t) + 1} /\ Len(gwTodo') = GwJoinAt(t) - 1
  BY <1>1, <1>2, GwMainCloses
<1>4. CASE n = 1 /\ UNCHANGED gwConfig /\ Fields(GwTask(GwLast, "accept")) /\ gwTodo' = <<>>
  <2>1. CASE gwWorld.adapter = "turning_off"
    <3>1. GwLast = "disable" BY <2>1 DEF GwLast
    <3> QED BY <1>1, <1>2, <1>4, <2>1, <3>1, GwDisables
  <2>2. CASE gwWorld.adapter = "closed"
    <3>1. GwLast = "destroy" BY <2>2 DEF GwLast
    <3> QED BY <1>1, <1>2, <1>4, <2>2, <3>1, GwDestroys
  <2> QED BY <2>1, <2>2
<1>5. ASSUME NEW what \in GwFieldSteps, n = GwFieldAt(what), UNCHANGED gwConfig,
             Fields(GwTask(what, "accept")), GwJoinsNone', GwCloses', Len(gwTodo') = n - 1
      PROVE  GwInv'
  <2>1. PICK m \in Nat : m = Len(gwTodo') BY <1>5 DEF GwCloses
  <2>2. CASE what = "interrupt" BY <1>1, <1>2, <1>5, <2>1, <2>2, GwCloseInterrupt
  <2>3. CASE what = "closeListen" BY <1>1, <1>2, <1>5, <2>1, <2>3, GwCloseCloseListen
  <2>4. CASE what = "closeRfcomm" BY <1>1, <1>2, <1>5, <2>1, <2>4, GwCloseCloseRfcomm
  <2>5. CASE what = "closeServer" BY <1>1, <1>2, <1>5, <2>1, <2>5, GwCloseCloseServer
  <2>6. CASE what = "removeStart" BY <1>1, <1>2, <1>5, <2>1, <2>6, GwCloseRemoveStart
  <2> QED BY <2>2, <2>3, <2>4, <2>5, <2>6 DEF GwFieldSteps
<1>6. ASSUME NEW t \in GwThreads, GwMStops(t), GwCloses', t = "mon" => Dun,
             n = GwJoinAt(t) + 1, Len(gwTodo') = GwJoinAt(t)
      PROVE  GwInv'
  <2>1. PICK m \in Nat : m = Len(gwTodo') BY <1>6 DEF GwCloses
  <2>2. CASE t = "accept" BY <1>1, <1>2, <1>6, <2>1, <2>2, GwCloseStopsAccept
  <2>3. CASE t = "up" BY <1>1, <1>2, <1>6, <2>1, <2>3, GwCloseStopsUp
  <2>4. CASE t = "down" BY <1>1, <1>2, <1>6, <2>1, <2>4, GwCloseStopsDown
  <2>5. CASE t = "mon" BY <1>1, <1>2, <1>6, <2>1, <2>5, GwCloseStopsMon
  <2> QED BY <2>2, <2>3, <2>4, <2>5 DEF GwThreads
<1>7. ASSUME NEW t \in GwThreads, GwMEnds(t, "none"), GwCloses', t = "mon" => Dun,
             n \in {GwJoinAt(t), GwJoinAt(t) + 1}, Len(gwTodo') = GwJoinAt(t) - 1
      PROVE  GwInv'
  <2>1. PICK m \in Nat : m = Len(gwTodo') BY <1>7 DEF GwCloses
  <2>2. CASE t = "accept" BY <1>1, <1>2, <1>7, <2>1, <2>2, GwCloseEndsAccept
  <2>3. CASE t = "up" BY <1>1, <1>2, <1>7, <2>1, <2>3, GwCloseEndsUp
  <2>4. CASE t = "down" BY <1>1, <1>2, <1>7, <2>1, <2>4, GwCloseEndsDown
  <2>5. CASE t = "mon" BY <1>1, <1>2, <1>7, <2>1, <2>5, GwCloseEndsMon
  <2> QED BY <2>2, <2>3, <2>4, <2>5 DEF GwThreads
<1> QED BY <1>3, <1>4, <1>5, <1>6, <1>7

\* A step of the main thread.
LEMMA GwMainStep ==
  ASSUME GwInv, MainStep
  PROVE  GwInv'
<1>1. gwWorld.adapter \in {"off", "on", "turning_off", "closed"} BY DEF GwInv, GwTyped, GwWorldOK
<1>2. gwWorld.adapter # "off" BY DEF GwInv, GwTodoOK, MainStep
<1>3. CASE gwWorld.adapter = "on" BY <1>3, GwMainOnStep DEF GwOn
<1>4. CASE gwWorld.adapter \in {"turning_off", "closed"} BY <1>4, GwMainClosesStep
<1> QED BY <1>1, <1>2, <1>3, <1>4

(***************************************************************************)
(* The invariant and what follows from it.                                 *)
(***************************************************************************)
\* Every step preserves the invariant.
LEMMA GwNextStep ==
  ASSUME GwInv, [GwNext]_gwVars
  PROVE  GwInv'
<1>1. CASE MainStep BY <1>1, GwMainStep
<1>2. CASE MainHandler BY <1>2, GwHandlerStep
<1>3. CASE AcceptThread BY <1>3, GwAcceptStep
<1>4. CASE UplinkThread BY <1>4, GwUplinkStep
<1>5. CASE DownlinkThread BY <1>5, GwDownlinkStep
<1>6. CASE ServerSends BY <1>6, GwDReads DEF ServerSends
<1>7. CASE Client BY <1>7, GwUplinkStep, GwConnects DEF Client
<1>8. CASE User BY <1>8, GwHandlerStep
<1>9. CASE Environment
  BY <1>9, GwTurnOn, GwIntents, GwTurnOff, GwDestroy, GwHandlerStep, GwServerDies, GwLinkLost
    DEF Environment, Intent
<1>10. CASE UNCHANGED gwVars
  <2>1. /\ gwConfig' = gwConfig /\ gw' = gw /\ gwThread' = gwThread /\ gwLock' = gwLock /\ gwTodo' = gwTodo
        /\ gwQueue' = gwQueue /\ gwWorld' = gwWorld /\ gwPast' = gwPast
    BY <1>10 DEF gwVars
  <2>2. /\ GwTyped /\ GwTodoOK /\ GwLocked /\ GwClosed /\ GwNamed
        /\ (GwCalm => GwOneAtATime /\ GwServesAllowed /\ GwOneOpen /\ GwReports)
    BY DEF GwInv, GwRegular
  <2>3. GwListsKept /\ GwTodoOK' BY <2>1, <2>2, GwKept
  <2>4. GwCalm' <=> GwCalm BY <2>1, GwCalmKept
  <2>5. GwTyped'
    BY <2>1, <2>2 DEF GwTyped, GwFieldsOK, GwLocals, GwLocksOK, GwQueueOK, GwWorldOK, GwPastOK, GwConn
  <2>6. UNCHANGED <<GwA, GwAConn, GwU, GwUConn, GwUInt, GwD, GwDConn>>
    BY <2>1 DEF GwA, GwAConn, GwU, GwUConn, GwUInt, GwD, GwDConn
  <2>7. GwLocked' BY <2>1, <2>2, <2>3, <2>6 DEF GwListsKept, GwLocked
  <2>8. GwClosed' BY <2>1, <2>2, <2>3, <2>6 DEF GwListsKept, GwClosed
  <2>9. GwNamed' BY <2>1, <2>2, <2>3, <2>6 DEF GwListsKept, GwNamed
  <2>10. GwCalm' => GwOneAtATime' /\ GwServesAllowed'
    BY <2>1, <2>2, <2>3, <2>4, <2>6
       DEF GwListsKept, GwOneAtATime, GwURuns, GwOver, GwServes, GwBusy, GwFree, GwServesAllowed, GwTaken
  <2>11. GwCalm' => GwOneOpen' /\ GwReports'
    BY <2>1, <2>2, <2>3, <2>4, <2>6 DEF GwListsKept, GwOneOpen, GwReports, GwServes
  <2> QED BY <2>3, <2>5, <2>7, <2>8, <2>9, <2>10, <2>11 DEF GwInv, GwRegular
<1> QED BY <1>1, <1>2, <1>3, <1>4, <1>5, <1>6, <1>7, <1>8, <1>9, <1>10 DEF GwNext

\* The service before Bluetooth is switched on.
LEMMA GwInvInit ==
  ASSUME GwInit
  PROVE  GwInv
<1>1. /\ gwConfig \in GwConfigs
      /\ gwConfig \in [profile : {"sap", "dun"}, conns : Nat, ons : Nat, deaths : Nat]
      /\ gwConfig.conns \in Nat /\ 0 \in 0..gwConfig.conns
  BY GatewayAssumption DEF GwInit
<1>2. GwNew("none") \in GwLocal(0..gwConfig.conns) BY <1>1, GwNewLocal DEF GwLabels
<1>3. GwLocals(0..gwConfig.conns) BY <1>2 DEF GwInit, GwLocals
<1>4. GwFieldsOK BY <1>1 DEF GwInit, GwFieldsOK
<1>5. GwLocksOK BY DEF GwInit, GwLocksOK
<1>6. GwQueueOK BY DEF GwInit, GwQueueOK
<1>7. GwWorldOK BY DEF GwInit, GwWorldOK
<1>8. GwPastOK BY <1>1 DEF GwInit, GwPastOK
<1>9. GwTyped BY <1>1, <1>3, <1>4, <1>5, <1>6, <1>7, <1>8 DEF GwTyped
<1>10. gwTodo = <<>> /\ gwWorld.adapter = "off" BY DEF GwInit
<1>11. GwTodoOK BY <1>10 DEF GwTodoOK, GwOn
<1>12. ~GwOn /\ \A t \in GwThreads : ~GwJoins(t) BY <1>10 DEF GwOn, GwJoins
<1>13. \A t \in GwThreads : gwThread[t] = GwNew("none") /\ gwLock[t] = "free" BY DEF GwInit
<1>14. {"accept", "up", "down", "mon"} = GwThreads BY DEF GwThreads
<1>15. GwA = "none" /\ GwU = "none" /\ GwD = "none" BY <1>13, <1>14 DEF GwA, GwU, GwD, GwNew
<1>16. GwLocked BY <1>12, <1>13, <1>14, <1>15 DEF GwLocked
<1>17. ~gw.listen /\ ~gw.waiting /\ gw.rfcomm = 0 /\ gwWorld.open = {} BY DEF GwInit
<1>18. GwClosed BY <1>10, <1>15, <1>17 DEF GwClosed, GwNoListen, GwNoAccept
<1>19. GwNamed BY <1>12, <1>15, <1>17 DEF GwNamed
<1>20. GwOneAtATime BY <1>12, <1>15 DEF GwOneAtATime, GwURuns
<1>21. GwServesAllowed BY <1>12, <1>15 DEF GwServesAllowed, GwTaken
<1>22. GwOneOpen /\ GwReports BY <1>12, <1>15, <1>17 DEF GwOneOpen, GwReports
<1> QED BY <1>9, <1>11, <1>16, <1>18, <1>19, <1>20, <1>21, <1>22 DEF GwInv, GwRegular

(***************************************************************************)
(* The SAP and the DUN service keep the invariant: every handler of the    *)
(* main thread runs one of the known lists, the locks of the thread fields *)
(* agree with the joins under way, and, unless an answer came late or a    *)
(* service that was not destroyed was started again, one client at a time  *)
(* is accepted, asked about or served.                                     *)
(***************************************************************************)
THEOREM GwInvariant == GwSpec => []GwInv
<1>1. GwInit => GwInv BY GwInvInit
<1>2. GwInv /\ [GwNext]_gwVars => GwInv' BY GwNextStep
<1> QED BY <1>1, <1>2, PTL DEF GwSpec

(***************************************************************************)
(* The fields of the gateway services hold values of their types, and a    *)
(* live link is an open connection.                                        *)
(***************************************************************************)
THEOREM GwTypes == GwSpec => []GwTypeOK
<1>1. GwInv => GwTypeOK
  <2> SUFFICES ASSUME GwInv PROVE GwTypeOK OBVIOUS
  <2>1. GwTyped BY DEF GwInv
  <2>2. \A t \in GwThreads : gwThread[t].conn \in 0..gwConfig.conns BY <2>1 DEF GwTyped, GwLocals, GwLocal
  <2>3. gwConfig \in GwConfigs /\ GwFieldsOK /\ GwLocksOK /\ GwQueueOK /\ GwWorldOK BY <2>1 DEF GwTyped
  <2> QED BY <2>2, <2>3 DEF GwTypeOK, GwFieldsOK, GwLocksOK, GwQueueOK, GwWorldOK
<1> QED BY <1>1, GwInvariant, PTL

(***************************************************************************)
(* The uplink thread forwards requests only of a client the user trusts or *)
(* has allowed, unless an answer came late or a service that was not       *)
(* destroyed was started again.                                            *)
(***************************************************************************)
THEOREM GwForwardsAllowed == GwSpec => []OnlyAllowedForwarded
<1>1. GwInv => OnlyAllowedForwarded
  BY DEF GwInv, GwRegular, GwCalm, GwServesAllowed, GwTaken, GwU, GwUConn, OnlyAllowedForwarded, Pc, Up
<1> QED BY <1>1, GwInvariant, PTL

(***************************************************************************)
(* The uplink and the downlink thread serve the same client, with the same *)
(* exceptions: what the server answers to one client is not written to     *)
(* another.                                                                *)
(***************************************************************************)
THEOREM GwNoCrossTalk == GwSpec => []NoCrossTalk
<1>1. GwInv => NoCrossTalk
  BY DEF GwInv, GwRegular, GwCalm, GwServesAllowed, GwTaken, GwU, GwUConn, GwD, GwDConn, NoCrossTalk, Pc, Up, Down
<1> QED BY <1>1, GwInvariant, PTL

(***************************************************************************)
(* After onDestroy no thread of the service accepts or forwards, no lock   *)
(* is held, no connection is kept and none is open but one that a late     *)
(* answer or a second start overwrote.                                     *)
(***************************************************************************)
THEOREM GwDestroyedClosed == GwSpec => []DestroyedMeansClosed
<1>1. GwInv => DestroyedMeansClosed
  <2> SUFFICES ASSUME GwInv, gwWorld.adapter = "off", MainIdle
               PROVE  /\ gwThread["accept"].pc = "none" /\ gwThread["up"].pc = "none"
                      /\ Down.pc \notin {"read", "handle"}
                      /\ \A t \in GwThreads : gwLock[t] = "free"
                      /\ ~gw.listen /\ gw.rfcomm = 0 /\ ~gw.waiting
                      /\ gwWorld.open = {} \/ GwOdd({"answer", "carried"})
    BY DEF DestroyedMeansClosed
  <2>1. GwTyped /\ GwLocked /\ GwClosed /\ (GwCalm => GwOneOpen) BY DEF GwInv, GwRegular
  <2>2. GwDropped /\ GwDownGone /\ GwUpGone BY DEF GwDropped, GwDownGone, GwUpGone, GwLeft
  <2>3. GwA = "none" /\ GwU = "none" /\ GwD \in {"none", "start", "done"} BY <2>1, <2>2 DEF GwClosed
  <2>4. ~gw.listen /\ gw.rfcomm = 0 /\ ~gw.waiting BY <2>1, <2>2 DEF GwClosed
  <2>5. gwLock \in [GwThreads -> {"free", "main", "accept", "up"}] BY <2>1 DEF GwTyped, GwLocksOK
  <2>6. \A t \in GwThreads : ~GwJoins(t) BY DEF MainIdle, GwJoins
  <2>7. \A t \in GwThreads : gwLock[t] = "free"
    BY <2>1, <2>3, <2>5, <2>6 DEF GwLocked, GwThreads
  <2>8. GwCalm => gwWorld.open = {}
    <3>1. GwCalm => gwWorld.open \subseteq {0} BY <2>1, <2>3, <2>4 DEF GwOneOpen
    <3>2. gwWorld.open \subseteq 1..gwConfig.conns /\ gwConfig.conns \in Nat
      BY <2>1 DEF GwTyped, GwWorldOK, GwConn
    <3>3. 0 \notin 1..gwConfig.conns BY <3>2
    <3> QED BY <3>1, <3>2, <3>3
  <2> QED BY <2>3, <2>4, <2>7, <2>8 DEF GwA, GwU, GwD, Down, GwCalm
<1> QED BY <1>1, GwInvariant, PTL

(***************************************************************************)
(* While Bluetooth is on, the SAP service reports no device as connected   *)
(* when no thread serves it, with the same exceptions.                     *)
(***************************************************************************)
THEOREM GwDisconnectionTold == GwSpec => []DisconnectionTold
<1>1. GwInv => DisconnectionTold
  BY DEF GwInv, GwRegular, GwCalm, GwReports, GwServes, GwOn, GwU, DisconnectionTold, Running
<1> QED BY <1>1, GwInvariant, PTL
=============================================================================
