---------------------------- MODULE BtObexProofs ----------------------------
(***************************************************************************)
(* Proofs about the OBEX services for file transfer and message access,    *)
(* for every number of devices and connections and every set of faults.    *)
(*                                                                         *)
(* First the effect of every step on a typed state, field by field; then   *)
(* what the list of the main thread's steps holds and in which order; then *)
(* the parts of the inductive invariant ObInv, each kept by every step:    *)
(*   ObNamed    what a field or message names is a connection of its own;  *)
(*   ObClosing  what is open while the service closes is in the list;      *)
(*   ObStarts   nothing happens before the first listener is started;      *)
(*   ObFtp      FTP closes a connection when its thread has ended;         *)
(*   ObCalmInv  an instance is with its accept thread or with its session, *)
(*              and a session that runs is the one mServerSession holds,   *)
(*              until an answer, a timeout or a CLOSE of an earlier        *)
(*              connection stops one that it was not for;                  *)
(*   ObOneDev   connections that passed isAllowedConnection are of one     *)
(*              device, and a linked session is on one of them;            *)
(*   ObLet      what is admitted, now or by the steps still in the list,   *)
(*              is of a trusted or allowed device.                         *)
(***************************************************************************)
EXTENDS BtObex, TLAPS

\* The labels of the accept thread.
ObLabels == {"none", "create", "loop", "blocked", "remote", "check", "trust", "join", "session",
             "wait", "timer", "done"}
\* The fields of an instance.
ObLocal == [listen : BOOLEAN, sock : Nat, session : Nat, waiting : BOOLEAN, pc : ObLabels,
            conn : Nat, stopped : BOOLEAN]
\* The steps of the main thread's handlers.
ObDos == {"closeListen", "closeSock", "closeSession", "stop", "join", "listen", "removeTimeouts",
          "off", "admit", "refuse"}
ObStepSet == [do : ObDos, of : ObInsts]

\* The fields of the main thread, and of the world.
ObMainSet == [remote : Nat, notified : BOOLEAN, start : BOOLEAN,
              timeouts : SUBSET (Nat \X {"delayed", "acl"}), closes : SUBSET (ObInsts \X Nat)]
ObWorldSet == [adapter : {"on", "off", "closing"}, conns : Seq([dev : ObDevices, inst : ObInsts]),
               linked : SUBSET Nat, asked : SUBSET Nat, allowed : SUBSET ObDevices,
               alive : SUBSET Nat, crashed : BOOLEAN]

\* The types of the variables.
ObTyped ==
  /\ obConfig \in [profile : {"ftp", "mas"}, conns : Nat, faults : SUBSET ObFaults]
  /\ ob \in [ObInsts -> ObLocal]
  /\ obMain \in ObMainSet
  /\ obWorld \in ObWorldSet
  /\ obTodo \in Seq(ObStepSet)

\* What a step makes of instance i, of the fields of the main thread and of the world.
ObPart(i, listen, sock, session, waiting, pc, conn, stopped) ==
  /\ ob' \in [ObInsts -> ObLocal]
  /\ ob'[i].listen = listen /\ ob'[i].sock = sock /\ ob'[i].session = session
  /\ ob'[i].waiting = waiting /\ ob'[i].pc = pc /\ ob'[i].conn = conn /\ ob'[i].stopped = stopped
  /\ \A j \in ObInsts \ {i} : ob'[j] = ob[j]

ObMainIs(remote, notified, start, timeouts, closes) ==
  /\ obMain' \in ObMainSet
  /\ obMain'.remote = remote /\ obMain'.notified = notified /\ obMain'.start = start
  /\ obMain'.timeouts = timeouts /\ obMain'.closes = closes

ObWorldIs(adapter, conns, linked, asked, allowed, alive, crashed) ==
  /\ obWorld' \in ObWorldSet
  /\ obWorld'.adapter = adapter /\ obWorld'.conns = conns /\ obWorld'.linked = linked
  /\ obWorld'.asked = asked /\ obWorld'.allowed = allowed /\ obWorld'.alive = alive
  /\ obWorld'.crashed = crashed

\* FTP has instance 0, MAS has 0 and 1.
LEMMA ObInstsAre ==
  ObInsts \in {{0}, {0, 1}} /\ 0 \in ObInsts /\ (Ftp => ObInsts = {0}) /\ (~Ftp => ObInsts = {0, 1})
BY DEF ObInsts

\* A step of the list is typed by what it does and for which instance.
LEMMA ObTaskTyped ==
  ASSUME NEW i \in ObInsts, NEW d \in ObDos
  PROVE  ObTask(d, i) \in ObStepSet /\ ObTask(d, i).do = d /\ ObTask(d, i).of = i
BY DEF ObTask, ObStepSet

\* The steps of stopObexServerSession, in the order of each profile.
LEMMA ObStopList ==
  ASSUME NEW i \in ObInsts
  PROVE  LET s == stopObexServerSession(i)
         IN  /\ s \in Seq(ObStepSet) /\ Len(s) = 5
             /\ Ftp => /\ s[1] = ObTask("closeSession", i) /\ s[2] = ObTask("stop", i)
                       /\ s[3] = ObTask("join", i) /\ s[4] = ObTask("closeSock", i)
             /\ ~Ftp => /\ s[1] = ObTask("closeSock", i) /\ s[2] = ObTask("stop", i)
                        /\ s[3] = ObTask("join", i) /\ s[4] = ObTask("closeSession", i)
             /\ s[5] = ObTask("listen", i)
<1>1. \A d \in ObDos : ObTask(d, i) \in ObStepSet BY ObTaskTyped
<1>2. QED BY <1>1 DEF stopObexServerSession, ObDos

\* The steps of closeService and closeConnection.
LEMMA ObCloseList ==
  ASSUME NEW i \in ObInsts
  PROVE  LET s == closeConnection(i)
         IN  /\ s \in Seq(ObStepSet) /\ Len(s) = 5
             /\ Ftp => /\ s[2] = ObTask("stop", i) /\ s[3] = ObTask("join", i)
                       /\ s[4] = ObTask("closeSock", i)
             /\ ~Ftp => /\ s[2] = ObTask("closeSock", i) /\ s[3] = ObTask("stop", i)
                        /\ s[4] = ObTask("join", i)
             /\ s[1] = ObTask("closeListen", i) /\ s[5] = ObTask("closeSession", i)
<1>1. \A d \in ObDos : ObTask(d, i) \in ObStepSet BY ObTaskTyped
<1>2. QED BY <1>1 DEF closeConnection, ObDos

\* The elements of a concatenation.
LEMMA ObConcat ==
  ASSUME NEW S, NEW s \in Seq(S), NEW t \in Seq(S)
  PROVE  /\ s \o t \in Seq(S) /\ Len(s \o t) = Len(s) + Len(t)
         /\ \A k \in 1..Len(s) : (s \o t)[k] = s[k]
         /\ \A k \in 1..Len(t) : (s \o t)[Len(s) + k] = t[k]
OBVIOUS

\* A list of one step.
LEMMA ObDoList ==
  ASSUME NEW i \in ObInsts, NEW d \in ObDos
  PROVE  ObDo(d, i) \in Seq(ObStepSet) /\ Len(ObDo(d, i)) = 1 /\ ObDo(d, i)[1] = ObTask(d, i)
BY ObTaskTyped DEF ObDo

\* An update of one instance.
LEMMA ObOne ==
  ASSUME ob \in [ObInsts -> ObLocal], NEW i \in ObInsts, NEW r \in ObLocal, ob' = [ob EXCEPT ![i] = r]
  PROVE  ObPart(i, r.listen, r.sock, r.session, r.waiting, r.pc, r.conn, r.stopped)
BY DEF ObPart

\* The accept thread of an instance goes on.
LEMMA ObGoesDoes ==
  ASSUME ob \in [ObInsts -> ObLocal], NEW i \in ObInsts, NEW label \in ObLabels, ObGoes(i, label)
  PROVE  ObPart(i, ob[i].listen, ob[i].sock, ob[i].session, ob[i].waiting, label, ob[i].conn, ob[i].stopped)
BY DEF ObGoes, ObPart, ObLocal

\* FTP creates its listening socket.
ObCreateEffect(i) ==
  LET o == ob[i]
      m == obMain
      w == obWorld
  IN  /\ o.pc = "create"
      /\ UNCHANGED <<obConfig, obTodo, obMain, obWorld, obPast>>
      /\ \/ /\ w.adapter = "on"
            /\ ObPart(i, TRUE, o.sock, o.session, o.waiting, "loop", o.conn, o.stopped)
         \/ /\ w.adapter # "on"
            /\ ObPart(i, o.listen, o.sock, o.session, o.waiting, "done", o.conn, o.stopped)

\* The step has this effect on a typed state.
LEMMA ObCreateDoes == ASSUME ObTyped, NEW i \in ObInsts, ObCreate(i) PROVE ObCreateEffect(i)
BY DEF ObCreateEffect, ObTyped, ObCreate, ObPc, ObThread, ObPart, ObLocal, ObLabels

\* The accept thread calls accept() or ends.
ObLoopEffect(i) ==
  LET o == ob[i]
      m == obMain
      w == obWorld
  IN  /\ o.pc = "loop"
      /\ UNCHANGED <<obConfig, obTodo, obMain, obWorld, obPast>>
      /\ \/ /\ ObPart(i, o.listen, o.sock, o.session, o.waiting, "done", o.conn, o.stopped)
         \/ /\ o.listen
            /\ ObPart(i, o.listen, o.sock, o.session, o.waiting, "blocked", o.conn, o.stopped)

\* The step has this effect on a typed state.
LEMMA ObLoopDoes == ASSUME ObTyped, NEW i \in ObInsts, ObLoop(i) PROVE ObLoopEffect(i)
BY DEF ObLoopEffect, ObTyped, ObLoop, ObGoes, ObPc, ObThread, ObPart, ObLocal, ObLabels

\* accept() fails.
ObAcceptFailsEffect(i) ==
  LET o == ob[i]
      m == obMain
      w == obWorld
  IN  /\ o.pc = "blocked"
      /\ UNCHANGED <<obConfig, obTodo, obMain, obWorld, obPast>>
      /\ ObPart(i, o.listen, o.sock, o.session, o.waiting, "done", o.conn, o.stopped)

\* The step has this effect on a typed state.
LEMMA ObAcceptFailsDoes ==
  ASSUME ObTyped, NEW i \in ObInsts, ObAcceptFails(i)
  PROVE  ObAcceptFailsEffect(i)
BY DEF ObAcceptFailsEffect, ObTyped, ObAcceptFails, ObGoes, ObPc, ObThread, ObPart, ObLocal,
   ObLabels

\* The trust of mRemoteDevice is read.
ObTrustEffect(i) ==
  LET o == ob[i]
      m == obMain
      w == obWorld
  IN  /\ o.pc = "trust" /\ obPast' = obPast \cup ObSwapped(i)
      /\ UNCHANGED <<obConfig, obTodo, obMain, obWorld>>
      /\ \/ /\ m.notified
            /\ ObPart(i, o.listen, o.sock, o.session, o.waiting, "join", o.conn, o.stopped)
         \/ /\ ObDev(m.remote) \in w.allowed
            /\ ObPart(i, o.listen, o.sock, o.session, o.waiting, "session", o.conn, o.stopped)
         \/ /\ ObPart(i, o.listen, o.sock, o.session, o.waiting, "wait", o.conn, o.stopped)

\* The step has this effect on a typed state.
LEMMA ObTrustDoes == ASSUME ObTyped, NEW i \in ObInsts, ObTrust(i) PROVE ObTrustEffect(i)
BY DEF ObTrustEffect, ObTyped, ObTrust, ObGoes, ObPc, ObThread, ObPart, ObLocal, ObLabels

\* The connection joins a notification that is shown.
ObJoinsEffect(i) ==
  LET o == ob[i]
      m == obMain
      w == obWorld
  IN  /\ o.pc = "join" /\ obPast \subseteq obPast'
      /\ UNCHANGED <<obConfig, obTodo, obMain, obWorld>>
      /\ ObPart(i, o.listen, o.sock, o.session, TRUE, "done", o.conn, o.stopped)

\* The step has this effect on a typed state.
LEMMA ObJoinsDoes == ASSUME ObTyped, NEW i \in ObInsts, ObJoins(i) PROVE ObJoinsEffect(i)
BY DEF ObJoinsEffect, ObTyped, ObJoins, ObPc, ObThread, ObPart, ObLocal, ObLabels

\* mRemoteDevice is the device of the new connection.
ObRemoteEffect(i) ==
  LET o == ob[i]
      m == obMain
      w == obWorld
  IN  /\ o.pc = "remote"
      /\ UNCHANGED <<obConfig, obTodo, obWorld, obPast>>
      /\ \/ /\ o.sock = 0 /\ UNCHANGED obMain
            /\ ObPart(i, o.listen, o.sock, o.session, o.waiting, "done", o.conn, o.stopped)
         \/ /\ o.sock # 0
            /\ ObMainIs(o.sock, m.notified, m.start, m.timeouts, m.closes)
            /\ ObPart(i, o.listen, o.sock, o.session, o.waiting, IF Ftp THEN "trust" ELSE "check", o.conn, o.stopped)

\* The step has this effect on a typed state.
LEMMA ObRemoteDoes == ASSUME ObTyped, NEW i \in ObInsts, ObRemote(i) PROVE ObRemoteEffect(i)
<1> USE DEF ObRemoteEffect
<1> DEFINE o == ob[i]
           m == obMain
           w == obWorld
<1>a. ob \in [ObInsts -> ObLocal] BY DEF ObTyped
<1>b. obMain \in ObMainSet BY DEF ObTyped
<1>c. obWorld \in ObWorldSet BY DEF ObTyped
<1>d. o.sock \in Nat /\ m.remote \in Nat BY <1>a, <1>b DEF ObLocal, ObMainSet
<1>1. o.sock = 0 => UNCHANGED obMain
      /\ ObPart(i, o.listen, o.sock, o.session, o.waiting, "done", o.conn, o.stopped)
  BY <1>a, ObGoesDoes DEF ObRemote, ObLabels
<1>2. o.sock # 0 => ObPart(i, o.listen, o.sock, o.session, o.waiting, IF Ftp THEN "trust" ELSE "check", o.conn, o.stopped)
  BY <1>a, ObGoesDoes DEF ObRemote, ObLabels
<1>3. o.sock # 0 => ObMainIs(o.sock, m.notified, m.start, m.timeouts, m.closes)
  BY <1>b, <1>d DEF ObRemote, ObMainIs, ObMainSet
<1> QED BY <1>1, <1>2, <1>3 DEF ObRemote, ObPc, ObThread

\* The time-out of the wait is sent.
ObTimerEffect(i) ==
  LET o == ob[i]
      m == obMain
      w == obWorld
  IN  /\ o.pc = "timer"
      /\ UNCHANGED <<obConfig, obTodo, obWorld, obPast>>
      /\ ObMainIs(m.remote, m.notified, m.start, m.timeouts \cup {<<m.remote, "delayed">>}, m.closes)
      /\ ObPart(i, o.listen, o.sock, o.session, o.waiting, "done", o.conn, o.stopped)

\* The step has this effect on a typed state.
LEMMA ObTimerDoes == ASSUME ObTyped, NEW i \in ObInsts, ObTimer(i) PROVE ObTimerEffect(i)
<1> USE DEF ObTimerEffect
<1> DEFINE o == ob[i]
           m == obMain
           w == obWorld
<1>a. ob \in [ObInsts -> ObLocal] BY DEF ObTyped
<1>b. obMain \in ObMainSet BY DEF ObTyped
<1>c. obWorld \in ObWorldSet BY DEF ObTyped
<1>d. o.sock \in Nat /\ m.remote \in Nat BY <1>a, <1>b DEF ObLocal, ObMainSet
<1>1. ObPart(i, o.listen, o.sock, o.session, o.waiting, "done", o.conn, o.stopped)
  BY <1>a, ObGoesDoes DEF ObTimer, ObLabels
<1>2. ObMainIs(m.remote, m.notified, m.start, m.timeouts \cup {<<m.remote, "delayed">>}, m.closes)
  BY <1>b, <1>d DEF ObTimer, ObMainIs, ObMainSet
<1> QED BY <1>1, <1>2 DEF ObTimer, ObPc, ObThread

\* The instance waits and the user is asked.
ObWaitEffect(i) ==
  LET o == ob[i]
      m == obMain
      w == obWorld
  IN  /\ o.pc = "wait"
      /\ UNCHANGED <<obConfig, obTodo, obPast>>
      /\ ObMainIs(m.remote, ~Ftp, m.start, m.timeouts, m.closes)
      /\ ObPart(i, o.listen, o.sock, o.session, TRUE, "timer", o.conn, o.stopped)
      /\ ObWorldIs(w.adapter, w.conns, w.linked, w.asked \cup {m.remote}, w.allowed, w.alive, w.crashed)

\* The step has this effect on a typed state.
LEMMA ObWaitDoes == ASSUME ObTyped, NEW i \in ObInsts, ObWait(i) PROVE ObWaitEffect(i)
<1> USE DEF ObWaitEffect
<1> DEFINE o == ob[i]
           m == obMain
           w == obWorld
<1>a. ob \in [ObInsts -> ObLocal] BY DEF ObTyped
<1>b. obMain \in ObMainSet BY DEF ObTyped
<1>c. obWorld \in ObWorldSet BY DEF ObTyped
<1>d. o.sock \in Nat /\ m.remote \in Nat BY <1>a, <1>b DEF ObLocal, ObMainSet
<1>1. ObPart(i, o.listen, o.sock, o.session, TRUE, "timer", o.conn, o.stopped)
  BY <1>a DEF ObWait, ObPart, ObLocal, ObLabels
<1>2. ObMainIs(m.remote, ~Ftp, m.start, m.timeouts, m.closes)
  BY <1>b DEF ObWait, ObMainIs, ObMainSet, Ftp
<1>3. ObWorldIs(w.adapter, w.conns, w.linked, w.asked \cup {m.remote}, w.allowed, w.alive, w.crashed)
  BY <1>c, <1>d DEF ObWait, ObWorldIs, ObWorldSet
<1> QED BY <1>1, <1>2, <1>3 DEF ObWait, ObPc, ObThread

\* A session is started on the connection of the moment.
ObSessionEffect(i) ==
  LET o == ob[i]
      m == obMain
      w == obWorld
  IN  /\ o.pc = "session"
      /\ UNCHANGED <<obConfig, obTodo, obMain, obPast>>
      /\ \/ /\ o.sock = 0
            /\ ObPart(i, o.listen, o.sock, o.session, o.waiting, "done", o.conn, o.stopped)
            /\ UNCHANGED obWorld \/ ObWorldIs(w.adapter, w.conns, w.linked, w.asked, w.allowed, w.alive, TRUE)
         \/ /\ o.sock # 0
            /\ ObPart(i, o.listen, o.sock, o.sock, o.waiting, "done", o.conn, o.stopped)
            /\ ObWorldIs(w.adapter, w.conns, w.linked, w.asked, w.allowed, w.alive \cup {o.sock}, w.crashed)

\* The step has this effect on a typed state.
LEMMA ObSessionDoes == ASSUME ObTyped, NEW i \in ObInsts, ObSession(i) PROVE ObSessionEffect(i)
<1> USE DEF ObSessionEffect
<1> DEFINE o == ob[i]
           m == obMain
           w == obWorld
<1>a. ob \in [ObInsts -> ObLocal] BY DEF ObTyped
<1>b. obMain \in ObMainSet BY DEF ObTyped
<1>c. obWorld \in ObWorldSet BY DEF ObTyped
<1>d. o.sock \in Nat /\ m.remote \in Nat BY <1>a, <1>b DEF ObLocal, ObMainSet
<1>1. o.sock = 0 => ObPart(i, o.listen, o.sock, o.session, o.waiting, "done", o.conn, o.stopped)
  BY <1>a, ObGoesDoes DEF ObSession, ObLabels
<1>2. o.sock # 0 => ObPart(i, o.listen, o.sock, o.sock, o.waiting, "done", o.conn, o.stopped)
  BY <1>a DEF ObSession, ObPart, ObLocal, ObLabels
<1>3. o.sock = 0 => UNCHANGED obWorld \/ ObWorldIs(w.adapter, w.conns, w.linked, w.asked, w.allowed, w.alive, TRUE)
  BY <1>c DEF ObSession, ObWorldIs, ObWorldSet
<1>4. o.sock # 0 => ObWorldIs(w.adapter, w.conns, w.linked, w.asked, w.allowed, w.alive \cup {o.sock}, w.crashed)
  BY <1>c, <1>d DEF ObSession, ObSessionOn, ObWorldIs, ObWorldSet
<1> QED BY <1>1, <1>2, <1>3, <1>4 DEF ObSession, ObSessionOn, ObPc, ObThread

\* Another device than the one that is served is turned away.
ObCheckEffect(i) ==
  LET o == ob[i]
      m == obMain
      w == obWorld
  IN  /\ o.pc = "check" /\ ObSwapped(i) \subseteq obPast' /\ obPast \subseteq obPast'
      /\ (i = 0 /\ ob[1].sock # 0 /\ ObDev(ob[1].sock) # ObDev(ob[0].conn) => "masked" \in obPast')
      /\ UNCHANGED <<obConfig, obTodo, obMain>>
      /\ \/ /\ isAllowedConnection(ObDev(m.remote)) /\ UNCHANGED obWorld
            /\ ObPart(i, o.listen, o.sock, o.session, o.waiting, "trust", o.conn, o.stopped)
         \/ /\ ObWorldIs(w.adapter, w.conns, w.linked \ {o.sock}, w.asked, w.allowed, w.alive, (o.sock = 0))
            /\ ObPart(i, o.listen, 0, o.session, o.waiting, "loop", o.conn, o.stopped)

\* The step has this effect on a typed state.
LEMMA ObCheckDoes == ASSUME ObTyped, NEW i \in ObInsts, ObCheck(i) PROVE ObCheckEffect(i)
<1> USE DEF ObCheckEffect
<1> DEFINE o == ob[i]
           m == obMain
           w == obWorld
<1>a. ob \in [ObInsts -> ObLocal] BY DEF ObTyped
<1>b. obMain \in ObMainSet BY DEF ObTyped
<1>c. obWorld \in ObWorldSet BY DEF ObTyped
<1>d. o.sock \in Nat /\ m.remote \in Nat BY <1>a, <1>b DEF ObLocal, ObMainSet
<1>1. isAllowedConnection(ObDev(m.remote)) => UNCHANGED obWorld
      /\ ObPart(i, o.listen, o.sock, o.session, o.waiting, "trust", o.conn, o.stopped)
  BY <1>a, ObGoesDoes DEF ObCheck, ObLabels
<1>2. ~isAllowedConnection(ObDev(m.remote)) =>
      ObPart(i, o.listen, 0, o.session, o.waiting, "loop", o.conn, o.stopped)
  BY <1>a DEF ObCheck, ObPart, ObLocal, ObLabels
<1>3. o.sock \in Nat
  BY DEF ObTyped, ObLocal
<1>4. [ObUnlinked(o.sock) EXCEPT !.crashed = (o.sock = 0)] \in ObWorldSet
  BY <1>c, <1>d DEF ObUnlinked, ObWorldSet
<1>5. ~isAllowedConnection(ObDev(m.remote)) =>
      ObWorldIs(w.adapter, w.conns, w.linked \ {o.sock}, w.asked, w.allowed, w.alive, (o.sock = 0))
  BY <1>4, <1>c DEF ObCheck, ObUnlinked, ObWorldIs, ObWorldSet
<1> QED BY <1>1, <1>2, <1>3, <1>4, <1>5 DEF ObCheck, ObPc, ObThread

\* A remote device connects.
ObConnectsEffect(i, d, trust) ==
  LET o == ob[i]
      m == obMain
      w == obWorld
  IN  /\ o.pc = "blocked"
      /\ UNCHANGED <<obConfig, obTodo, obMain, obPast>>
      /\ ObPart(i, o.listen, Len(w.conns) + 1, o.session, o.waiting, "remote", Len(w.conns) + 1, o.stopped)
      /\ w.allowed \subseteq obWorld'.allowed
      /\ ObWorldIs(w.adapter, Append(w.conns, [dev |-> d, inst |-> i]), w.linked \cup {Len(w.conns) + 1},
                   w.asked, obWorld'.allowed, w.alive, w.crashed)

\* The step has this effect on a typed state.
LEMMA ObConnectsDoes ==
  ASSUME ObTyped, NEW i \in ObInsts, NEW d \in ObDevices, NEW trust \in BOOLEAN,
         ObConnects(i, d, trust)
  PROVE  ObConnectsEffect(i, d, trust)
<1> USE DEF ObConnectsEffect
<1> DEFINE o == ob[i]
           m == obMain
           w == obWorld
<1>a. ob \in [ObInsts -> ObLocal] BY DEF ObTyped
<1>b. obMain \in ObMainSet BY DEF ObTyped
<1>c. obWorld \in ObWorldSet BY DEF ObTyped
<1>d. o.sock \in Nat /\ m.remote \in Nat BY <1>a, <1>b DEF ObLocal, ObMainSet
<1>1. Len(w.conns) + 1 \in Nat
      /\ Append(w.conns, [dev |-> d, inst |-> i]) \in Seq([dev : ObDevices, inst : ObInsts])
  BY <1>c DEF ObWorldSet
<1>2. ObPart(i, o.listen, Len(w.conns) + 1, o.session, o.waiting, "remote", Len(w.conns) + 1, o.stopped)
  BY <1>1, <1>a DEF ObConnects, ObPart, ObLocal, ObLabels
<1>3. PICK s \in Seq([dev : ObDevices, inst : ObInsts]), a \in SUBSET ObDevices, n \in Nat :
      s = Append(w.conns, [dev |-> d, inst |-> i])
      /\ a = (IF trust THEN w.allowed \cup {d} ELSE w.allowed) /\ n = Len(w.conns) + 1
  BY <1>1, <1>c DEF ObWorldSet
<1>4. obWorld' = [obWorld EXCEPT !.conns = s, !.linked = w.linked \cup {n}, !.allowed = a]
  BY <1>3 DEF ObConnects
<1>5. ObWorldIs(w.adapter, s, w.linked \cup {n}, w.asked, a, w.alive, w.crashed)
  BY <1>4, <1>c, ZenonT(60) DEF ObWorldIs, ObWorldSet
<1>6. w.allowed \subseteq a
  BY <1>3
<1>7. obWorld'.allowed = a
  BY <1>5 DEF ObWorldIs
<1> QED BY <1>1, <1>2, <1>3, <1>4, <1>5, <1>6, <1>7 DEF ObConnects, ObPc, ObThread

\* The instance of the step the main thread is at; its list without that
\* step, and with the stopping of the instance's session in its place.
ObAt == Head(obTodo).of
\* The first step is done; a session is stopped before the rest of the list.
ObPops == obTodo' = Tail(obTodo)
ObStops(i) == obTodo' = stopObexServerSession(i) \o Tail(obTodo)

\* The step at the head of the main thread's list.
LEMMA ObHead ==
  ASSUME ObTyped, ObMainStep
  PROVE  LET do == Head(obTodo).do
             i == Head(obTodo).of
         IN  /\ obTodo # <<>> /\ Head(obTodo) \in ObStepSet /\ i \in ObInsts /\ do \in ObDos
             /\ Head(obTodo) = ObTask(do, i) /\ ~obWorld.crashed
             /\ Tail(obTodo) \in Seq(ObStepSet) /\ UNCHANGED obConfig
             /\ do \notin {"admit", "refuse"} => ObStep(do, i) /\ obTodo' = Tail(obTodo)
<1>1. obTodo # <<>> /\ ~obWorld.crashed /\ UNCHANGED obConfig BY DEF ObMainStep
<1>2. Head(obTodo) \in ObStepSet /\ Tail(obTodo) \in Seq(ObStepSet) BY <1>1 DEF ObTyped
<1>3. PICK h \in ObStepSet : h = Head(obTodo) BY <1>2
<1>4. h.do \in ObDos /\ h.of \in ObInsts /\ h = ObTask(h.do, h.of) BY <1>3 DEF ObStepSet, ObTask
<1>5. Head(obTodo).do \notin {"admit", "refuse"} => ObStep(Head(obTodo).do, Head(obTodo).of)
      /\ obTodo' = Tail(obTodo)
  BY DEF ObMainStep
<1> QED BY <1>1, <1>2, <1>3, <1>4, <1>5

\* A connection is no longer waited for, and is given a session or not.
LEMMA ObSettles ==
  ASSUME ob \in [ObInsts -> ObLocal], NEW i \in ObInsts
  PROVE  /\ ob' = [ob EXCEPT ![i].waiting = FALSE] =>
              ObPart(i, ob[i].listen, ob[i].sock, ob[i].session, FALSE, ob[i].pc, ob[i].conn, ob[i].stopped)
         /\ \A n \in Nat : ob' = [ob EXCEPT ![i].waiting = FALSE, ![i].session = n] =>
              ObPart(i, ob[i].listen, ob[i].sock, n, FALSE, ob[i].pc, ob[i].conn, ob[i].stopped)
<1>0. ob[i] \in ObLocal OBVIOUS
<1>1. ASSUME ob' = [ob EXCEPT ![i].waiting = FALSE]
      PROVE  ObPart(i, ob[i].listen, ob[i].sock, ob[i].session, FALSE, ob[i].pc, ob[i].conn, ob[i].stopped)
  BY <1>1 DEF ObPart, ObLocal
<1>2. ASSUME NEW n \in Nat, ob' = [ob EXCEPT ![i].waiting = FALSE, ![i].session = n]
      PROVE  ObPart(i, ob[i].listen, ob[i].sock, n, FALSE, ob[i].pc, ob[i].conn, ob[i].stopped)
  <2> DEFINE r == [ob[i] EXCEPT !.waiting = FALSE, !.session = n]
  <2>1. r \in ObLocal /\ r.listen = ob[i].listen /\ r.sock = ob[i].sock /\ r.session = n
        /\ r.waiting = FALSE
        /\ r.pc = ob[i].pc /\ r.conn = ob[i].conn /\ r.stopped = ob[i].stopped
    BY <1>0 DEF ObLocal
  <2>2. ob' = [ob EXCEPT ![i] = r] BY <1>2
  <2> HIDE DEF r
  <2>3. ObPart(i, r.listen, r.sock, r.session, r.waiting, r.pc, r.conn, r.stopped)
    BY <2>1, <2>2, ObOne
  <2> QED BY <2>1, <2>3
<1> QED BY <1>1, <1>2

\* closeRfcommServerSocket.
ObClosesListenEffect ==
  LET i == ObAt
      o == ob[i]
      m == obMain
      w == obWorld
  IN  /\ ObPops
      /\ UNCHANGED <<obMain, obWorld, obPast>>
      /\ ObPart(i, FALSE, o.sock, o.session, o.waiting, o.pc, o.conn, o.stopped)

\* The main thread's step has this effect on a typed state.
LEMMA ObClosesListen ==
  ASSUME ObTyped, ObMainStep, Head(obTodo).do = "closeListen"
  PROVE  ObClosesListenEffect
<1> USE DEF ObClosesListenEffect, ObAt, ObPops, ObStops
<1> DEFINE i == Head(obTodo).of
           o == ob[i]
           m == obMain
           w == obWorld
<1>a. ob \in [ObInsts -> ObLocal] /\ i \in ObInsts BY ObHead DEF ObTyped
<1>b. obMain \in ObMainSet BY DEF ObTyped
<1>c. obWorld \in ObWorldSet BY DEF ObTyped
<1>d. o.sock \in Nat /\ m.remote \in Nat /\ o.session \in Nat /\ o.pc \in ObLabels
      /\ o.stopped \in BOOLEAN /\ o.listen \in BOOLEAN
  BY <1>a, <1>b DEF ObLocal, ObMainSet
<1>e. ObStep("closeListen", i) /\ obTodo' = Tail(obTodo) BY ObHead
<1> HIDE DEF i
<1>1. UNCHANGED <<obMain, obWorld, obPast>>
  BY <1>e DEF ObStep
<1>2. ObPart(i, FALSE, o.sock, o.session, o.waiting, o.pc, o.conn, o.stopped)
  BY <1>a, <1>e, ZenonT(60) DEF ObStep, ObPart, ObLocal, ObLabels
<1> QED BY <1>1, <1>2, <1>e, ObHead DEF i

\* closeConnSocket.
ObClosesSockEffect ==
  LET i == ObAt
      o == ob[i]
      m == obMain
      w == obWorld
  IN  /\ ObPops
      /\ UNCHANGED <<obMain, obPast>>
      /\ ObPart(i, o.listen, 0, o.session, o.waiting, o.pc, o.conn, o.stopped)
      /\ ObWorldIs(w.adapter, w.conns, w.linked \ {o.sock}, w.asked, w.allowed, w.alive, w.crashed)

\* The main thread's step has this effect on a typed state.
LEMMA ObClosesSock ==
  ASSUME ObTyped, ObMainStep, Head(obTodo).do = "closeSock"
  PROVE  ObClosesSockEffect
<1> USE DEF ObClosesSockEffect, ObAt, ObPops, ObStops
<1> DEFINE i == Head(obTodo).of
           o == ob[i]
           m == obMain
           w == obWorld
<1>a. ob \in [ObInsts -> ObLocal] /\ i \in ObInsts BY ObHead DEF ObTyped
<1>b. obMain \in ObMainSet BY DEF ObTyped
<1>c. obWorld \in ObWorldSet BY DEF ObTyped
<1>d. o.sock \in Nat /\ m.remote \in Nat /\ o.session \in Nat /\ o.pc \in ObLabels
      /\ o.stopped \in BOOLEAN /\ o.listen \in BOOLEAN
  BY <1>a, <1>b DEF ObLocal, ObMainSet
<1>e. ObStep("closeSock", i) /\ obTodo' = Tail(obTodo) BY ObHead
<1> HIDE DEF i
<1>1. UNCHANGED <<obMain, obPast>>
  BY <1>e DEF ObStep
<1>2. ob' = [ob EXCEPT ![i].sock = 0]
  BY <1>e DEF ObStep
<1>3. ObPart(i, o.listen, 0, o.session, o.waiting, o.pc, o.conn, o.stopped)
  BY <1>a, <1>2 DEF ObPart, ObLocal, ObLabels
<1>4. ObWorldIs(w.adapter, w.conns, w.linked \ {o.sock}, w.asked, w.allowed, w.alive, w.crashed)
  BY <1>c, <1>d, <1>e DEF ObStep, ObUnlinked, ObWorldIs, ObWorldSet
<1> QED BY <1>1, <1>2, <1>3, <1>4, <1>e, ObHead DEF i

\* ServerSession.close() and its onClose.
ObClosesSessionEffect ==
  LET i == ObAt
      o == ob[i]
      m == obMain
      w == obWorld
  IN  /\ ObPops
      /\ UNCHANGED <<obPast>>
      /\ ObPart(i, o.listen, o.sock, 0, o.waiting, o.pc, o.conn, o.stopped)
      /\ ObWorldIs(w.adapter, w.conns, w.linked \ {o.session}, w.asked, w.allowed, w.alive \ {o.session}, w.crashed)
      /\ ObMainIs(m.remote, m.notified, m.start, m.timeouts,
                  IF o.session \in w.alive THEN m.closes \cup {<<i, o.session>>} ELSE m.closes)

\* The main thread's step has this effect on a typed state.
LEMMA ObClosesSession ==
  ASSUME ObTyped, ObMainStep, Head(obTodo).do = "closeSession"
  PROVE  ObClosesSessionEffect
<1> USE DEF ObClosesSessionEffect, ObAt, ObPops, ObStops
<1> DEFINE i == Head(obTodo).of
           o == ob[i]
           m == obMain
           w == obWorld
<1>a. ob \in [ObInsts -> ObLocal] /\ i \in ObInsts BY ObHead DEF ObTyped
<1>b. obMain \in ObMainSet BY DEF ObTyped
<1>c. obWorld \in ObWorldSet BY DEF ObTyped
<1>d. o.sock \in Nat /\ m.remote \in Nat /\ o.session \in Nat /\ o.pc \in ObLabels
      /\ o.stopped \in BOOLEAN /\ o.listen \in BOOLEAN
  BY <1>a, <1>b DEF ObLocal, ObMainSet
<1>e. ObStep("closeSession", i) /\ obTodo' = Tail(obTodo) BY ObHead
<1> HIDE DEF i
<1>1. ObCloseSession(i)
  BY <1>e DEF ObStep
<1>2. UNCHANGED obPast
  BY <1>1 DEF ObCloseSession
<1>3. ObPart(i, o.listen, o.sock, 0, o.waiting, o.pc, o.conn, o.stopped)
  BY <1>1, <1>a DEF ObCloseSession, ObPart, ObLocal, ObLabels
<1>4. obWorld' = [ObUnlinked(o.session) EXCEPT !.alive = w.alive \ {o.session}]
  BY <1>1, <1>c DEF ObCloseSession, ObUnlinked, ObWorldSet
<1>5. ObWorldIs(w.adapter, w.conns, w.linked \ {o.session}, w.asked, w.allowed, w.alive \ {o.session}, w.crashed)
  BY <1>4, <1>c, <1>d DEF ObUnlinked, ObWorldIs, ObWorldSet
<1>6. o.session \in w.alive => {<<i, o.session>>} \subseteq ObInsts \X Nat
  BY <1>a, <1>d
<1>7. m.closes \subseteq ObInsts \X Nat
  BY <1>b DEF ObMainSet
<1>8. PICK cl \in SUBSET (ObInsts \X Nat) : cl = (IF o.session \in w.alive THEN m.closes \cup {<<i, o.session>>} ELSE m.closes)
  BY <1>6, <1>7
<1>9. obMain' = [obMain EXCEPT !.closes = cl]
  BY <1>1, <1>8 DEF ObCloseSession
<1>10. ObMainIs(m.remote, m.notified, m.start, m.timeouts, cl)
  BY <1>9, <1>b DEF ObMainIs, ObMainSet
<1> QED BY <1>1, <1>2, <1>3, <1>4, <1>5, <1>6, <1>7, <1>8, <1>9, <1>10, <1>e, ObHead DEF i

\* shutdown().
ObStopsThreadEffect ==
  LET i == ObAt
      o == ob[i]
      m == obMain
      w == obWorld
  IN  /\ ObPops
      /\ UNCHANGED <<obMain, obWorld, obPast>>
      /\ ObPart(i, o.listen, o.sock, o.session, o.waiting, o.pc, o.conn, (o.stopped \/ o.pc # "none"))

\* The main thread's step has this effect on a typed state.
LEMMA ObStopsThread ==
  ASSUME ObTyped, ObMainStep, Head(obTodo).do = "stop"
  PROVE  ObStopsThreadEffect
<1> USE DEF ObStopsThreadEffect, ObAt, ObPops, ObStops
<1> DEFINE i == Head(obTodo).of
           o == ob[i]
           m == obMain
           w == obWorld
<1>a. ob \in [ObInsts -> ObLocal] /\ i \in ObInsts BY ObHead DEF ObTyped
<1>b. obMain \in ObMainSet BY DEF ObTyped
<1>c. obWorld \in ObWorldSet BY DEF ObTyped
<1>d. o.sock \in Nat /\ m.remote \in Nat /\ o.session \in Nat /\ o.pc \in ObLabels
      /\ o.stopped \in BOOLEAN /\ o.listen \in BOOLEAN
  BY <1>a, <1>b DEF ObLocal, ObMainSet
<1>e. ObStep("stop", i) /\ obTodo' = Tail(obTodo) BY ObHead
<1> HIDE DEF i
<1>1. UNCHANGED <<obMain, obWorld, obPast>>
  BY <1>e DEF ObStep
<1>2. PICK b \in BOOLEAN : b = (o.stopped \/ o.pc # "none")
  BY <1>d
<1>3. ob' = [ob EXCEPT ![i].stopped = b]
  BY <1>a, <1>e, <1>2 DEF ObStep
<1>4. ObPart(i, o.listen, o.sock, o.session, o.waiting, o.pc, o.conn, b)
  BY <1>a, <1>3 DEF ObPart, ObLocal, ObLabels
<1> QED BY <1>1, <1>2, <1>3, <1>4, <1>e, ObHead DEF i

\* join().
ObJoinsThreadEffect ==
  LET i == ObAt
      o == ob[i]
      m == obMain
      w == obWorld
  IN  /\ ObPops /\ o.pc \in {"none", "done"}
      /\ UNCHANGED <<obMain, obWorld, obPast>>
      /\ ObPart(i, o.listen, o.sock, o.session, o.waiting, "none", 0, FALSE)

\* The main thread's step has this effect on a typed state.
LEMMA ObJoinsThread ==
  ASSUME ObTyped, ObMainStep, Head(obTodo).do = "join"
  PROVE  ObJoinsThreadEffect
<1> USE DEF ObJoinsThreadEffect, ObAt, ObPops, ObStops
<1> DEFINE i == Head(obTodo).of
           o == ob[i]
           m == obMain
           w == obWorld
<1>a. ob \in [ObInsts -> ObLocal] /\ i \in ObInsts BY ObHead DEF ObTyped
<1>b. obMain \in ObMainSet BY DEF ObTyped
<1>c. obWorld \in ObWorldSet BY DEF ObTyped
<1>d. o.sock \in Nat /\ m.remote \in Nat /\ o.session \in Nat /\ o.pc \in ObLabels
      /\ o.stopped \in BOOLEAN /\ o.listen \in BOOLEAN
  BY <1>a, <1>b DEF ObLocal, ObMainSet
<1>e. ObStep("join", i) /\ obTodo' = Tail(obTodo) BY ObHead
<1> HIDE DEF i
<1>1. UNCHANGED <<obMain, obWorld, obPast>> /\ o.pc \in {"none", "done"}
  BY <1>e DEF ObStep
<1>2. ob' = [ob EXCEPT ![i].pc = "none", ![i].conn = 0, ![i].stopped = FALSE]
  BY <1>e DEF ObStep
<1>3. ObPart(i, o.listen, o.sock, o.session, o.waiting, "none", 0, FALSE)
  BY <1>a, <1>2 DEF ObPart, ObLocal, ObLabels
<1>t. <<>> \o Tail(obTodo) = Tail(obTodo) BY ObHead
<1> QED BY <1>1, <1>2, <1>3, <1>e, <1>t, ObHead DEF i

\* startRfcommSocketListener, unless a thread listens.
ObListensEffect ==
  LET i == ObAt
      o == ob[i]
      m == obMain
      w == obWorld
  IN  /\ ObPops
      /\ UNCHANGED <<obMain, obWorld, obPast>>
      /\ \/ /\ UNCHANGED ob
            /\ w.adapter # "on" \/ o.pc # "none"
         \/ /\ w.adapter = "on" /\ o.pc = "none"
            /\ ob'[i].pc = "loop" \/ (ob'[i].pc = "create" /\ Ftp)
            /\ ObPart(i, o.listen \/ ~Ftp, o.sock, o.session, o.waiting, ob'[i].pc, o.conn, o.stopped)

\* The main thread's step has this effect on a typed state.
LEMMA ObListens == ASSUME ObTyped, ObMainStep, Head(obTodo).do = "listen" PROVE ObListensEffect
<1> USE DEF ObListensEffect, ObAt, ObPops, ObStops
<1> DEFINE i == Head(obTodo).of
           o == ob[i]
           m == obMain
           w == obWorld
<1>a. ob \in [ObInsts -> ObLocal] /\ i \in ObInsts BY ObHead DEF ObTyped
<1>b. obMain \in ObMainSet BY DEF ObTyped
<1>c. obWorld \in ObWorldSet BY DEF ObTyped
<1>d. o.sock \in Nat /\ m.remote \in Nat /\ o.session \in Nat /\ o.pc \in ObLabels
      /\ o.stopped \in BOOLEAN /\ o.listen \in BOOLEAN
  BY <1>a, <1>b DEF ObLocal, ObMainSet
<1>e. ObStep("listen", i) /\ obTodo' = Tail(obTodo) BY ObHead
<1> HIDE DEF i
<1>1. UNCHANGED <<obMain, obWorld, obPast>>
  BY <1>e DEF ObStep
<1>2. (w.adapter = "on" /\ o.pc = "none") \/ UNCHANGED ob
  BY <1>e DEF ObStep
<1>3. PICK b \in BOOLEAN, p \in {"loop", "create"} : b = (o.listen \/ ~Ftp)
      /\ p = (IF Ftp /\ ~o.listen THEN "create" ELSE "loop")
  BY <1>d
<1>4. w.adapter = "on" /\ o.pc = "none" => ob' = [ob EXCEPT ![i].pc = p, ![i].listen = b]
  BY <1>a, <1>e, <1>3 DEF ObStep
<1>5. w.adapter = "on" /\ o.pc = "none" =>
      ObPart(i, b, o.sock, o.session, o.waiting, p, o.conn, o.stopped)
  BY <1>a, <1>4 DEF ObPart, ObLocal, ObLabels
<1>6. w.adapter = "on" /\ o.pc = "none" => ob'[i].pc = p
  BY <1>5 DEF ObPart
<1>7. w.adapter = "on" /\ o.pc = "none" =>
      ObPart(i, o.listen \/ ~Ftp, o.sock, o.session, o.waiting, ob'[i].pc, o.conn, o.stopped)
  BY <1>3, <1>5, <1>6
<1>8. p = "loop" \/ (p = "create" /\ Ftp)
  BY <1>3
<1>9. w.adapter # "on" \/ o.pc # "none" => UNCHANGED ob
  BY <1>e DEF ObStep
<1> QED BY <1>1, <1>2, <1>3, <1>4, <1>5, <1>6, <1>7, <1>8, <1>9, <1>e, ObHead DEF i

\* removeMessages(MSG_INTERNAL_USER_TIMEOUT).
ObRemovesTimeoutsEffect ==
  LET i == ObAt
      o == ob[i]
      m == obMain
      w == obWorld
  IN  /\ ObPops /\ obPast \subseteq obPast'
      /\ UNCHANGED <<ob, obWorld>>
      /\ ObMainIs(m.remote, FALSE, m.start, {}, m.closes)

\* The main thread's step has this effect on a typed state.
LEMMA ObRemovesTimeouts ==
  ASSUME ObTyped, ObMainStep, Head(obTodo).do = "removeTimeouts"
  PROVE  ObRemovesTimeoutsEffect
<1> USE DEF ObRemovesTimeoutsEffect, ObAt, ObPops, ObStops
<1> DEFINE i == Head(obTodo).of
           o == ob[i]
           m == obMain
           w == obWorld
<1>a. ob \in [ObInsts -> ObLocal] /\ i \in ObInsts BY ObHead DEF ObTyped
<1>b. obMain \in ObMainSet BY DEF ObTyped
<1>c. obWorld \in ObWorldSet BY DEF ObTyped
<1>d. o.sock \in Nat /\ m.remote \in Nat /\ o.session \in Nat /\ o.pc \in ObLabels
      /\ o.stopped \in BOOLEAN /\ o.listen \in BOOLEAN
  BY <1>a, <1>b DEF ObLocal, ObMainSet
<1>e. ObStep("removeTimeouts", i) /\ obTodo' = Tail(obTodo) BY ObHead
<1> HIDE DEF i
<1>1. UNCHANGED <<ob, obWorld>> /\ obPast \subseteq obPast'
  BY <1>e DEF ObStep
<1>2. ObMainIs(m.remote, FALSE, m.start, {}, m.closes)
  BY <1>b, <1>e DEF ObStep, ObMainIs, ObMainSet
<1> QED BY <1>1, <1>2, <1>e, ObHead DEF i

\* onDestroy returns.
ObTurnedOffEffect ==
  LET i == ObAt
      o == ob[i]
      m == obMain
      w == obWorld
  IN  /\ ObPops
      /\ UNCHANGED <<ob, obMain, obPast>>
      /\ ObWorldIs("off", w.conns, {}, {}, w.allowed, w.alive, w.crashed)

\* The main thread's step has this effect on a typed state.
LEMMA ObTurnedOff == ASSUME ObTyped, ObMainStep, Head(obTodo).do = "off" PROVE ObTurnedOffEffect
<1> USE DEF ObTurnedOffEffect, ObAt, ObPops, ObStops
<1> DEFINE i == Head(obTodo).of
           o == ob[i]
           m == obMain
           w == obWorld
<1>a. ob \in [ObInsts -> ObLocal] /\ i \in ObInsts BY ObHead DEF ObTyped
<1>b. obMain \in ObMainSet BY DEF ObTyped
<1>c. obWorld \in ObWorldSet BY DEF ObTyped
<1>d. o.sock \in Nat /\ m.remote \in Nat /\ o.session \in Nat /\ o.pc \in ObLabels
      /\ o.stopped \in BOOLEAN /\ o.listen \in BOOLEAN
  BY <1>a, <1>b DEF ObLocal, ObMainSet
<1>e. ObStep("off", i) /\ obTodo' = Tail(obTodo) BY ObHead
<1> HIDE DEF i
<1>1. UNCHANGED <<ob, obMain, obPast>>
  BY <1>e DEF ObStep
<1>2. ObWorldIs("off", w.conns, {}, {}, w.allowed, w.alive, w.crashed)
  BY <1>c, <1>e DEF ObStep, ObWorldIs, ObWorldSet
<1> QED BY <1>1, <1>2, <1>e, ObHead DEF i

\* The user has allowed the connection.
ObAdmitsEffect ==
  LET i == ObAt
      o == ob[i]
      m == obMain
      w == obWorld
  IN  /\ UNCHANGED <<obMain>>
      /\ \/ /\ o.sock # 0 /\ o.waiting
            /\ ObPops /\ UNCHANGED obPast
            /\ ObPart(i, o.listen, o.sock, o.sock, FALSE, o.pc, o.conn, o.stopped)
            /\ ObWorldIs(w.adapter, w.conns, w.linked, w.asked, w.allowed, w.alive \cup {o.sock}, w.crashed)
         \/ /\ ~(o.sock # 0 /\ o.waiting) /\ Ftp /\ UNCHANGED <<obWorld, obPast>>
            /\ ObStops(i)
            /\ ObPart(i, o.listen, o.sock, o.session, FALSE, o.pc, o.conn, o.stopped)
         \/ /\ ~Ftp /\ UNCHANGED <<ob, obWorld, obPast>>
            /\ ObPops

\* The main thread's step has this effect on a typed state.
LEMMA ObAdmits == ASSUME ObTyped, ObMainStep, Head(obTodo).do = "admit" PROVE ObAdmitsEffect
<1> USE DEF ObAdmitsEffect, ObAt, ObPops, ObStops
<1> DEFINE i == Head(obTodo).of
           o == ob[i]
           m == obMain
           w == obWorld
<1>a. ob \in [ObInsts -> ObLocal] /\ i \in ObInsts BY ObHead DEF ObTyped
<1>b. obMain \in ObMainSet BY DEF ObTyped
<1>c. obWorld \in ObWorldSet BY DEF ObTyped
<1>d. o.sock \in Nat /\ m.remote \in Nat /\ o.session \in Nat /\ o.pc \in ObLabels
      /\ o.stopped \in BOOLEAN /\ o.listen \in BOOLEAN
  BY <1>a, <1>b DEF ObLocal, ObMainSet
<1>e. ObTyped BY <1>a, SMTT(60)
<1> HIDE DEF i
<1>1. o.sock # 0 /\ o.waiting => ObSessionOn(i)
      /\ ob' = [ob EXCEPT ![i].waiting = FALSE, ![i].session = o.sock] /\ obTodo' = Tail(obTodo)
  BY DEF ObMainStep, i
<1>2. PICK n \in Nat : n = o.sock
  BY <1>d
<1>3. o.sock # 0 /\ o.waiting => ob' = [ob EXCEPT ![i].waiting = FALSE, ![i].session = n]
  BY <1>1, <1>2
<1>4. o.sock # 0 /\ o.waiting => ObPart(i, o.listen, o.sock, n, FALSE, o.pc, o.conn, o.stopped)
  BY <1>2, <1>3, <1>a, ObSettles
<1>5. o.sock # 0 /\ o.waiting => UNCHANGED <<obMain, obPast>>
      /\ ObWorldIs(w.adapter, w.conns, w.linked, w.asked, w.allowed, w.alive \cup {o.sock}, w.crashed)
  BY <1>1, <1>c, <1>d, SMTT(60) DEF ObSessionOn, ObWorldIs, ObWorldSet
<1>6. ~(o.sock # 0 /\ o.waiting) => UNCHANGED <<obMain, obWorld, obPast>>
      /\ ob' = (IF Ftp THEN [ob EXCEPT ![i].waiting = FALSE] ELSE ob)
      /\ obTodo' = (IF Ftp THEN stopObexServerSession(i) ELSE <<>>) \o Tail(obTodo)
  BY DEF ObMainStep, i
<1>7. ~(o.sock # 0 /\ o.waiting) /\ Ftp =>
      ObPart(i, o.listen, o.sock, o.session, FALSE, o.pc, o.conn, o.stopped)
  BY <1>6, <1>a, ObSettles
<1>t. <<>> \o Tail(obTodo) = Tail(obTodo) BY ObHead
<1> QED BY <1>1, <1>2, <1>3, <1>4, <1>5, <1>6, <1>7, <1>e, <1>t, ObHead DEF i

\* The connection is refused; FTP stops in any case.
ObRefusesEffect ==
  LET i == ObAt
      o == ob[i]
      m == obMain
      w == obWorld
  IN  /\ UNCHANGED <<obMain, obWorld, obPast>>
      /\ \/ /\ Ftp \/ (o.sock # 0 /\ o.waiting)
            /\ ObStops(i)
            /\ ObPart(i, o.listen, o.sock, o.session, FALSE, o.pc, o.conn, o.stopped)
         \/ /\ ~Ftp /\ ~(o.sock # 0 /\ o.waiting) /\ UNCHANGED ob
            /\ ObPops

\* The main thread's step has this effect on a typed state.
LEMMA ObRefuses == ASSUME ObTyped, ObMainStep, Head(obTodo).do = "refuse" PROVE ObRefusesEffect
<1> USE DEF ObRefusesEffect, ObAt, ObPops, ObStops
<1> DEFINE i == Head(obTodo).of
           o == ob[i]
           m == obMain
           w == obWorld
<1>a. ob \in [ObInsts -> ObLocal] /\ i \in ObInsts BY ObHead DEF ObTyped
<1>b. obMain \in ObMainSet BY DEF ObTyped
<1>c. obWorld \in ObWorldSet BY DEF ObTyped
<1>d. o.sock \in Nat /\ m.remote \in Nat /\ o.session \in Nat /\ o.pc \in ObLabels
      /\ o.stopped \in BOOLEAN /\ o.listen \in BOOLEAN
  BY <1>a, <1>b DEF ObLocal, ObMainSet
<1>e. ObTyped BY <1>a
<1> HIDE DEF i
<1>1. Ftp \/ (o.sock # 0 /\ o.waiting) => UNCHANGED <<obMain, obWorld, obPast>>
      /\ ob' = [ob EXCEPT ![i].waiting = FALSE]
      /\ obTodo' = stopObexServerSession(i) \o Tail(obTodo)
  BY DEF ObMainStep, i
<1>2. Ftp \/ (o.sock # 0 /\ o.waiting) =>
      ObPart(i, o.listen, o.sock, o.session, FALSE, o.pc, o.conn, o.stopped)
  BY <1>1, <1>a, ZenonT(60) DEF ObPart, ObLocal, ObLabels
<1>3. ~Ftp /\ ~(o.sock # 0 /\ o.waiting) => UNCHANGED <<ob, obMain, obWorld, obPast>>
      /\ obTodo' = <<>> \o Tail(obTodo)
  BY DEF ObMainStep, i
<1>t. <<>> \o Tail(obTodo) = Tail(obTodo) BY ObHead
<1> QED BY <1>1, <1>2, <1>3, <1>e, <1>t, ObHead DEF i

\* The elements of a sequence are of its type.
LEMMA ObElement == ASSUME NEW S, NEW s \in Seq(S), NEW k \in 1..Len(s) PROVE s[k] \in S
OBVIOUS

\* The device and the instance of a connection.
LEMMA ObConnTyped ==
  ASSUME ObTyped, NEW c \in ObConn
  PROVE  c \in Nat /\ c # 0 /\ ObDev(c) \in ObDevices /\ obWorld.conns[c].inst \in ObInsts
<1>1. obWorld.conns \in Seq([dev : ObDevices, inst : ObInsts]) BY DEF ObTyped, ObWorldSet
<1>2. c \in 1..Len(obWorld.conns) BY DEF ObConn
<1>3. obWorld.conns[c] \in [dev : ObDevices, inst : ObInsts] BY <1>1, <1>2, ObElement
<1> QED BY <1>1, <1>2, <1>3 DEF ObDev

\* Bluetooth is switched on.
ObTurnOnEffect ==
  LET m == obMain
      w == obWorld
  IN  /\ UNCHANGED <<obConfig, ob, obTodo, obPast>>
      /\ obTodo = <<>> /\ ~w.crashed /\ w.adapter = "off" /\ w.conns = <<>>
      /\ ObWorldIs("on", w.conns, w.linked, w.asked, w.allowed, w.alive, w.crashed)
      /\ ObMainIs(m.remote, m.notified, TRUE, m.timeouts, m.closes)

\* The step has this effect on a typed state.
LEMMA ObTurnOnDoes == ASSUME ObTyped, ObTurnOn PROVE ObTurnOnEffect
<1> USE DEF ObTurnOnEffect
<1> DEFINE m == obMain
           w == obWorld
<1>b. obMain \in ObMainSet BY DEF ObTyped
<1>c. obWorld \in ObWorldSet BY DEF ObTyped
<1>1. ObWorldIs("on", w.conns, w.linked, w.asked, w.allowed, w.alive, w.crashed)
  BY <1>c DEF ObTurnOn, ObWorldIs, ObWorldSet
<1>2. ObMainIs(m.remote, m.notified, TRUE, m.timeouts, m.closes)
  BY <1>b DEF ObTurnOn, ObMainIs, ObMainSet
<1> QED BY <1>1, <1>2 DEF ObTurnOn, ObIdle, ObAnswers

\* Bluetooth is switched off.
ObTurnOffEffect ==
  LET m == obMain
      w == obWorld
  IN  /\ UNCHANGED <<obConfig, ob, obMain, obPast>>
      /\ obTodo = <<>> /\ ~w.crashed /\ w.adapter = "on"
      /\ ObWorldIs("closing", w.conns, w.linked, w.asked, w.allowed, w.alive, w.crashed)
      /\ obTodo' = ObCloseAll \o (IF Ftp THEN closeConnection(0) ELSE <<>>) \o ObDo("off", 0)

\* The step has this effect on a typed state.
LEMMA ObTurnOffDoes == ASSUME ObTyped, ObTurnOff PROVE ObTurnOffEffect
<1> USE DEF ObTurnOffEffect
<1> DEFINE m == obMain
           w == obWorld
<1>b. obMain \in ObMainSet BY DEF ObTyped
<1>c. obWorld \in ObWorldSet BY DEF ObTyped
<1>1. ObWorldIs("closing", w.conns, w.linked, w.asked, w.allowed, w.alive, w.crashed)
  BY <1>c DEF ObTurnOff, ObWorldIs, ObWorldSet
<1> QED BY <1>1 DEF ObTurnOff, ObIdle, ObAnswers

\* MSG_INTERNAL_START_LISTENER.
ObStartListenerEffect ==
  LET m == obMain
      w == obWorld
  IN  /\ UNCHANGED <<obConfig, ob, obWorld, obPast>>
      /\ obTodo = <<>> /\ ~w.crashed /\ m.start
      /\ ObMainIs(m.remote, m.notified, FALSE, m.timeouts, m.closes)
      /\ \/ w.adapter = "on" /\ obTodo' = ForAll([i \in ObInsts |-> ObDo("listen", i)])
         \/ w.adapter # "on" /\ obTodo' = ObCloseAll

\* The step has this effect on a typed state.
LEMMA ObStartListenerDoes == ASSUME ObTyped, ObStartListener PROVE ObStartListenerEffect
<1> USE DEF ObStartListenerEffect
<1> DEFINE m == obMain
           w == obWorld
<1>b. obMain \in ObMainSet BY DEF ObTyped
<1>c. obWorld \in ObWorldSet BY DEF ObTyped
<1>1. ObMainIs(m.remote, m.notified, FALSE, m.timeouts, m.closes)
  BY <1>b DEF ObStartListener, ObMainIs, ObMainSet
<1> QED BY <1>1 DEF ObStartListener, ObIdle, ObAnswers

\* The user lets a device in.
ObAllowedEffect(c) ==
  LET m == obMain
      w == obWorld
  IN  /\ UNCHANGED <<obConfig, ob, obMain>>
      /\ obTodo = <<>> /\ ~w.crashed /\ w.adapter = "on" /\ c \in w.asked
      /\ ObWorldIs(w.adapter, w.conns, w.linked, w.asked \ {c}, w.allowed \cup {ObDev(c)}, w.alive, w.crashed)
      /\ obPast \subseteq obPast'
      /\ \/ "answer" \in obPast'
         \/ \E i \in ObInsts : ob[i].waiting /\ ob[i].sock = c /\ m.remote = c
      /\ \/ Ftp /\ obTodo' = <<>>
         \/ obTodo' = ForAll([i \in ObInsts |-> ObDo("admit", i)]) \o ObDo("removeTimeouts", 0)

\* The step has this effect on a typed state.
LEMMA ObAllowedDoes == ASSUME ObTyped, NEW c \in ObConn, ObAllowed(c) PROVE ObAllowedEffect(c)
<1> USE DEF ObAllowedEffect
<1> DEFINE m == obMain
           w == obWorld
<1>b. obMain \in ObMainSet BY DEF ObTyped
<1>c. obWorld \in ObWorldSet BY DEF ObTyped
<1>1. PICK d \in ObDevices : d = ObDev(c)
  BY ObConnTyped
<1>2. obWorld' = [obWorld EXCEPT !.asked = w.asked \ {c}, !.allowed = w.allowed \cup {d}]
  BY <1>1 DEF ObAllowed
<1>3. ObWorldIs(w.adapter, w.conns, w.linked, w.asked \ {c}, w.allowed \cup {d}, w.alive, w.crashed)
  BY <1>2, <1>c DEF ObWorldIs, ObWorldSet
<1> QED BY <1>1, <1>2, <1>3 DEF ObAllowed, ObIdle, ObAnswers

\* The user turns a device away.
ObDisallowedEffect(c) ==
  LET m == obMain
      w == obWorld
  IN  /\ UNCHANGED <<obConfig, ob>>
      /\ obTodo = <<>> /\ ~w.crashed /\ w.adapter = "on" /\ c \in w.asked
      /\ ObWorldIs(w.adapter, w.conns, w.linked, w.asked \ {c}, w.allowed, w.alive, w.crashed)
      /\ ObMainIs(m.remote, FALSE, m.start, m.timeouts, m.closes)
      /\ obPast \subseteq obPast'
      /\ \/ "answer" \in obPast'
         \/ \E i \in ObInsts : ob[i].waiting /\ ob[i].sock = c /\ m.remote = c
      /\ obTodo' = ObRefuse \o ObDo("removeTimeouts", 0)

\* The step has this effect on a typed state.
LEMMA ObDisallowedDoes ==
  ASSUME ObTyped, NEW c \in ObConn, ObDisallowed(c)
  PROVE  ObDisallowedEffect(c)
<1> USE DEF ObDisallowedEffect
<1> DEFINE m == obMain
           w == obWorld
<1>b. obMain \in ObMainSet BY DEF ObTyped
<1>c. obWorld \in ObWorldSet BY DEF ObTyped
<1>1. ObWorldIs(w.adapter, w.conns, w.linked, w.asked \ {c}, w.allowed, w.alive, w.crashed)
  BY <1>c DEF ObDisallowed, ObWorldIs, ObWorldSet
<1>2. ObMainIs(m.remote, FALSE, m.start, m.timeouts, m.closes)
  BY <1>b DEF ObDisallowed, ObMainIs, ObMainSet
<1> QED BY <1>1, <1>2 DEF ObDisallowed, ObIdle, ObAnswers

\* The user has not answered in time.
ObUserTimeoutEffect(t) ==
  LET m == obMain
      w == obWorld
  IN  /\ UNCHANGED <<obConfig, ob, obWorld>>
      /\ obTodo = <<>> /\ ~w.crashed /\ t \in m.timeouts
      /\ ObMainIs(m.remote, FALSE, m.start, m.timeouts \ {t}, m.closes)
      /\ obPast \subseteq obPast'
      /\ \/ "timeout" \in obPast'
         \/ \E i \in ObInsts : ob[i].waiting /\ ob[i].sock = t[1]
      /\ obTodo' = ObRefuse

\* The step has this effect on a typed state.
LEMMA ObUserTimeoutDoes == ASSUME ObTyped, NEW t, ObUserTimeout(t) PROVE ObUserTimeoutEffect(t)
<1> USE DEF ObUserTimeoutEffect
<1> DEFINE m == obMain
           w == obWorld
<1>b. obMain \in ObMainSet BY DEF ObTyped
<1>c. obWorld \in ObWorldSet BY DEF ObTyped
<1>1. ObMainIs(m.remote, FALSE, m.start, m.timeouts \ {t}, m.closes)
  BY <1>b DEF ObUserTimeout, ObMainIs, ObMainSet
<1> QED BY <1>1 DEF ObUserTimeout, ObIdle, ObAnswers

\* The link of a device is gone.
ObAclEffect(d) ==
  LET m == obMain
      w == obWorld
  IN  /\ UNCHANGED <<obConfig, ob, obWorld>>
      /\ obTodo = <<>> /\ ~w.crashed /\ w.adapter = "on" /\ m.remote # 0 /\ obPast \subseteq obPast'
      /\ \/ Ftp /\ ob[0].waiting /\ obTodo' = ObDo("refuse", 0) \o ObDo("removeTimeouts", 0)
            /\ UNCHANGED obMain
         \/ ~Ftp /\ UNCHANGED obTodo
            /\ ObMainIs(m.remote, m.notified, m.start, m.timeouts \cup {<<m.remote, "acl">>}, m.closes)

\* The step has this effect on a typed state.
LEMMA ObAclDoes == ASSUME ObTyped, NEW d, ObAclDisconnected(d) PROVE ObAclEffect(d)
<1> USE DEF ObAclEffect
<1> DEFINE m == obMain
           w == obWorld
<1>b. obMain \in ObMainSet BY DEF ObTyped
<1>c. obWorld \in ObWorldSet BY DEF ObTyped
<1>1. m.remote \in Nat
  BY <1>b DEF ObMainSet
<1>2. obMain' = [obMain EXCEPT !.timeouts = m.timeouts \cup {<<m.remote, "acl">>}] =>
      ObMainIs(m.remote, m.notified, m.start, m.timeouts \cup {<<m.remote, "acl">>}, m.closes)
  BY <1>1, <1>b DEF ObMainIs, ObMainSet
<1> QED BY <1>1, <1>2 DEF ObAclDisconnected, ObIdle, ObAnswers

\* MSG_SERVERSESSION_CLOSE.
ObServerSessionCloseEffect(t) ==
  LET m == obMain
      w == obWorld
  IN  /\ UNCHANGED <<obConfig, ob, obWorld>>
      /\ obTodo = <<>> /\ ~w.crashed /\ t \in m.closes /\ t[1] \in ObInsts /\ t = <<t[1], t[2]>>
         /\ obPast \subseteq obPast'
      /\ ObMainIs(m.remote, m.notified, m.start, m.timeouts, m.closes \ {t})
      /\ \/ /\ Ftp \/ ob[t[1]].sock # 0
            /\ obTodo' = stopObexServerSession(t[1])
            /\ ob[t[1]].sock = t[2] \/ "stolen" \in obPast'
         \/ ~Ftp /\ obTodo' = <<>>

\* The step has this effect on a typed state.
LEMMA ObServerSessionCloseDoes ==
  ASSUME ObTyped, NEW t, ObServerSessionClose(t)
  PROVE  ObServerSessionCloseEffect(t)
<1> USE DEF ObServerSessionCloseEffect
<1> DEFINE m == obMain
           w == obWorld
<1>b. obMain \in ObMainSet BY DEF ObTyped
<1>c. obWorld \in ObWorldSet BY DEF ObTyped
<1>1. t[1] \in ObInsts /\ t = <<t[1], t[2]>>
  BY <1>b DEF ObMainSet, ObServerSessionClose
<1>2. stopObexServerSession(t[1]) # <<>>
  BY <1>1, ObStopList
<1>3. ObMainIs(m.remote, m.notified, m.start, m.timeouts, m.closes \ {t})
  BY <1>b DEF ObServerSessionClose, ObMainIs, ObMainSet
<1> QED BY <1>1, <1>2, <1>3 DEF ObServerSessionClose, ObIdle, ObAnswers

\* A session is given up.
ObGivenUpEffect ==
  LET m == obMain
      w == obWorld
  IN  /\ UNCHANGED <<obConfig, ob, obWorld>>
      /\ obTodo = <<>> /\ ~w.crashed /\ obPast \subseteq obPast'
      /\ \/ Ftp /\ ob[0].session \in w.alive /\ obTodo' = stopObexServerSession(0)
            /\ UNCHANGED obMain
         \/ ~Ftp /\ ob[1].session \in w.alive /\ UNCHANGED obTodo
            /\ ObMainIs(m.remote, m.notified, m.start, m.timeouts, m.closes \cup {<<1, ob[1].session>>})

\* The step has this effect on a typed state.
LEMMA ObGivenUpDoes == ASSUME ObTyped, ObSessionGivenUp PROVE ObGivenUpEffect
<1> USE DEF ObGivenUpEffect
<1> DEFINE m == obMain
           w == obWorld
<1>b. obMain \in ObMainSet BY DEF ObTyped
<1>c. obWorld \in ObWorldSet BY DEF ObTyped
<1>1. ~Ftp => 1 \in ObInsts
  BY ObInstsAre
<1>2. ~Ftp => {<<1, ob[1].session>>} \subseteq ObInsts \X Nat
  BY <1>1 DEF ObTyped, ObLocal
<1>3. ~Ftp => m.closes \cup {<<1, ob[1].session>>} \subseteq ObInsts \X Nat
  BY <1>2, <1>b DEF ObMainSet
<1>4. PICK cl : cl = m.closes \cup {<<1, ob[1].session>>}
  OBVIOUS
<1>5. ~Ftp => obMain' = [obMain EXCEPT !.closes = cl]
  BY <1>4 DEF ObSessionGivenUp
<1>6. ~Ftp => cl \in SUBSET (ObInsts \X Nat)
  BY <1>3, <1>4
<1>7. ~Ftp => ObMainIs(m.remote, m.notified, m.start, m.timeouts, cl)
  BY <1>5, <1>6, <1>b DEF ObMainIs, ObMainSet
<1> QED BY <1>1, <1>2, <1>3, <1>4, <1>5, <1>6, <1>7 DEF ObSessionGivenUp, ObIdle, ObAnswers

\* A session calls onClose.
ObSessionEndsEffect(c) ==
  LET m == obMain
      w == obWorld
  IN  /\ UNCHANGED <<obConfig, ob, obTodo, obPast>>
      /\ c \in w.alive
      /\ ObWorldIs(w.adapter, w.conns, w.linked, w.asked, w.allowed, w.alive \ {c}, w.crashed)
      /\ ObMainIs(m.remote, m.notified, m.start, m.timeouts, m.closes \cup {<<w.conns[c].inst, c>>})

\* The step has this effect on a typed state.
LEMMA ObSessionEndsDoes ==
  ASSUME ObTyped, NEW c \in ObConn, ObSessionEnds(c)
  PROVE  ObSessionEndsEffect(c)
<1> USE DEF ObSessionEndsEffect
<1> DEFINE m == obMain
           w == obWorld
<1>b. obMain \in ObMainSet BY DEF ObTyped
<1>c. obWorld \in ObWorldSet BY DEF ObTyped
<1>1. ObWorldIs(w.adapter, w.conns, w.linked, w.asked, w.allowed, w.alive \ {c}, w.crashed)
  BY <1>c DEF ObSessionEnds, ObWorldIs, ObWorldSet
<1>2. {<<w.conns[c].inst, c>>} \subseteq ObInsts \X Nat
  BY ObConnTyped
<1>3. m.closes \cup {<<w.conns[c].inst, c>>} \subseteq ObInsts \X Nat
  BY <1>2, <1>b DEF ObMainSet
<1>4. PICK cl \in SUBSET (ObInsts \X Nat) : cl = m.closes \cup {<<w.conns[c].inst, c>>}
  BY <1>3
<1>5. obMain' = [obMain EXCEPT !.closes = cl]
  BY <1>4 DEF ObSessionEnds
<1>6. ObMainIs(m.remote, m.notified, m.start, m.timeouts, cl)
  BY <1>5, <1>b DEF ObMainIs, ObMainSet
<1> QED BY <1>1, <1>2, <1>3, <1>4, <1>5, <1>6 DEF ObSessionEnds, ObIdle, ObAnswers

\* The remote side goes away.
ObLinkLostEffect(c) ==
  LET m == obMain
      w == obWorld
  IN  /\ UNCHANGED <<obConfig, ob, obMain, obTodo, obPast>>
      /\ ObWorldIs(w.adapter, w.conns, w.linked \ {c}, w.asked, w.allowed, w.alive, w.crashed)

\* The step has this effect on a typed state.
LEMMA ObLinkLostDoes == ASSUME ObTyped, NEW c, ObLinkLost(c) PROVE ObLinkLostEffect(c)
<1> USE DEF ObLinkLostEffect
<1> DEFINE m == obMain
           w == obWorld
<1>b. obMain \in ObMainSet BY DEF ObTyped
<1>c. obWorld \in ObWorldSet BY DEF ObTyped
<1>1. ObWorldIs(w.adapter, w.conns, w.linked \ {c}, w.asked, w.allowed, w.alive, w.crashed)
  BY <1>c DEF ObLinkLost, ObUnlinked, ObWorldIs, ObWorldSet
<1> QED BY <1>1 DEF ObLinkLost, ObIdle, ObAnswers

\* The list s holds the step x.
ObIn(s, x) == \E k \in 1..Len(s) : s[k] = x

\* What may follow a step, and what stands just before some steps of FTP.
ObAfter(a, b) ==
  /\ a.do \notin {"off", "removeTimeouts"}
  /\ a.do = "listen" => b.do \in {"listen", "refuse", "removeTimeouts"}
  /\ a.do = "refuse" => b.do \in {"refuse", "removeTimeouts"}
  /\ a.do = "admit" => b.do \in {"admit", "removeTimeouts"}
  /\ a.do \in {"listen", "admit"} /\ b.do = a.do => a.of # b.of
ObNextTo(a, b) ==
  /\ b.do = "closeSock" => a.do = "join"
  /\ b.do = "listen" => a.do = "closeSock"
  /\ b.do \notin {"admit", "refuse"}

\* The order of the steps in a list.
ObShape(s) ==
  /\ \A k, l \in 1..Len(s) : k < l => ObAfter(s[k], s[l])
  /\ Ftp => \A k \in 1..Len(s) : k > 1 => ObNextTo(s[k - 1], s[k])

\* Each join of a thread is followed by the closing of its session.
ObEnds(s) ==
  \A l \in 1..Len(s) : s[l].do = "join" =>
    \E k \in 1..Len(s) : k > l /\ s[k] = ObTask("closeSession", s[l].of)

\* A step is its name and its instance.
LEMMA ObTaskIs ==
  /\ \A d, i, e, j : ObTask(d, i) = ObTask(e, j) => d = e /\ i = j
  /\ \A d, i : ObTask(d, i).do = d /\ ObTask(d, i).of = i
BY DEF ObTask

\* What a list holds is its head or in its tail.
LEMMA ObInTail ==
  ASSUME NEW S, NEW s \in Seq(S), s # <<>>, NEW x
  PROVE  /\ ObIn(Tail(s), x) => ObIn(s, x)
         /\ ObIn(s, x) => ObIn(Tail(s), x) \/ x = Head(s)
         /\ ObIn(s, Head(s))
<1>1. Len(Tail(s)) = Len(s) - 1 /\ Head(s) = s[1] /\ Len(s) >= 1 /\ Len(s) \in Nat OBVIOUS
<1>2. \A k \in 1..Len(Tail(s)) : Tail(s)[k] = s[k + 1] OBVIOUS
<1>3. ObIn(Tail(s), x) => ObIn(s, x)
  <2>1. ASSUME NEW k \in 1..Len(Tail(s)), Tail(s)[k] = x PROVE ObIn(s, x)
    <3>1. k + 1 \in 1..Len(s) /\ s[k + 1] = x BY <1>1, <1>2, <2>1
    <3>2. QED BY <3>1 DEF ObIn
  <2>2. QED BY <2>1 DEF ObIn
<1>4. ASSUME NEW k \in 1..Len(s), s[k] = x PROVE ObIn(Tail(s), x) \/ x = Head(s)
  <2>1. CASE k = 1 BY <2>1, <1>1, <1>4
  <2>2. CASE k # 1
    <3>1. k - 1 \in 1..Len(Tail(s)) /\ Tail(s)[k - 1] = x BY <1>1, <1>2, <1>4, <2>2
    <3>2. QED BY <3>1 DEF ObIn
  <2>3. QED BY <2>1, <2>2
<1>5. ObIn(s, Head(s))
  <2>1. 1 \in 1..Len(s) /\ s[1] = Head(s) BY <1>1
  <2>2. QED BY <2>1 DEF ObIn
<1> QED BY <1>3, <1>4, <1>5 DEF ObIn

\* What a concatenation holds is in one of its parts.
LEMMA ObInConcat ==
  ASSUME NEW S, NEW s \in Seq(S), NEW t \in Seq(S), NEW x
  PROVE  ObIn(s \o t, x) <=> ObIn(s, x) \/ ObIn(t, x)
<1>1. /\ Len(s \o t) = Len(s) + Len(t) /\ Len(s) \in Nat /\ Len(t) \in Nat
      /\ \A k \in 1..Len(s) : (s \o t)[k] = s[k]
      /\ \A k \in 1..Len(t) : (s \o t)[Len(s) + k] = t[k]
  BY ObConcat
<1>2. ASSUME NEW k \in 1..Len(s \o t), (s \o t)[k] = x PROVE ObIn(s, x) \/ ObIn(t, x)
  <2>1. CASE k <= Len(s)
    <3>1. k \in 1..Len(s) /\ s[k] = x BY <1>1, <1>2, <2>1
    <3>2. QED BY <3>1 DEF ObIn
  <2>2. CASE ~(k <= Len(s))
    <3>1. k - Len(s) \in 1..Len(t) /\ Len(s) + (k - Len(s)) = k BY <1>1, <2>2
    <3>2. t[k - Len(s)] = x BY <1>1, <1>2, <3>1
    <3>3. QED BY <3>1, <3>2 DEF ObIn
  <2>3. QED BY <2>1, <2>2
<1>3. ASSUME NEW k \in 1..Len(s), s[k] = x PROVE ObIn(s \o t, x)
  <2>1. k \in 1..Len(s \o t) /\ (s \o t)[k] = x BY <1>1, <1>3
  <2>2. QED BY <2>1 DEF ObIn
<1>4. ASSUME NEW k \in 1..Len(t), t[k] = x PROVE ObIn(s \o t, x)
  <2>1. Len(s) + k \in 1..Len(s \o t) /\ (s \o t)[Len(s) + k] = x BY <1>1, <1>4
  <2>2. QED BY <2>1 DEF ObIn
<1> QED BY <1>2, <1>3, <1>4 DEF ObIn

\* The order of the steps is kept when the first is done.
LEMMA ObShapeTail ==
  ASSUME NEW S, NEW s \in Seq(S), s # <<>>
  PROVE  /\ ObShape(s) => ObShape(Tail(s))
         /\ ObEnds(s) => ObEnds(Tail(s))
         /\ ObShape(s) => \A x : ObIn(Tail(s), x) => ObAfter(Head(s), x)
         /\ ObShape(s) /\ Tail(s) # <<>> /\ Ftp => ObNextTo(Head(s), Head(Tail(s)))
         /\ ObShape(s) /\ Ftp => \A x : ObIn(Tail(s), x) => x.do \notin {"admit", "refuse"}
<1>1. Len(Tail(s)) = Len(s) - 1 /\ Head(s) = s[1] /\ Len(s) >= 1 /\ Len(s) \in Nat OBVIOUS
<1>2. \A k \in 1..Len(Tail(s)) : Tail(s)[k] = s[k + 1] OBVIOUS
<1>3. ASSUME ObShape(s) PROVE ObShape(Tail(s))
  <2>1. ASSUME NEW k \in 1..Len(Tail(s)), NEW l \in 1..Len(Tail(s)), k < l
        PROVE  ObAfter(Tail(s)[k], Tail(s)[l])
    <3>1. k + 1 \in 1..Len(s) /\ l + 1 \in 1..Len(s) /\ k + 1 < l + 1 BY <1>1, <2>1
    <3>2. ObAfter(s[k + 1], s[l + 1]) BY <1>3, <3>1 DEF ObShape
    <3>3. QED BY <3>2, <1>2
  <2>2. ASSUME Ftp, NEW k \in 1..Len(Tail(s)), k > 1 PROVE ObNextTo(Tail(s)[k - 1], Tail(s)[k])
    <3>1. k + 1 \in 1..Len(s) /\ k + 1 > 1 /\ k - 1 \in 1..Len(Tail(s)) /\ (k + 1) - 1 = (k - 1) + 1
      BY <1>1, <2>2
    <3>2. ObNextTo(s[(k + 1) - 1], s[k + 1]) BY <1>3, <2>2, <3>1 DEF ObShape
    <3>3. QED BY <3>1, <3>2, <1>2
  <2>3. QED BY <2>1, <2>2 DEF ObShape
<1>4. ASSUME ObEnds(s) PROVE ObEnds(Tail(s))
  <2>1. ASSUME NEW l \in 1..Len(Tail(s)), Tail(s)[l].do = "join"
        PROVE  \E k \in 1..Len(Tail(s)) : k > l
              /\ Tail(s)[k] = ObTask("closeSession", Tail(s)[l].of)
    <3>1. l + 1 \in 1..Len(s) /\ s[l + 1] = Tail(s)[l] BY <1>1, <1>2
    <3>2. PICK k \in 1..Len(s) : k > l + 1 /\ s[k] = ObTask("closeSession", s[l + 1].of)
      BY <1>4, <2>1, <3>1 DEF ObEnds
    <3>3. k - 1 \in 1..Len(Tail(s)) /\ k - 1 > l /\ Tail(s)[k - 1] = s[k] BY <1>1, <1>2, <3>2
    <3>4. QED BY <3>1, <3>2, <3>3
  <2>2. QED BY <2>1 DEF ObEnds
<1>5. ASSUME ObShape(s), NEW x, ObIn(Tail(s), x) PROVE ObAfter(Head(s), x)
  <2>1. PICK k \in 1..Len(Tail(s)) : Tail(s)[k] = x BY <1>5 DEF ObIn
  <2>2. k + 1 \in 1..Len(s) /\ 1 \in 1..Len(s) /\ 1 < k + 1 /\ s[k + 1] = x BY <1>1, <1>2, <2>1
  <2>3. ObAfter(s[1], s[k + 1]) BY <1>5, <2>2 DEF ObShape
  <2>4. QED BY <2>2, <2>3, <1>1
<1>6. ASSUME ObShape(s), Tail(s) # <<>>, Ftp PROVE ObNextTo(Head(s), Head(Tail(s)))
  <2>1. Tail(s) \in Seq(S) OBVIOUS
  <2>2. Len(Tail(s)) >= 1 /\ Head(Tail(s)) = Tail(s)[1] BY <1>6, <2>1
  <2>3. 2 \in 1..Len(s) /\ 2 > 1 /\ Head(Tail(s)) = s[2] /\ 2 - 1 = 1 BY <1>1, <1>2, <2>2
  <2>4. ObNextTo(s[2 - 1], s[2]) BY <1>6, <2>3 DEF ObShape
  <2>5. QED BY <2>3, <2>4, <1>1
<1>7. ASSUME ObShape(s), Ftp, NEW x, ObIn(Tail(s), x) PROVE x.do \notin {"admit", "refuse"}
  <2>1. PICK k \in 1..Len(Tail(s)) : Tail(s)[k] = x BY <1>7 DEF ObIn
  <2>2. k + 1 \in 1..Len(s) /\ k + 1 > 1 /\ s[k + 1] = x BY <1>1, <1>2, <2>1
  <2>3. ObNextTo(s[(k + 1) - 1], s[k + 1]) BY <1>7, <2>2 DEF ObShape
  <2>4. QED BY <2>2, <2>3 DEF ObNextTo
<1> QED BY <1>3, <1>4, <1>5, <1>6, <1>7

\* Two ordered lists in a row are ordered when the steps between them are.
LEMMA ObShapeConcat ==
  ASSUME NEW S, NEW s \in Seq(S), NEW t \in Seq(S), ObShape(s), ObShape(t),
         \A x, y : ObIn(s, x) /\ ObIn(t, y) => ObAfter(x, y),
         Ftp /\ s # <<>> /\ t # <<>> => ObNextTo(s[Len(s)], t[1])
  PROVE  ObShape(s \o t)
<1> DEFINE u == s \o t
<1>1. /\ u \in Seq(S) /\ Len(u) = Len(s) + Len(t) /\ Len(s) \in Nat /\ Len(t) \in Nat
      /\ \A k \in 1..Len(s) : u[k] = s[k]
      /\ \A k \in 1..Len(t) : u[Len(s) + k] = t[k]
  BY ObConcat
<1> HIDE DEF u
<1>a. \A k \in 1..Len(u) : k > Len(s) => k - Len(s) \in 1..Len(t) /\ u[k] = t[k - Len(s)]
  <2>1. ASSUME NEW k \in 1..Len(u), k > Len(s) PROVE k - Len(s) \in 1..Len(t)
        /\ u[k] = t[k - Len(s)]
    <3>1. k - Len(s) \in 1..Len(t) /\ Len(s) + (k - Len(s)) = k BY <1>1, <2>1
    <3>2. QED BY <3>1, <1>1
  <2>2. QED BY <2>1
<1>2. ASSUME NEW k \in 1..Len(u), NEW l \in 1..Len(u), k < l PROVE ObAfter(u[k], u[l])
  <2>1. CASE l <= Len(s)
    <3>1. k \in 1..Len(s) /\ l \in 1..Len(s) BY <1>1, <1>2, <2>1
    <3>2. ObAfter(s[k], s[l]) BY <3>1, <1>2 DEF ObShape
    <3>3. QED BY <3>1, <3>2, <1>1
  <2>2. CASE k <= Len(s) /\ l > Len(s)
    <3>1. k \in 1..Len(s) /\ u[k] = s[k] /\ l - Len(s) \in 1..Len(t) /\ u[l] = t[l - Len(s)]
      BY <1>1, <1>a, <1>2, <2>2
    <3>2. ObIn(s, u[k]) /\ ObIn(t, u[l]) BY <3>1 DEF ObIn
    <3>3. QED BY <3>2
  <2>3. CASE k > Len(s)
    <3>1. l > Len(s) BY <1>1, <1>2, <2>3
    <3>2. /\ k - Len(s) \in 1..Len(t) /\ u[k] = t[k - Len(s)]
          /\ l - Len(s) \in 1..Len(t) /\ u[l] = t[l - Len(s)]
      BY <1>a, <2>3, <3>1
    <3>3. k - Len(s) < l - Len(s) BY <1>1, <1>2
    <3>4. ObAfter(t[k - Len(s)], t[l - Len(s)]) BY <3>2, <3>3 DEF ObShape
    <3>5. QED BY <3>2, <3>4
  <2>4. QED BY <2>1, <2>2, <2>3, <1>1
<1>3. ASSUME Ftp, NEW k \in 1..Len(u), k > 1 PROVE ObNextTo(u[k - 1], u[k])
  <2>1. CASE k <= Len(s)
    <3>1. k \in 1..Len(s) /\ k - 1 \in 1..Len(s) BY <1>1, <1>3, <2>1
    <3>2. ObNextTo(s[k - 1], s[k]) BY <3>1, <1>3 DEF ObShape
    <3>3. QED BY <3>1, <3>2, <1>1
  <2>2. CASE k = Len(s) + 1
    <3>1. Len(s) \in 1..Len(s) /\ 1 \in 1..Len(t) /\ k - 1 = Len(s) BY <1>1, <1>3, <2>2
    <3>2. u[k - 1] = s[Len(s)] /\ u[k] = t[1] BY <3>1, <1>1, <2>2
    <3>3. s # <<>> /\ t # <<>> BY <3>1
    <3>4. QED BY <3>2, <3>3, <1>3
  <2>3. CASE k > Len(s) + 1
    <3>1. k > Len(s) /\ k - 1 > Len(s) /\ k - 1 \in 1..Len(u) BY <1>1, <1>3, <2>3
    <3>2. /\ k - Len(s) \in 1..Len(t) /\ u[k] = t[k - Len(s)]
          /\ (k - 1) - Len(s) \in 1..Len(t) /\ u[k - 1] = t[(k - 1) - Len(s)]
      BY <1>a, <3>1
    <3>3. (k - Len(s)) - 1 = (k - 1) - Len(s) /\ k - Len(s) > 1 BY <1>1, <2>3
    <3>4. ObNextTo(t[(k - Len(s)) - 1], t[k - Len(s)]) BY <3>2, <3>3, <1>3 DEF ObShape
    <3>5. QED BY <3>2, <3>3, <3>4
  <2>4. QED BY <2>1, <2>2, <2>3, <1>1
<1>4. ObShape(u) BY <1>2, <1>3 DEF ObShape
<1> QED BY <1>4 DEF u

\* Joins followed by the closing of the session stay so in a concatenation.
LEMMA ObEndsConcat ==
  ASSUME NEW S, NEW s \in Seq(S), NEW t \in Seq(S), ObEnds(s), ObEnds(t)
  PROVE  ObEnds(s \o t)
<1> DEFINE u == s \o t
<1>1. /\ u \in Seq(S) /\ Len(u) = Len(s) + Len(t) /\ Len(s) \in Nat /\ Len(t) \in Nat
      /\ \A k \in 1..Len(s) : u[k] = s[k]
      /\ \A k \in 1..Len(t) : u[Len(s) + k] = t[k]
  BY ObConcat
<1> HIDE DEF u
<1>2. ASSUME NEW l \in 1..Len(u), u[l].do = "join"
      PROVE  \E k \in 1..Len(u) : k > l /\ u[k] = ObTask("closeSession", u[l].of)
  <2>1. CASE l <= Len(s)
    <3>1. l \in 1..Len(s) /\ u[l] = s[l] BY <1>1, <2>1
    <3>2. PICK k \in 1..Len(s) : k > l /\ s[k] = ObTask("closeSession", s[l].of)
      BY <3>1, <1>2 DEF ObEnds
    <3>3. k \in 1..Len(u) /\ u[k] = s[k] BY <1>1, <3>2
    <3>4. k > l /\ u[k] = ObTask("closeSession", u[l].of) BY <3>1, <3>2, <3>3
    <3>5. QED BY <3>3, <3>4
  <2>2. CASE l > Len(s)
    <3>1. l - Len(s) \in 1..Len(t) /\ Len(s) + (l - Len(s)) = l BY <1>1, <2>2
    <3>2. u[l] = t[l - Len(s)] BY <3>1, <1>1
    <3>3. PICK k \in 1..Len(t) : k > l - Len(s) /\ t[k] = ObTask("closeSession", t[l - Len(s)].of)
      BY <3>1, <3>2, <1>2 DEF ObEnds
    <3>4. Len(s) + k \in 1..Len(u) /\ u[Len(s) + k] = t[k] /\ Len(s) + k > l BY <1>1, <3>3
    <3>5. u[Len(s) + k] = ObTask("closeSession", u[l].of) BY <3>2, <3>3, <3>4
    <3>6. QED BY <3>4, <3>5
  <2>3. l <= Len(s) \/ l > Len(s) BY <1>1
  <2>4. QED BY <2>1, <2>2, <2>3
<1>3. ObEnds(u) BY <1>2 DEF ObEnds
<1> QED BY <1>3 DEF u

\* A list of one step.
LEMMA ObOneStep ==
  ASSUME NEW i \in ObInsts, NEW d \in ObDos
  PROVE  /\ ObDo(d, i) \in Seq(ObStepSet) /\ ObDo(d, i) # <<>> /\ Len(ObDo(d, i)) = 1
         /\ ObDo(d, i)[1] = ObTask(d, i)
         /\ \A x : ObIn(ObDo(d, i), x) <=> x = ObTask(d, i)
         /\ ObShape(ObDo(d, i)) /\ (d # "join" => ObEnds(ObDo(d, i)))
<1> DEFINE s == ObDo(d, i)
<1>1. s \in Seq(ObStepSet) /\ Len(s) = 1 /\ s[1] = ObTask(d, i) BY ObDoList
<1> HIDE DEF s
<1>2. \A x : ObIn(s, x) <=> x = ObTask(d, i) BY <1>1 DEF ObIn
<1>3. ObShape(s) BY <1>1 DEF ObShape
<1>4. d # "join" => ObEnds(s) BY <1>1, ObTaskIs DEF ObEnds
<1>5. s # <<>> BY <1>1
<1> QED BY <1>1, <1>2, <1>3, <1>4, <1>5 DEF s

\* stopObexServerSession is an ordered list of its five steps.
LEMMA ObStopShape ==
  ASSUME NEW i \in ObInsts
  PROVE  /\ \A x : ObIn(stopObexServerSession(i), x) <=>
                \E d \in {"closeSession", "stop", "join", "closeSock", "listen"} : x = ObTask(d, i)
         /\ ObShape(stopObexServerSession(i))
<1> DEFINE s == stopObexServerSession(i)
<1>1. /\ s \in Seq(ObStepSet) /\ Len(s) = 5
      /\ Ftp => /\ s[1] = ObTask("closeSession", i) /\ s[2] = ObTask("stop", i)
                /\ s[3] = ObTask("join", i) /\ s[4] = ObTask("closeSock", i)
      /\ ~Ftp => /\ s[1] = ObTask("closeSock", i) /\ s[2] = ObTask("stop", i)
                 /\ s[3] = ObTask("join", i) /\ s[4] = ObTask("closeSession", i)
      /\ s[5] = ObTask("listen", i)
  BY ObStopList
<1> HIDE DEF s
<1>2. \A x : ObIn(s, x) <=> \E d \in {"closeSession", "stop", "join", "closeSock", "listen"} : x = ObTask(d, i)
  <2>1. \A x : ObIn(s, x) <=> x \in {s[1], s[2], s[3], s[4], s[5]} BY <1>1 DEF ObIn
  <2>2. QED BY <1>1, <2>1
<1>3. ASSUME NEW k \in 1..Len(s), NEW l \in 1..Len(s), k < l PROVE ObAfter(s[k], s[l])
  <2>1. k \in {1, 2, 3, 4} BY <1>1, <1>3
  <2>2. s[k].do \in {"closeSession", "stop", "join", "closeSock"} BY <2>1, <1>1, ObTaskIs
  <2>3. QED BY <2>2 DEF ObAfter
<1>4. ASSUME Ftp, NEW k \in 1..Len(s), k > 1 PROVE ObNextTo(s[k - 1], s[k])
  <2>1. k \in {2, 3, 4, 5} BY <1>1, <1>4
  <2>2. s[2].do = "stop" /\ s[3].do = "join" /\ s[4].do = "closeSock" /\ s[5].do = "listen"
    BY <1>1, <1>4, ObTaskIs
  <2>3. CASE k = 2 BY <2>2, <2>3 DEF ObNextTo
  <2>4. CASE k = 3 BY <2>2, <2>4 DEF ObNextTo
  <2>5. CASE k = 4 BY <2>2, <2>5 DEF ObNextTo
  <2>6. CASE k = 5 BY <2>2, <2>6 DEF ObNextTo
  <2>7. QED BY <2>1, <2>3, <2>4, <2>5, <2>6
<1>5. ObShape(s) BY <1>3, <1>4 DEF ObShape
<1> QED BY <1>2, <1>5 DEF s

\* closeConnection is an ordered list of its five steps.
LEMMA ObCloseShape ==
  ASSUME NEW i \in ObInsts
  PROVE  /\ \A x : ObIn(closeConnection(i), x) <=>
                \E d \in {"closeListen", "stop", "join", "closeSock", "closeSession"} : x = ObTask(d, i)
         /\ ObShape(closeConnection(i)) /\ ObEnds(closeConnection(i))
<1> DEFINE s == closeConnection(i)
<1>1. /\ s \in Seq(ObStepSet) /\ Len(s) = 5
      /\ Ftp => s[2] = ObTask("stop", i) /\ s[3] = ObTask("join", i)
         /\ s[4] = ObTask("closeSock", i)
      /\ ~Ftp => s[2] = ObTask("closeSock", i) /\ s[3] = ObTask("stop", i)
         /\ s[4] = ObTask("join", i)
      /\ s[1] = ObTask("closeListen", i) /\ s[5] = ObTask("closeSession", i)
  BY ObCloseList
<1> HIDE DEF s
<1>2. \A x : ObIn(s, x) <=> \E d \in {"closeListen", "stop", "join", "closeSock", "closeSession"} : x = ObTask(d, i)
  <2>1. \A x : ObIn(s, x) <=> x \in {s[1], s[2], s[3], s[4], s[5]} BY <1>1 DEF ObIn
  <2>2. QED BY <1>1, <2>1
<1>3. ASSUME NEW k \in 1..Len(s), NEW l \in 1..Len(s), k < l PROVE ObAfter(s[k], s[l])
  <2>1. k \in {1, 2, 3, 4} BY <1>1, <1>3
  <2>2. s[k].do \in {"closeListen", "stop", "join", "closeSock"} BY <2>1, <1>1, ObTaskIs
  <2>3. QED BY <2>2 DEF ObAfter
<1>4. ASSUME Ftp, NEW k \in 1..Len(s), k > 1 PROVE ObNextTo(s[k - 1], s[k])
  <2>1. k \in {2, 3, 4, 5} BY <1>1, <1>4
  <2>2. s[2].do = "stop" /\ s[3].do = "join" /\ s[4].do = "closeSock" /\ s[5].do = "closeSession"
    BY <1>1, <1>4, ObTaskIs
  <2>3. CASE k = 2 BY <2>2, <2>3 DEF ObNextTo
  <2>4. CASE k = 3 BY <2>2, <2>4 DEF ObNextTo
  <2>5. CASE k = 4 BY <2>2, <2>5 DEF ObNextTo
  <2>6. CASE k = 5 BY <2>2, <2>6 DEF ObNextTo
  <2>7. QED BY <2>1, <2>3, <2>4, <2>5, <2>6
<1>5. ObShape(s) BY <1>3, <1>4 DEF ObShape
<1>6. ASSUME NEW l \in 1..Len(s), s[l].do = "join"
      PROVE  \E k \in 1..Len(s) : k > l /\ s[k] = ObTask("closeSession", s[l].of)
  <2>1. l < 5 /\ 5 \in 1..Len(s)
    <3>1. s[5].do = "closeSession" BY <1>1, ObTaskIs
    <3>2. l # 5 BY <3>1, <1>6
    <3>3. QED BY <3>2, <1>1
  <2>2. s[l].of = i
    <3>1. s[l] \in {s[1], s[2], s[3], s[4], s[5]} BY <1>1
    <3>2. QED BY <3>1, <1>1, ObTaskIs
  <2>3. QED BY <2>1, <2>2, <1>1
<1>7. ObEnds(s) BY <1>6 DEF ObEnds
<1> QED BY <1>2, <1>5, <1>7 DEF s

\* The steps of closing an instance, and of stopping its session.
ObClosers == {"closeListen", "stop", "join", "closeSock", "closeSession"}
ObStoppers == {"closeSession", "stop", "join", "closeSock", "listen"}

\* No step.
LEMMA ObNoSteps == <<>> \in Seq(ObStepSet) /\ ObShape(<<>>) /\ ObEnds(<<>>) /\ \A x : ~ObIn(<<>>, x)
<1>1. <<>> \in Seq(ObStepSet) OBVIOUS
<1>2. 1..Len(<<>>) = {} OBVIOUS
<1> QED BY <1>1, <1>2 DEF ObShape, ObEnds, ObIn

\* One step for every instance.
LEMMA ObEachList ==
  ASSUME NEW d \in {"listen", "admit", "refuse"}
  PROVE  LET s == ForAll([i \in ObInsts |-> ObDo(d, i)])
         IN  /\ s \in Seq(ObStepSet) /\ s # <<>> /\ ObShape(s)
             /\ \A x : ObIn(s, x) <=> \E i \in ObInsts : x = ObTask(d, i)
             /\ Ftp => s = ObDo(d, 0)
<1> DEFINE s == ForAll([i \in ObInsts |-> ObDo(d, i)])
<1>0. d \in ObDos /\ 0 \in ObInsts BY ObInstsAre DEF ObDos
<1>1. CASE Ftp
  <2>1. s = ObDo(d, 0) BY <1>0, <1>1 DEF ForAll
  <2>2. ObInsts = {0} BY <1>1, ObInstsAre
  <2>3. QED BY <1>0, <2>1, <2>2, ObOneStep
<1>2. CASE ~Ftp
  <2>1. ObInsts = {0, 1} /\ 1 \in ObInsts BY <1>2, ObInstsAre
  <2>2. s = ObDo(d, 0) \o ObDo(d, 1) BY <1>0, <1>2, <2>1 DEF ForAll
  <2> DEFINE a == ObDo(d, 0)
             b == ObDo(d, 1)
  <2>3. /\ a \in Seq(ObStepSet) /\ ObShape(a) /\ a # <<>> /\ Len(a) = 1
        /\ \A x : ObIn(a, x) <=> x = ObTask(d, 0)
    BY <1>0, ObOneStep
  <2>4. /\ b \in Seq(ObStepSet) /\ ObShape(b)
        /\ \A x : ObIn(b, x) <=> x = ObTask(d, 1)
    BY <1>0, <2>1, ObOneStep
  <2>5. ObAfter(ObTask(d, 0), ObTask(d, 1)) BY ObTaskIs DEF ObAfter
  <2> HIDE DEF a, b
  <2>6. ObShape(a \o b) BY <1>2, <2>3, <2>4, <2>5, ObShapeConcat
  <2>7. \A x : ObIn(a \o b, x) <=> \E i \in ObInsts : x = ObTask(d, i)
    BY <2>1, <2>3, <2>4, ObInConcat
  <2>8. a \o b \in Seq(ObStepSet) /\ Len(a \o b) = Len(a) + Len(b) /\ Len(b) \in Nat
    BY <2>3, <2>4, ObConcat
  <2>9. a \o b # <<>> BY <2>3, <2>8
  <2> QED BY <1>2, <2>2, <2>6, <2>7, <2>8, <2>9 DEF a, b
<1> QED BY <1>1, <1>2

\* ... and then the time-outs are removed.
LEMMA ObThenRemove ==
  ASSUME NEW d \in {"admit", "refuse"}, NEW s \in Seq(ObStepSet), ObShape(s), s # <<>>,
         \A x : ObIn(s, x) => \E i \in ObInsts : x = ObTask(d, i)
  PROVE  LET t == s \o ObDo("removeTimeouts", 0)
         IN  /\ t \in Seq(ObStepSet) /\ t # <<>> /\ ObShape(t)
             /\ \A x : ObIn(t, x) <=> ObIn(s, x) \/ x = ObTask("removeTimeouts", 0)
<1> DEFINE r == ObDo("removeTimeouts", 0)
           q == ObTask("removeTimeouts", 0)
<1>1. 0 \in ObInsts /\ "removeTimeouts" \in ObDos BY ObInstsAre DEF ObDos
<1>2. r \in Seq(ObStepSet) /\ r # <<>> /\ Len(r) = 1 /\ r[1] = q /\ ObShape(r)
      /\ (\A x : ObIn(r, x) <=> x = q)
  BY <1>1, ObOneStep
<1>3. q.do = "removeTimeouts" BY ObTaskIs
<1> HIDE DEF r, q
<1>4. \A i : ObAfter(ObTask(d, i), q) BY <1>3, ObTaskIs DEF ObAfter
<1>5. \A a : ObNextTo(a, q) BY <1>3 DEF ObNextTo
<1>6. ObShape(s \o r) BY <1>2, <1>4, <1>5, ObShapeConcat
<1>7. \A x : ObIn(s \o r, x) <=> ObIn(s, x) \/ x = q BY <1>2, ObInConcat
<1>8. s \o r \in Seq(ObStepSet) /\ Len(s \o r) = Len(s) + Len(r) /\ Len(s) \in Nat BY <1>2, ObConcat
<1>9. s \o r # <<>> BY <1>2, <1>8
<1> QED BY <1>6, <1>7, <1>8, <1>9 DEF r, q

\* Closing every instance is an ordered list of closers.
LEMMA ObCloseAllList ==
  /\ ObCloseAll \in Seq(ObStepSet) /\ ObCloseAll # <<>> /\ ObShape(ObCloseAll) /\ ObEnds(ObCloseAll)
  /\ \A x : ObIn(ObCloseAll, x) <=> \E i \in ObInsts, d \in ObClosers : x = ObTask(d, i)
  /\ Ftp => ObCloseAll = closeConnection(0)
<1> DEFINE s == ObCloseAll
<1>0. 0 \in ObInsts BY ObInstsAre
<1>a. \A i \in ObInsts : /\ closeConnection(i) \in Seq(ObStepSet) /\ closeConnection(i) # <<>>
                         /\ ObShape(closeConnection(i)) /\ ObEnds(closeConnection(i))
                         /\ \A x : ObIn(closeConnection(i), x) <=> \E d \in ObClosers : x = ObTask(d, i)
  <2>1. ASSUME NEW i \in ObInsts PROVE closeConnection(i) \in Seq(ObStepSet)
        /\ Len(closeConnection(i)) = 5
    BY ObCloseList
  <2>2. QED BY <2>1, ObCloseShape DEF ObClosers
<1>1. CASE Ftp
  <2>1. s = closeConnection(0) BY <1>0, <1>1 DEF ForAll, ObCloseAll
  <2>2. ObInsts = {0} BY <1>1, ObInstsAre
  <2>3. QED BY <1>0, <1>a, <2>1, <2>2
<1>2. CASE ~Ftp
  <2>1. ObInsts = {0, 1} /\ 1 \in ObInsts BY <1>2, ObInstsAre
  <2>2. s = closeConnection(0) \o closeConnection(1) BY <1>0, <1>2, <2>1 DEF ForAll, ObCloseAll
  <2> DEFINE a == closeConnection(0)
             b == closeConnection(1)
  <2>3. /\ a \in Seq(ObStepSet) /\ ObShape(a) /\ ObEnds(a) /\ Len(a) = 5
        /\ \A x : ObIn(a, x) <=> \E d \in ObClosers : x = ObTask(d, 0)
    BY <1>0, <1>a, ObCloseList
  <2>4. /\ b \in Seq(ObStepSet) /\ ObShape(b) /\ ObEnds(b)
        /\ \A x : ObIn(b, x) <=> \E d \in ObClosers : x = ObTask(d, 1)
    BY <2>1, <1>a
  <2>5. \A d \in ObClosers : \A y : ObAfter(ObTask(d, 0), y) BY ObTaskIs DEF ObAfter, ObClosers
  <2> HIDE DEF a, b
  <2>6. ObShape(a \o b) BY <1>2, <2>3, <2>4, <2>5, ObShapeConcat
  <2>7. ObEnds(a \o b) BY <2>3, <2>4, ObEndsConcat
  <2>8. \A x : ObIn(a \o b, x) <=> \E i \in ObInsts, d \in ObClosers : x = ObTask(d, i)
    BY <2>1, <2>3, <2>4, ObInConcat
  <2>a. a \in Seq(ObStepSet) /\ b \in Seq(ObStepSet) BY <2>3, <2>4
  <2>9. a \o b \in Seq(ObStepSet) /\ Len(a \o b) = Len(a) + Len(b) /\ Len(b) \in Nat
    BY <2>a, ObConcat
  <2>10. a \o b # <<>> BY <2>3, <2>9
  <2> QED BY <1>2, <2>2, <2>6, <2>7, <2>8, <2>9, <2>10 DEF a, b
<1> QED BY <1>1, <1>2

\* The list of onDestroy ends with the adapter going off.
LEMMA ObTurnOffList ==
  LET s == ObCloseAll \o (IF Ftp THEN closeConnection(0) ELSE <<>>) \o ObDo("off", 0)
  IN  /\ s \in Seq(ObStepSet) /\ s # <<>> /\ ObShape(s) /\ ObEnds(s)
      /\ \A x : ObIn(s, x) <=> \/ x = ObTask("off", 0)
                               \/ \E i \in ObInsts, d \in ObClosers : x = ObTask(d, i)
<1> DEFINE a == ObCloseAll
           b == IF Ftp THEN closeConnection(0) ELSE <<>>
           r == ObDo("off", 0)
           q == ObTask("off", 0)
           C(x) == \E i \in ObInsts, d \in ObClosers : x = ObTask(d, i)
<1>0. 0 \in ObInsts /\ "off" \in ObDos BY ObInstsAre DEF ObDos
<1>1. /\ a \in Seq(ObStepSet) /\ a # <<>> /\ ObShape(a) /\ ObEnds(a) /\ \A x : ObIn(a, x) <=> C(x)
  BY ObCloseAllList
<1>2. /\ b \in Seq(ObStepSet) /\ ObShape(b) /\ ObEnds(b) /\ \A x : ObIn(b, x) => C(x)
  <2>1. CASE Ftp
    <3>1. closeConnection(0) \in Seq(ObStepSet) BY <1>0, ObCloseList
    <3>2. QED BY <2>1, <3>1, <1>0, ObCloseShape DEF ObClosers
  <2>2. CASE ~Ftp
    <3>1. b = <<>> BY <2>2
    <3>2. QED BY <3>1, ObNoSteps
  <2>3. QED BY <2>1, <2>2
<1>3. r \in Seq(ObStepSet) /\ r # <<>> /\ Len(r) = 1 /\ r[1] = q /\ ObShape(r) /\ ObEnds(r)
      /\ (\A x : ObIn(r, x) <=> x = q)
  BY <1>0, ObOneStep
<1>4. q.do = "off" BY ObTaskIs
<1>5. \A x, y : C(x) => ObAfter(x, y) BY ObTaskIs DEF ObAfter, ObClosers
<1>6. Ftp => b[1] = ObTask("closeListen", 0) BY <1>0, ObCloseList
<1>7. \A x : ObNextTo(x, q) /\ ObNextTo(x, ObTask("closeListen", 0)) BY <1>4, ObTaskIs DEF ObNextTo
<1> HIDE DEF a, b, r, q, C
<1>8. ObShape(a \o b) BY <1>1, <1>2, <1>5, <1>6, <1>7, ObShapeConcat
<1>9. a \o b \in Seq(ObStepSet) BY <1>1, <1>2, ObConcat
<1>10. ObEnds(a \o b) BY <1>1, <1>2, ObEndsConcat
<1>11. \A x : ObIn(a \o b, x) <=> C(x) BY <1>1, <1>2, ObInConcat
<1> DEFINE e == a \o b
<1>12. e \in Seq(ObStepSet) /\ ObShape(e) /\ ObEnds(e) /\ \A x : ObIn(e, x) <=> C(x)
  BY <1>8, <1>9, <1>10, <1>11
<1> HIDE DEF e
<1>13. ObShape(e \o r) BY <1>12, <1>3, <1>5, <1>7, ObShapeConcat
<1>14. ObEnds(e \o r) BY <1>12, <1>3, ObEndsConcat
<1>15. \A x : ObIn(e \o r, x) <=> C(x) \/ x = q BY <1>12, <1>3, ObInConcat
<1>16. e \o r \in Seq(ObStepSet) /\ Len(e \o r) = Len(e) + Len(r) /\ Len(e) \in Nat
  BY <1>12, <1>3, ObConcat
<1>17. e \o r # <<>> BY <1>16, <1>3
<1> QED BY <1>13, <1>14, <1>15, <1>16, <1>17 DEF e, a, b, r, q, C

\* A session is stopped in the middle of a list.
LEMMA ObStopThen ==
  ASSUME NEW s \in Seq(ObStepSet), s # <<>>, ObShape(s), NEW i \in ObInsts,
         Head(s).do = "refuse" \/ (Ftp /\ Head(s).do = "admit")
  PROVE  LET t == stopObexServerSession(i) \o Tail(s)
         IN  /\ t \in Seq(ObStepSet) /\ t # <<>> /\ ObShape(t)
             /\ \A x : ObIn(t, x) <=> ObIn(Tail(s), x) \/ \E d \in ObStoppers : x = ObTask(d, i)
             /\ t[1] = ObTask(IF Ftp THEN "closeSession" ELSE "closeSock", i)
             /\ \A x : ObIn(Tail(s), x) => x.do \in {"refuse", "removeTimeouts"}
                /\ (Ftp => x.do # "refuse")
<1> DEFINE a == stopObexServerSession(i)
           b == Tail(s)
<1>1. a \in Seq(ObStepSet) /\ Len(a) = 5 /\ a[5] = ObTask("listen", i)
      /\ a[1] = ObTask(IF Ftp THEN "closeSession" ELSE "closeSock", i)
  BY ObStopList
<1>2. ObShape(a) /\ (\A x : ObIn(a, x) <=> \E d \in ObStoppers : x = ObTask(d, i))
  BY ObStopShape DEF ObStoppers
<1>3. b \in Seq(ObStepSet) OBVIOUS
<1>4. /\ ObShape(b) /\ \A x : ObIn(b, x) => ObAfter(Head(s), x)
      /\ Ftp => \A x : ObIn(b, x) => x.do \notin {"admit", "refuse"}
  BY ObShapeTail
<1>5. ASSUME NEW x, ObIn(b, x) PROVE x.do \in {"refuse", "removeTimeouts"}
  <2>1. x \in ObStepSet /\ Head(s) \in ObStepSet
    <3>1. PICK k \in 1..Len(b) : b[k] = x BY <1>5 DEF ObIn
    <3>2. QED BY <3>1, <1>3, ObElement
  <2>2. Ftp => x.of = Head(s).of
    <3>1. x.of \in ObInsts /\ Head(s).of \in ObInsts BY <2>1 DEF ObStepSet
    <3>2. QED BY <3>1, ObInstsAre
  <2>3. QED BY <1>4, <1>5, <2>2 DEF ObAfter
<1> HIDE DEF a, b
<1>6. ASSUME NEW x, NEW y, ObIn(a, x), ObIn(b, y) PROVE ObAfter(x, y)
  <2>1. PICK d \in ObStoppers : x = ObTask(d, i) BY <1>2, <1>6
  <2>2. x.do = d BY <2>1, ObTaskIs
  <2>3. y.do \in {"refuse", "removeTimeouts"} BY <1>5, <1>6
  <2>4. QED BY <2>2, <2>3 DEF ObAfter, ObStoppers
<1>7. Ftp /\ b # <<>> => ObNextTo(a[Len(a)], b[1])
  <2>1. SUFFICES ASSUME Ftp, b # <<>> PROVE ObNextTo(a[Len(a)], b[1]) OBVIOUS
  <2>2. 1 \in 1..Len(b) BY <2>1, <1>3
  <2>3. ObIn(b, b[1]) BY <2>2 DEF ObIn
  <2>4. QED BY <2>1, <2>3, <1>4, <1>5 DEF ObNextTo
<1>8. ObShape(a \o b) BY <1>1, <1>2, <1>3, <1>4, <1>6, <1>7, ObShapeConcat
<1>9. \A x : ObIn(a \o b, x) <=> ObIn(b, x) \/ \E d \in ObStoppers : x = ObTask(d, i)
  BY <1>1, <1>2, <1>3, ObInConcat
<1>10. /\ a \o b \in Seq(ObStepSet) /\ Len(a \o b) = Len(a) + Len(b) /\ Len(b) \in Nat
       /\ \A k \in 1..Len(a) : (a \o b)[k] = a[k]
  <2>1. a \in Seq(ObStepSet) /\ b \in Seq(ObStepSet) BY <1>1, <1>3
  <2>2. QED BY <2>1, ObConcat
<1>11. a \o b # <<>> /\ (a \o b)[1] = a[1] BY <1>1, <1>10
<1> QED BY <1>1, <1>4, <1>5, <1>8, <1>9, <1>10, <1>11 DEF a, b

\* The sets of the types depend on the configuration alone.
LEMMA ObSets ==
  ASSUME UNCHANGED obConfig
  PROVE  Ftp' = Ftp /\ ObInsts' = ObInsts /\ ObMainSet' = ObMainSet /\ ObWorldSet' = ObWorldSet
         /\ ObStepSet' = ObStepSet
<1>1. Ftp' = Ftp BY DEF Ftp
<1>2. ObInsts' = ObInsts BY <1>1 DEF ObInsts
<1> QED BY <1>1, <1>2 DEF ObMainSet, ObWorldSet, ObStepSet

\* What the main thread still has to do after a step of it.
LEMMA ObTodoMain ==
  ASSUME ObTyped, ObShape(obTodo), ObMainStep
  PROVE  obTodo' \in Seq(ObStepSet) /\ ObShape(obTodo')
<1> DEFINE i == Head(obTodo).of
           do == Head(obTodo).do
<1>1. /\ obTodo # <<>> /\ i \in ObInsts /\ do \in ObDos /\ obTodo \in Seq(ObStepSet)
         /\ Tail(obTodo) \in Seq(ObStepSet)
      /\ do \notin {"admit", "refuse"} => obTodo' = Tail(obTodo)
  BY ObHead DEF ObTyped
<1>2. ObShape(Tail(obTodo)) BY <1>1, ObShapeTail
<1>4. CASE do \notin {"admit", "refuse"} BY <1>1, <1>2, <1>4
<1>5. CASE do = "admit"
  <2>1. \/ obTodo' = Tail(obTodo)
        \/ Ftp /\ obTodo' = stopObexServerSession(i) \o Tail(obTodo)
    BY <1>5, ObAdmits DEF ObAdmitsEffect, ObAt, ObPops, ObStops
  <2>2. Ftp => LET t == stopObexServerSession(i) \o Tail(obTodo) IN t \in Seq(ObStepSet)
        /\ ObShape(t)
    BY <1>1, <1>5, ObStopThen
  <2>3. QED BY <2>1, <2>2, <1>1, <1>2
<1>6. CASE do = "refuse"
  <2>1. \/ obTodo' = Tail(obTodo)
        \/ obTodo' = stopObexServerSession(i) \o Tail(obTodo)
    BY <1>6, ObRefuses DEF ObRefusesEffect, ObAt, ObPops, ObStops
  <2>2. LET t == stopObexServerSession(i) \o Tail(obTodo) IN t \in Seq(ObStepSet) /\ ObShape(t)
    BY <1>1, <1>6, ObStopThen
  <2>3. QED BY <2>1, <2>2, <1>1, <1>2
<1> QED BY <1>4, <1>5, <1>6

\* Every step of the service keeps the order of the list.
LEMMA ObTodoStep ==
  ASSUME ObTyped, ObShape(obTodo), ObRuns
  PROVE  UNCHANGED obConfig /\ obTodo' \in Seq(ObStepSet) /\ ObShape(obTodo')
<1>a. obTodo \in Seq(ObStepSet) BY DEF ObTyped
<1>b. <<>> \in Seq(ObStepSet) /\ ObShape(<<>>) BY ObNoSteps
<1>c. 0 \in ObInsts BY ObInstsAre
<1>r. ObRefuse \in Seq(ObStepSet) /\ ObRefuse # <<>> /\ ObShape(ObRefuse)
      /\ \A x : ObIn(ObRefuse, x) => \E i \in ObInsts : x = ObTask("refuse", i)
  BY ObEachList DEF ObRefuse
<1>1. CASE ObMainStep BY <1>1, ObTodoMain, ObHead
<1>2. CASE ObStartListener
  <2>1. LET s == ForAll([i \in ObInsts |-> ObDo("listen", i)]) IN s \in Seq(ObStepSet) /\ ObShape(s)
    BY ObEachList
  <2>2. QED BY <1>2, <2>1, ObCloseAllList, ObStartListenerDoes DEF ObStartListenerEffect
<1>3. CASE \E t \in obMain.timeouts : ObUserTimeout(t)
  <2>1. PICK t : ObUserTimeout(t) BY <1>3
  <2>2. QED BY <2>1, <1>r, ObUserTimeoutDoes DEF ObUserTimeoutEffect
<1>4. CASE \E t \in obMain.closes : ObServerSessionClose(t)
  <2>1. PICK t : ObServerSessionClose(t) BY <1>4
  <2>2. t[1] \in ObInsts /\ (obTodo' = stopObexServerSession(t[1]) \/ obTodo' = <<>>)
        /\ UNCHANGED obConfig
    BY <2>1, ObServerSessionCloseDoes DEF ObServerSessionCloseEffect
  <2>3. stopObexServerSession(t[1]) \in Seq(ObStepSet) /\ ObShape(stopObexServerSession(t[1]))
    BY <2>2, ObStopList, ObStopShape
  <2>4. QED BY <2>2, <2>3, <1>b
<1>5. CASE ObTurnOn BY <1>5, <1>a, ObTurnOnDoes DEF ObTurnOnEffect
<1>6. CASE ObTurnOff BY <1>6, ObTurnOffDoes, ObTurnOffList DEF ObTurnOffEffect
<1>7. CASE ObSessionGivenUp
  <2>1. UNCHANGED obConfig /\ (obTodo' = stopObexServerSession(0) \/ obTodo' = obTodo)
    BY <1>7, ObGivenUpDoes DEF ObGivenUpEffect
  <2>2. stopObexServerSession(0) \in Seq(ObStepSet) /\ ObShape(stopObexServerSession(0))
    BY <1>c, ObStopList, ObStopShape
  <2>3. QED BY <2>1, <2>2, <1>a
<1>8. CASE \E d \in ObDevices : ObAclDisconnected(d)
  <2>1. PICK d : ObAclDisconnected(d) BY <1>8
  <2>2. UNCHANGED obConfig /\ (obTodo' = ObDo("refuse", 0) \o ObDo("removeTimeouts", 0) \/ obTodo' = obTodo)
    BY <2>1, ObAclDoes DEF ObAclEffect
  <2>3. /\ ObDo("refuse", 0) \in Seq(ObStepSet) /\ ObShape(ObDo("refuse", 0))
           /\ ObDo("refuse", 0) # <<>>
        /\ \A x : ObIn(ObDo("refuse", 0), x) => \E i \in ObInsts : x = ObTask("refuse", i)
    BY <1>c, ObOneStep DEF ObDos
  <2>4. LET s == ObDo("refuse", 0) \o ObDo("removeTimeouts", 0) IN s \in Seq(ObStepSet)
        /\ ObShape(s)
    BY <2>3, ObThenRemove
  <2>5. QED BY <2>2, <2>4, <1>a
<1>9. CASE \E c \in ObConn : ObAllowed(c)
  <2>1. PICK c \in ObConn : ObAllowed(c) BY <1>9
  <2> DEFINE s == ForAll([i \in ObInsts |-> ObDo("admit", i)])
  <2>2. /\ s \in Seq(ObStepSet) /\ ObShape(s) /\ s # <<>> /\ \A x : ObIn(s, x) =>
           \E i \in ObInsts : x = ObTask("admit", i)
    BY ObEachList
  <2>3. UNCHANGED obConfig /\ (obTodo' = s \o ObDo("removeTimeouts", 0) \/ obTodo' = <<>>)
    BY <2>1, ObAllowedDoes DEF ObAllowedEffect
  <2> HIDE DEF s
  <2>4. LET t == s \o ObDo("removeTimeouts", 0) IN t \in Seq(ObStepSet) /\ ObShape(t)
    BY <2>2, ObThenRemove
  <2>5. QED BY <2>3, <2>4, <1>b
<1>10. CASE \E c \in ObConn : ObDisallowed(c)
  <2>1. PICK c \in ObConn : ObDisallowed(c) BY <1>10
  <2>2. UNCHANGED obConfig /\ obTodo' = ObRefuse \o ObDo("removeTimeouts", 0)
    BY <2>1, ObDisallowedDoes DEF ObDisallowedEffect
  <2>3. LET t == ObRefuse \o ObDo("removeTimeouts", 0) IN t \in Seq(ObStepSet) /\ ObShape(t)
    BY <1>r, ObThenRemove
  <2>4. QED BY <2>2, <2>3
<1>11. CASE \E c \in ObConn : ObLinkLost(c) BY <1>11, <1>a DEF ObLinkLost
<1>12. CASE \E i \in ObInsts, d \in ObDevices, trust \in BOOLEAN : ObConnects(i, d, trust)
  BY <1>12, <1>a DEF ObConnects, ObThread
<1>13. CASE \E i \in ObInsts : ObAcceptThread(i)
  BY <1>13, <1>a DEF ObAcceptThread, ObThread, ObCreate, ObLoop, ObAcceptFails, ObRemote, ObCheck,
     ObTrust, ObJoins,
                     ObSession, ObWait, ObTimer
<1>14. CASE \E c \in obWorld.alive : ObSessionEnds(c) BY <1>14, <1>a DEF ObSessionEnds
<1> QED BY <1>1, <1>2, <1>3, <1>4, <1>5, <1>6, <1>7, <1>8, <1>9, <1>10, <1>11, <1>12, <1>13, <1>14
        DEF ObRuns, ObHandler, ObEnvironment

\* From the connection's acceptance to the end of its admission.
ObTaking == {"remote", "check", "trust", "join", "session", "wait", "timer"}

\* What an instance names exists and is its own.
ObNamedAt(i) ==
  LET o == ob[i]
  IN  /\ o.sock = 0 \/ (o.sock \in ObConn /\ obWorld.conns[o.sock].inst = i)
      /\ o.session = 0 \/ (o.session \in ObConn /\ obWorld.conns[o.session].inst = i)
      /\ o.conn = 0 \/ (o.conn \in ObConn /\ obWorld.conns[o.conn].inst = i)
      /\ o.pc \in ObTaking => o.conn # 0 /\ o.sock \in {0, o.conn}
      /\ o.pc \in ObTaking \ {"remote"} => obMain.remote # 0 /\ (Ftp => obMain.remote = o.conn)
      /\ o.pc \in {"check", "join"} => ~Ftp
      /\ o.pc = "create" => Ftp
      /\ o.waiting => ObConn # {}

\* What the main thread's messages and the world name exists.
ObNames ==
  /\ obMain.remote \in {0} \cup ObConn
  /\ obMain.notified => ~Ftp
  /\ obWorld.alive \subseteq ObConn /\ obWorld.linked \subseteq ObConn
     /\ obWorld.asked \subseteq ObConn
  /\ obMain.timeouts \subseteq ObConn \X {"delayed", "acl"}
  /\ obMain.closes \subseteq ObInsts \X ObConn

ObNamed == ObNames /\ \A i \in ObInsts : ObNamedAt(i)

\* The connections are numbered in the order of acceptance and none is forgotten.
ObKept ==
  /\ UNCHANGED obConfig
  /\ \A c \in ObConn : c \in ObConn' /\ obWorld.conns[c] = obWorld'.conns[c] /\ ObDev(c) = ObDev(c)'

\* A step that accepts no connection keeps them all.
LEMMA ObKeptAll == ASSUME UNCHANGED obConfig, obWorld'.conns = obWorld.conns PROVE ObKept
BY DEF ObKept, ObConn, ObDev

\* An accepted connection is added to the ones before it.
LEMMA ObKeptMore ==
  ASSUME ObTyped, NEW i \in ObInsts, NEW d \in ObDevices, NEW trust \in BOOLEAN, ObConnects(i, d, trust)
  PROVE  /\ ObKept
         /\ LET n == Len(obWorld.conns) + 1
            IN  /\ n \in Nat /\ n # 0 /\ n \notin ObConn /\ ObConn' = ObConn \cup {n}
                   /\ obWorld'.conns[n].inst = i
                /\ obWorld'.conns[n].dev = d
<1> DEFINE s == obWorld.conns
           r == [dev |-> d, inst |-> i]
           S == [dev : ObDevices, inst : ObInsts]
<1>1. s \in Seq(S) BY DEF ObTyped, ObWorldSet
<1>2. obWorld'.conns = Append(s, r) /\ UNCHANGED obConfig
  BY ObConnectsDoes DEF ObConnectsEffect, ObWorldIs
<1>3. r \in S OBVIOUS
<1>r. r.dev = d /\ r.inst = i OBVIOUS
<1> HIDE DEF r, S
<1>4. Len(Append(s, r)) = Len(s) + 1 /\ Len(s) \in Nat /\ Append(s, r)[Len(s) + 1] = r
      /\ \A c \in 1..Len(s) : Append(s, r)[c] = s[c]
  BY <1>1, <1>3
<1> HIDE DEF s
<1>5. ObConn = 1..Len(s) /\ ObConn' = 1..(Len(s) + 1) BY <1>2, <1>4 DEF ObConn, s
<1>6. \A c \in ObConn : obWorld.conns[c] = obWorld'.conns[c] BY <1>2, <1>4, <1>5 DEF s
<1>7. \A c \in ObConn : c \in ObConn' BY <1>4, <1>5
<1>8. obWorld'.conns[Len(s) + 1] = r BY <1>2, <1>4
<1>9. /\ Len(s) + 1 \in Nat /\ Len(s) + 1 # 0 /\ Len(s) + 1 \notin ObConn
         /\ ObConn' = ObConn \cup {Len(s) + 1}
  BY <1>4, <1>5
<1>10. QED BY <1>2, <1>6, <1>7, <1>8, <1>9, <1>r DEF ObKept, ObDev, s

\* Every step keeps the types and the connections accepted before.
LEMMA ObKeptStep ==
  ASSUME ObTyped, ObNamed, ObShape(obTodo), ObRuns
  PROVE  ObKept /\ ObTyped'
<1>c. UNCHANGED obConfig /\ obTodo' \in Seq(ObStepSet) BY ObTodoStep
<1>s. ObInsts' = ObInsts /\ ObMainSet' = ObMainSet /\ ObWorldSet' = ObWorldSet
      /\ ObStepSet' = ObStepSet
  BY <1>c, ObSets
<1>t. /\ ob \in [ObInsts -> ObLocal] /\ obMain \in ObMainSet /\ obWorld \in ObWorldSet
      /\ obConfig \in [profile : {"ftp", "mas"}, conns : Nat, faults : SUBSET ObFaults]
  BY DEF ObTyped
<1> SUFFICES ob' \in [ObInsts -> ObLocal] /\ obMain' \in ObMainSet /\ obWorld' \in ObWorldSet
      /\ ObKept
  BY <1>c, <1>s, <1>t DEF ObTyped
<1>m1. CASE ObMainStep /\ Head(obTodo).do = "closeListen"
  <2>e. ObClosesListenEffect BY <1>m1, ObClosesListen
  <2>g0. ob' \in [ObInsts -> ObLocal] /\ obMain' \in ObMainSet /\ obWorld' \in ObWorldSet
        /\ obWorld'.conns = obWorld.conns
    BY <2>e, <1>c, <1>t DEF ObClosesListenEffect, ObPart, ObMainIs, ObWorldIs
  <2> QED BY <2>g0, <1>c, ObKeptAll
<1>m2. CASE ObMainStep /\ Head(obTodo).do = "closeSock"
  <2>e. ObClosesSockEffect BY <1>m2, ObClosesSock
  <2>g0. ob' \in [ObInsts -> ObLocal] /\ obMain' \in ObMainSet /\ obWorld' \in ObWorldSet
        /\ obWorld'.conns = obWorld.conns
    BY <2>e, <1>c, <1>t DEF ObClosesSockEffect, ObPart, ObMainIs, ObWorldIs
  <2> QED BY <2>g0, <1>c, ObKeptAll
<1>m3. CASE ObMainStep /\ Head(obTodo).do = "closeSession"
  <2>e. ObClosesSessionEffect BY <1>m3, ObClosesSession
  <2>g0. ob' \in [ObInsts -> ObLocal] /\ obMain' \in ObMainSet /\ obWorld' \in ObWorldSet
        /\ obWorld'.conns = obWorld.conns
    BY <2>e, <1>c, <1>t DEF ObClosesSessionEffect, ObPart, ObMainIs, ObWorldIs
  <2> QED BY <2>g0, <1>c, ObKeptAll
<1>m4. CASE ObMainStep /\ Head(obTodo).do = "stop"
  <2>e. ObStopsThreadEffect BY <1>m4, ObStopsThread
  <2>g0. ob' \in [ObInsts -> ObLocal] /\ obMain' \in ObMainSet /\ obWorld' \in ObWorldSet
        /\ obWorld'.conns = obWorld.conns
    BY <2>e, <1>c, <1>t DEF ObStopsThreadEffect, ObPart, ObMainIs, ObWorldIs
  <2> QED BY <2>g0, <1>c, ObKeptAll
<1>m5. CASE ObMainStep /\ Head(obTodo).do = "join"
  <2>e. ObJoinsThreadEffect BY <1>m5, ObJoinsThread
  <2>g0. ob' \in [ObInsts -> ObLocal] /\ obMain' \in ObMainSet /\ obWorld' \in ObWorldSet
        /\ obWorld'.conns = obWorld.conns
    BY <2>e, <1>c, <1>t DEF ObJoinsThreadEffect, ObPart, ObMainIs, ObWorldIs
  <2> QED BY <2>g0, <1>c, ObKeptAll
<1>m6. CASE ObMainStep /\ Head(obTodo).do = "listen"
  <2>e. ObListensEffect BY <1>m6, ObListens
  <2>g0. ob' \in [ObInsts -> ObLocal] /\ obMain' \in ObMainSet /\ obWorld' \in ObWorldSet
        /\ obWorld'.conns = obWorld.conns
    BY <2>e, <1>c, <1>t DEF ObListensEffect, ObPart, ObMainIs, ObWorldIs
  <2> QED BY <2>g0, <1>c, ObKeptAll
<1>m7. CASE ObMainStep /\ Head(obTodo).do = "removeTimeouts"
  <2>e. ObRemovesTimeoutsEffect BY <1>m7, ObRemovesTimeouts
  <2>g0. ob' \in [ObInsts -> ObLocal] /\ obMain' \in ObMainSet /\ obWorld' \in ObWorldSet
        /\ obWorld'.conns = obWorld.conns
    BY <2>e, <1>c, <1>t DEF ObRemovesTimeoutsEffect, ObPart, ObMainIs, ObWorldIs
  <2> QED BY <2>g0, <1>c, ObKeptAll
<1>m8. CASE ObMainStep /\ Head(obTodo).do = "off"
  <2>e. ObTurnedOffEffect BY <1>m8, ObTurnedOff
  <2>g0. ob' \in [ObInsts -> ObLocal] /\ obMain' \in ObMainSet /\ obWorld' \in ObWorldSet
        /\ obWorld'.conns = obWorld.conns
    BY <2>e, <1>c, <1>t DEF ObTurnedOffEffect, ObPart, ObMainIs, ObWorldIs
  <2> QED BY <2>g0, <1>c, ObKeptAll
<1>m9. CASE ObMainStep /\ Head(obTodo).do = "admit"
  <2>e. ObAdmitsEffect BY <1>m9, ObAdmits
  <2>g0. ob' \in [ObInsts -> ObLocal] /\ obMain' \in ObMainSet /\ obWorld' \in ObWorldSet
        /\ obWorld'.conns = obWorld.conns
    BY <2>e, <1>c, <1>t DEF ObAdmitsEffect, ObPart, ObMainIs, ObWorldIs
  <2> QED BY <2>g0, <1>c, ObKeptAll
<1>m10. CASE ObMainStep /\ Head(obTodo).do = "refuse"
  <2>e. ObRefusesEffect BY <1>m10, ObRefuses
  <2>g0. ob' \in [ObInsts -> ObLocal] /\ obMain' \in ObMainSet /\ obWorld' \in ObWorldSet
        /\ obWorld'.conns = obWorld.conns
    BY <2>e, <1>c, <1>t DEF ObRefusesEffect, ObPart, ObMainIs, ObWorldIs
  <2> QED BY <2>g0, <1>c, ObKeptAll
<1>m. CASE ObMainStep
  BY <1>m, <1>m1, <1>m2, <1>m3, <1>m4, <1>m5, <1>m6, <1>m7, <1>m8, <1>m9, <1>m10, ObHead DEF ObDos
<1>a1. CASE \E i \in ObInsts : ObCreate(i)
  <2>1. PICK i \in ObInsts : ObCreate(i) BY <1>a1
  <2>e. ObCreateEffect(i) BY <2>1, ObCreateDoes
  <2>g0. ob' \in [ObInsts -> ObLocal] /\ obMain' \in ObMainSet /\ obWorld' \in ObWorldSet
        /\ obWorld'.conns = obWorld.conns
    BY <2>e, <1>c, <1>t DEF ObCreateEffect, ObPart, ObMainIs, ObWorldIs
  <2> QED BY <2>g0, <1>c, ObKeptAll
<1>a2. CASE \E i \in ObInsts : ObLoop(i)
  <2>1. PICK i \in ObInsts : ObLoop(i) BY <1>a2
  <2>e. ObLoopEffect(i) BY <2>1, ObLoopDoes
  <2>g0. ob' \in [ObInsts -> ObLocal] /\ obMain' \in ObMainSet /\ obWorld' \in ObWorldSet
        /\ obWorld'.conns = obWorld.conns
    BY <2>e, <1>c, <1>t DEF ObLoopEffect, ObPart, ObMainIs, ObWorldIs
  <2> QED BY <2>g0, <1>c, ObKeptAll
<1>a3. CASE \E i \in ObInsts : ObAcceptFails(i)
  <2>1. PICK i \in ObInsts : ObAcceptFails(i) BY <1>a3
  <2>e. ObAcceptFailsEffect(i) BY <2>1, ObAcceptFailsDoes
  <2>g0. ob' \in [ObInsts -> ObLocal] /\ obMain' \in ObMainSet /\ obWorld' \in ObWorldSet
        /\ obWorld'.conns = obWorld.conns
    BY <2>e, <1>c, <1>t DEF ObAcceptFailsEffect, ObPart, ObMainIs, ObWorldIs
  <2> QED BY <2>g0, <1>c, ObKeptAll
<1>a4. CASE \E i \in ObInsts : ObRemote(i)
  <2>1. PICK i \in ObInsts : ObRemote(i) BY <1>a4
  <2>e. ObRemoteEffect(i) BY <2>1, ObRemoteDoes
  <2>g0. ob' \in [ObInsts -> ObLocal] /\ obMain' \in ObMainSet /\ obWorld' \in ObWorldSet
        /\ obWorld'.conns = obWorld.conns
    BY <2>e, <1>c, <1>t DEF ObRemoteEffect, ObPart, ObMainIs, ObWorldIs
  <2> QED BY <2>g0, <1>c, ObKeptAll
<1>a5. CASE \E i \in ObInsts : ObCheck(i)
  <2>1. PICK i \in ObInsts : ObCheck(i) BY <1>a5
  <2>e. ObCheckEffect(i) BY <2>1, ObCheckDoes
  <2>g0. ob' \in [ObInsts -> ObLocal] /\ obMain' \in ObMainSet /\ obWorld' \in ObWorldSet
        /\ obWorld'.conns = obWorld.conns
    BY <2>e, <1>c, <1>t DEF ObCheckEffect, ObPart, ObMainIs, ObWorldIs
  <2> QED BY <2>g0, <1>c, ObKeptAll
<1>a6. CASE \E i \in ObInsts : ObTrust(i)
  <2>1. PICK i \in ObInsts : ObTrust(i) BY <1>a6
  <2>e. ObTrustEffect(i) BY <2>1, ObTrustDoes
  <2>g0. ob' \in [ObInsts -> ObLocal] /\ obMain' \in ObMainSet /\ obWorld' \in ObWorldSet
        /\ obWorld'.conns = obWorld.conns
    BY <2>e, <1>c, <1>t DEF ObTrustEffect, ObPart, ObMainIs, ObWorldIs
  <2> QED BY <2>g0, <1>c, ObKeptAll
<1>a7. CASE \E i \in ObInsts : ObJoins(i)
  <2>1. PICK i \in ObInsts : ObJoins(i) BY <1>a7
  <2>e. ObJoinsEffect(i) BY <2>1, ObJoinsDoes
  <2>g0. ob' \in [ObInsts -> ObLocal] /\ obMain' \in ObMainSet /\ obWorld' \in ObWorldSet
        /\ obWorld'.conns = obWorld.conns
    BY <2>e, <1>c, <1>t DEF ObJoinsEffect, ObPart, ObMainIs, ObWorldIs
  <2> QED BY <2>g0, <1>c, ObKeptAll
<1>a8. CASE \E i \in ObInsts : ObSession(i)
  <2>1. PICK i \in ObInsts : ObSession(i) BY <1>a8
  <2>e. ObSessionEffect(i) BY <2>1, ObSessionDoes
  <2>g0. ob' \in [ObInsts -> ObLocal] /\ obMain' \in ObMainSet /\ obWorld' \in ObWorldSet
        /\ obWorld'.conns = obWorld.conns
    BY <2>e, <1>c, <1>t DEF ObSessionEffect, ObPart, ObMainIs, ObWorldIs
  <2> QED BY <2>g0, <1>c, ObKeptAll
<1>a9. CASE \E i \in ObInsts : ObWait(i)
  <2>1. PICK i \in ObInsts : ObWait(i) BY <1>a9
  <2>e. ObWaitEffect(i) BY <2>1, ObWaitDoes
  <2>g0. ob' \in [ObInsts -> ObLocal] /\ obMain' \in ObMainSet /\ obWorld' \in ObWorldSet
        /\ obWorld'.conns = obWorld.conns
    BY <2>e, <1>c, <1>t DEF ObWaitEffect, ObPart, ObMainIs, ObWorldIs
  <2> QED BY <2>g0, <1>c, ObKeptAll
<1>a10. CASE \E i \in ObInsts : ObTimer(i)
  <2>1. PICK i \in ObInsts : ObTimer(i) BY <1>a10
  <2>e. ObTimerEffect(i) BY <2>1, ObTimerDoes
  <2>g0. ob' \in [ObInsts -> ObLocal] /\ obMain' \in ObMainSet /\ obWorld' \in ObWorldSet
        /\ obWorld'.conns = obWorld.conns
    BY <2>e, <1>c, <1>t DEF ObTimerEffect, ObPart, ObMainIs, ObWorldIs
  <2> QED BY <2>g0, <1>c, ObKeptAll
<1>a. CASE \E i \in ObInsts : ObAcceptThread(i)
  BY <1>a, <1>a1, <1>a2, <1>a3, <1>a4, <1>a5, <1>a6, <1>a7, <1>a8, <1>a9, <1>a10 DEF ObAcceptThread
<1>o1. CASE ObStartListener
  <2>e. ObStartListenerEffect BY <1>o1, ObStartListenerDoes
  <2>g0. ob' \in [ObInsts -> ObLocal] /\ obMain' \in ObMainSet /\ obWorld' \in ObWorldSet
        /\ obWorld'.conns = obWorld.conns
    BY <2>e, <1>c, <1>t DEF ObStartListenerEffect, ObPart, ObMainIs, ObWorldIs
  <2> QED BY <2>g0, <1>c, ObKeptAll
<1>o2. CASE \E t \in obMain.timeouts : ObUserTimeout(t)
  <2>1. PICK t \in obMain.timeouts : ObUserTimeout(t) BY <1>o2
  <2>e. ObUserTimeoutEffect(t) BY <2>1, ObUserTimeoutDoes
  <2>g0. ob' \in [ObInsts -> ObLocal] /\ obMain' \in ObMainSet /\ obWorld' \in ObWorldSet
        /\ obWorld'.conns = obWorld.conns
    BY <2>e, <1>c, <1>t DEF ObUserTimeoutEffect, ObPart, ObMainIs, ObWorldIs
  <2> QED BY <2>g0, <1>c, ObKeptAll
<1>o3. CASE \E t \in obMain.closes : ObServerSessionClose(t)
  <2>1. PICK t \in obMain.closes : ObServerSessionClose(t) BY <1>o3
  <2>e. ObServerSessionCloseEffect(t) BY <2>1, ObServerSessionCloseDoes
  <2>g0. ob' \in [ObInsts -> ObLocal] /\ obMain' \in ObMainSet /\ obWorld' \in ObWorldSet
        /\ obWorld'.conns = obWorld.conns
    BY <2>e, <1>c, <1>t DEF ObServerSessionCloseEffect, ObPart, ObMainIs, ObWorldIs
  <2> QED BY <2>g0, <1>c, ObKeptAll
<1>o4. CASE ObTurnOn
  <2>e. ObTurnOnEffect BY <1>o4, ObTurnOnDoes
  <2>g0. ob' \in [ObInsts -> ObLocal] /\ obMain' \in ObMainSet /\ obWorld' \in ObWorldSet
        /\ obWorld'.conns = obWorld.conns
    BY <2>e, <1>c, <1>t DEF ObTurnOnEffect, ObPart, ObMainIs, ObWorldIs
  <2> QED BY <2>g0, <1>c, ObKeptAll
<1>o5. CASE ObTurnOff
  <2>e. ObTurnOffEffect BY <1>o5, ObTurnOffDoes
  <2>g0. ob' \in [ObInsts -> ObLocal] /\ obMain' \in ObMainSet /\ obWorld' \in ObWorldSet
        /\ obWorld'.conns = obWorld.conns
    BY <2>e, <1>c, <1>t DEF ObTurnOffEffect, ObPart, ObMainIs, ObWorldIs
  <2> QED BY <2>g0, <1>c, ObKeptAll
<1>o6. CASE ObSessionGivenUp
  <2>e. ObGivenUpEffect BY <1>o6, ObGivenUpDoes
  <2>g0. ob' \in [ObInsts -> ObLocal] /\ obMain' \in ObMainSet /\ obWorld' \in ObWorldSet
        /\ obWorld'.conns = obWorld.conns
    BY <2>e, <1>c, <1>t DEF ObGivenUpEffect, ObPart, ObMainIs, ObWorldIs
  <2> QED BY <2>g0, <1>c, ObKeptAll
<1>o7. CASE \E d \in ObDevices : ObAclDisconnected(d)
  <2>1. PICK d \in ObDevices : ObAclDisconnected(d) BY <1>o7
  <2>e. ObAclEffect(d) BY <2>1, ObAclDoes
  <2>g0. ob' \in [ObInsts -> ObLocal] /\ obMain' \in ObMainSet /\ obWorld' \in ObWorldSet
        /\ obWorld'.conns = obWorld.conns
    BY <2>e, <1>c, <1>t DEF ObAclEffect, ObPart, ObMainIs, ObWorldIs
  <2> QED BY <2>g0, <1>c, ObKeptAll
<1>o8. CASE \E c \in ObConn : ObAllowed(c)
  <2>1. PICK c \in ObConn : ObAllowed(c) BY <1>o8
  <2>e. ObAllowedEffect(c) BY <2>1, ObAllowedDoes
  <2>g0. ob' \in [ObInsts -> ObLocal] /\ obMain' \in ObMainSet /\ obWorld' \in ObWorldSet
        /\ obWorld'.conns = obWorld.conns
    BY <2>e, <1>c, <1>t DEF ObAllowedEffect, ObPart, ObMainIs, ObWorldIs
  <2> QED BY <2>g0, <1>c, ObKeptAll
<1>o9. CASE \E c \in ObConn : ObDisallowed(c)
  <2>1. PICK c \in ObConn : ObDisallowed(c) BY <1>o9
  <2>e. ObDisallowedEffect(c) BY <2>1, ObDisallowedDoes
  <2>g0. ob' \in [ObInsts -> ObLocal] /\ obMain' \in ObMainSet /\ obWorld' \in ObWorldSet
        /\ obWorld'.conns = obWorld.conns
    BY <2>e, <1>c, <1>t DEF ObDisallowedEffect, ObPart, ObMainIs, ObWorldIs
  <2> QED BY <2>g0, <1>c, ObKeptAll
<1>o10. CASE \E c \in ObConn : ObLinkLost(c)
  <2>1. PICK c \in ObConn : ObLinkLost(c) BY <1>o10
  <2>e. ObLinkLostEffect(c) BY <2>1, ObLinkLostDoes
  <2>g0. ob' \in [ObInsts -> ObLocal] /\ obMain' \in ObMainSet /\ obWorld' \in ObWorldSet
        /\ obWorld'.conns = obWorld.conns
    BY <2>e, <1>c, <1>t DEF ObLinkLostEffect, ObPart, ObMainIs, ObWorldIs
  <2> QED BY <2>g0, <1>c, ObKeptAll
<1>o11. CASE \E i \in ObInsts, d \in ObDevices, trust \in BOOLEAN : ObConnects(i, d, trust)
  <2>1. PICK i \in ObInsts, d \in ObDevices, trust \in BOOLEAN : ObConnects(i, d, trust) BY <1>o11
  <2>2. ObKept BY <2>1, ObKeptMore
  <2>3. QED BY <2>1, <2>2, <1>t, ObConnectsDoes DEF ObConnectsEffect, ObPart, ObWorldIs
<1>o12. CASE \E c \in obWorld.alive : ObSessionEnds(c)
  <2>1. PICK c \in obWorld.alive : ObSessionEnds(c) BY <1>o12
  <2>2. c \in ObConn BY DEF ObNamed, ObNames
  <2>e. ObSessionEndsEffect(c) BY <2>1, ObSessionEndsDoes, <2>2
  <2>g0. ob' \in [ObInsts -> ObLocal] /\ obMain' \in ObMainSet /\ obWorld' \in ObWorldSet
        /\ obWorld'.conns = obWorld.conns
    BY <2>e, <1>c, <1>t DEF ObSessionEndsEffect, ObPart, ObMainIs, ObWorldIs
  <2> QED BY <2>g0, <1>c, ObKeptAll
<1>q. QED
  BY <1>m, <1>a, <1>o1, <1>o2, <1>o3, <1>o4, <1>o5, <1>o6, <1>o7, <1>o8, <1>o9, <1>o10, <1>o11,
     <1>o12 DEF ObRuns, ObHandler, ObEnvironment

\* What the instances and the messages name stays named.
LEMMA ObNamedStep ==
  ASSUME ObTyped, ObNamed, ObShape(obTodo), ObRuns
  PROVE  ObNamed'
<1>k. ObKept BY ObKeptStep
<1>s. ObInsts' = ObInsts /\ Ftp' = Ftp BY <1>k, ObSets DEF ObKept
<1>t. ob \in [ObInsts -> ObLocal] /\ obMain \in ObMainSet /\ obWorld \in ObWorldSet BY DEF ObTyped
<1>n. ObNames /\ \A j \in ObInsts : ObNamedAt(j) BY DEF ObNamed
<1>e. obWorld'.conns = obWorld.conns => ObConn' = ObConn BY DEF ObConn
<1>i. 0 \in ObInsts /\ (~Ftp => 1 \in ObInsts) BY ObInstsAre
<1>h. ObMainStep => ObAt \in ObInsts BY ObHead DEF ObAt
<1> SUFFICES ObNames' /\ \A j \in ObInsts : ObNamedAt(j)' BY <1>s DEF ObNamed
<1>m1. CASE ObMainStep /\ Head(obTodo).do = "closeListen"
  <2>e. ObClosesListenEffect BY <1>m1, ObClosesListen
  <2>g0. ObNames'
    BY <2>e, <1>s, <1>n, <1>e, <1>i, <1>h DEF ObClosesListenEffect, ObMainIs, ObWorldIs, ObNames,
       ObNamedAt, ObTaking
  <2>g1. ASSUME NEW j \in ObInsts PROVE ObNamedAt(j)'
    BY <2>e, <1>s, <1>n, <1>e, <1>i, <1>h DEF ObClosesListenEffect, ObPart, ObMainIs, ObWorldIs,
       ObNames, ObNamedAt, ObTaking
  <2> QED BY <2>g0, <2>g1
<1>m2. CASE ObMainStep /\ Head(obTodo).do = "closeSock"
  <2>e. ObClosesSockEffect BY <1>m2, ObClosesSock
  <2>g0. ObNames'
    BY <2>e, <1>s, <1>n, <1>e, <1>i, <1>h DEF ObClosesSockEffect, ObMainIs, ObWorldIs, ObNames,
       ObNamedAt, ObTaking
  <2>g1. ASSUME NEW j \in ObInsts PROVE ObNamedAt(j)'
    BY <2>e, <1>s, <1>n, <1>e, <1>i, <1>h DEF ObClosesSockEffect, ObPart, ObMainIs, ObWorldIs,
       ObNames, ObNamedAt, ObTaking
  <2> QED BY <2>g0, <2>g1
<1>m3. CASE ObMainStep /\ Head(obTodo).do = "closeSession"
  <2>e. ObClosesSessionEffect BY <1>m3, ObClosesSession
  <2>g0. ObNames'
    <3> DEFINE o == ob[ObAt]
    <3>1. CASE o.session \in obWorld.alive
      <4>1. o.session \in ObConn /\ ObAt \in ObInsts BY <3>1, <1>n, <1>h, <1>m3 DEF ObNames
      <4>2. <<ObAt, o.session>> \in ObInsts \X ObConn BY <4>1
      <4>3. obMain'.closes = obMain.closes \cup {<<ObAt, o.session>>}
        BY <3>1, <2>e DEF ObClosesSessionEffect, ObMainIs
      <4> QED
        BY <4>2, <4>3, <2>e, <1>s, <1>n, <1>e DEF ObClosesSessionEffect, ObMainIs, ObWorldIs,
           ObNames
    <3>2. CASE o.session \notin obWorld.alive
      BY <3>2, <2>e, <1>s, <1>n, <1>e DEF ObClosesSessionEffect, ObMainIs, ObWorldIs, ObNames
    <3> QED BY <3>1, <3>2
  <2>g1. ASSUME NEW j \in ObInsts PROVE ObNamedAt(j)'
    BY <2>e, <1>s, <1>n, <1>e, <1>i, <1>h DEF ObClosesSessionEffect, ObPart, ObMainIs, ObWorldIs,
       ObNames, ObNamedAt, ObTaking
  <2> QED BY <2>g0, <2>g1
<1>m4. CASE ObMainStep /\ Head(obTodo).do = "stop"
  <2>e. ObStopsThreadEffect BY <1>m4, ObStopsThread
  <2>g0. ObNames'
    BY <2>e, <1>s, <1>n, <1>e, <1>i, <1>h DEF ObStopsThreadEffect, ObMainIs, ObWorldIs, ObNames,
       ObNamedAt, ObTaking
  <2>g1. ASSUME NEW j \in ObInsts PROVE ObNamedAt(j)'
    BY <2>e, <1>s, <1>n, <1>e, <1>i, <1>h DEF ObStopsThreadEffect, ObPart, ObMainIs, ObWorldIs,
       ObNames, ObNamedAt, ObTaking
  <2> QED BY <2>g0, <2>g1
<1>m5. CASE ObMainStep /\ Head(obTodo).do = "join"
  <2>e. ObJoinsThreadEffect BY <1>m5, ObJoinsThread
  <2>g0. ObNames'
    BY <2>e, <1>s, <1>n, <1>e, <1>i, <1>h DEF ObJoinsThreadEffect, ObMainIs, ObWorldIs, ObNames,
       ObNamedAt, ObTaking
  <2>g1. ASSUME NEW j \in ObInsts PROVE ObNamedAt(j)'
    BY <2>e, <1>s, <1>n, <1>e, <1>i, <1>h DEF ObJoinsThreadEffect, ObPart, ObMainIs, ObWorldIs,
       ObNames, ObNamedAt, ObTaking
  <2> QED BY <2>g0, <2>g1
<1>m6. CASE ObMainStep /\ Head(obTodo).do = "listen"
  <2>e. ObListensEffect BY <1>m6, ObListens
  <2>g0. ObNames'
    BY <2>e, <1>s, <1>n, <1>e, <1>i, <1>h DEF ObListensEffect, ObMainIs, ObWorldIs, ObNames,
       ObNamedAt, ObTaking
  <2>g1. ASSUME NEW j \in ObInsts PROVE ObNamedAt(j)'
    BY <2>e, <1>s, <1>n, <1>e, <1>i, <1>h DEF ObListensEffect, ObPart, ObMainIs, ObWorldIs, ObNames,
       ObNamedAt, ObTaking
  <2> QED BY <2>g0, <2>g1
<1>m7. CASE ObMainStep /\ Head(obTodo).do = "removeTimeouts"
  <2>e. ObRemovesTimeoutsEffect BY <1>m7, ObRemovesTimeouts
  <2>g0. ObNames'
    BY <2>e, <1>s, <1>n, <1>e, <1>i, <1>h DEF ObRemovesTimeoutsEffect, ObMainIs, ObWorldIs, ObNames,
       ObNamedAt, ObTaking
  <2>g1. ASSUME NEW j \in ObInsts PROVE ObNamedAt(j)'
    BY <2>e, <1>s, <1>n, <1>e, <1>i, <1>h DEF ObRemovesTimeoutsEffect, ObPart, ObMainIs, ObWorldIs,
       ObNames, ObNamedAt, ObTaking
  <2> QED BY <2>g0, <2>g1
<1>m8. CASE ObMainStep /\ Head(obTodo).do = "off"
  <2>e. ObTurnedOffEffect BY <1>m8, ObTurnedOff
  <2>g0. ObNames'
    BY <2>e, <1>s, <1>n, <1>e, <1>i, <1>h DEF ObTurnedOffEffect, ObMainIs, ObWorldIs, ObNames,
       ObNamedAt, ObTaking
  <2>g1. ASSUME NEW j \in ObInsts PROVE ObNamedAt(j)'
    BY <2>e, <1>s, <1>n, <1>e, <1>i, <1>h DEF ObTurnedOffEffect, ObPart, ObMainIs, ObWorldIs,
       ObNames, ObNamedAt, ObTaking
  <2> QED BY <2>g0, <2>g1
<1>m9. CASE ObMainStep /\ Head(obTodo).do = "admit"
  <2>e. ObAdmitsEffect BY <1>m9, ObAdmits
  <2>2. ob[ObAt].sock # 0 => ob[ObAt].sock \in ObConn BY <1>m9, <1>n, <1>h DEF ObNamedAt
  <2>g0. ObNames'
    BY <2>e, <2>2, <1>s, <1>n, <1>e DEF ObAdmitsEffect, ObWorldIs, ObNames
  <2>g1. ASSUME NEW j \in ObInsts PROVE ObNamedAt(j)'
    BY <2>e, <1>s, <1>n, <1>e, <1>i, <1>h DEF ObAdmitsEffect, ObPart, ObMainIs, ObWorldIs, ObNames,
       ObNamedAt, ObTaking
  <2> QED BY <2>g0, <2>g1
<1>m10. CASE ObMainStep /\ Head(obTodo).do = "refuse"
  <2>e. ObRefusesEffect BY <1>m10, ObRefuses
  <2>g0. ObNames'
    BY <2>e, <1>s, <1>n, <1>e, <1>i, <1>h DEF ObRefusesEffect, ObMainIs, ObWorldIs, ObNames,
       ObNamedAt, ObTaking
  <2>g1. ASSUME NEW j \in ObInsts PROVE ObNamedAt(j)'
    BY <2>e, <1>s, <1>n, <1>e, <1>i, <1>h DEF ObRefusesEffect, ObPart, ObMainIs, ObWorldIs, ObNames,
       ObNamedAt, ObTaking
  <2> QED BY <2>g0, <2>g1
<1>m. CASE ObMainStep
  BY <1>m, <1>m1, <1>m2, <1>m3, <1>m4, <1>m5, <1>m6, <1>m7, <1>m8, <1>m9, <1>m10, ObHead DEF ObDos
<1>a1. CASE \E i \in ObInsts : ObCreate(i)
  <2>1. PICK i \in ObInsts : ObCreate(i) BY <1>a1
  <2>e. ObCreateEffect(i) BY <2>1, ObCreateDoes
  <2>g0. ObNames'
    BY <2>e, <1>s, <1>n, <1>e, <1>i, <1>h DEF ObCreateEffect, ObMainIs, ObWorldIs, ObNames,
       ObNamedAt, ObTaking
  <2>g1. ASSUME NEW j \in ObInsts PROVE ObNamedAt(j)'
    BY <2>e, <1>s, <1>n, <1>e, <1>i, <1>h DEF ObCreateEffect, ObPart, ObMainIs, ObWorldIs, ObNames,
       ObNamedAt, ObTaking
  <2> QED BY <2>g0, <2>g1
<1>a2. CASE \E i \in ObInsts : ObLoop(i)
  <2>1. PICK i \in ObInsts : ObLoop(i) BY <1>a2
  <2>e. ObLoopEffect(i) BY <2>1, ObLoopDoes
  <2>g0. ObNames'
    BY <2>e, <1>s, <1>n, <1>e, <1>i, <1>h DEF ObLoopEffect, ObMainIs, ObWorldIs, ObNames, ObNamedAt,
       ObTaking
  <2>g1. ASSUME NEW j \in ObInsts PROVE ObNamedAt(j)'
    BY <2>e, <1>s, <1>n, <1>e, <1>i, <1>h DEF ObLoopEffect, ObPart, ObMainIs, ObWorldIs, ObNames,
       ObNamedAt, ObTaking
  <2> QED BY <2>g0, <2>g1
<1>a3. CASE \E i \in ObInsts : ObAcceptFails(i)
  <2>1. PICK i \in ObInsts : ObAcceptFails(i) BY <1>a3
  <2>e. ObAcceptFailsEffect(i) BY <2>1, ObAcceptFailsDoes
  <2>g0. ObNames'
    BY <2>e, <1>s, <1>n, <1>e, <1>i, <1>h DEF ObAcceptFailsEffect, ObMainIs, ObWorldIs, ObNames,
       ObNamedAt, ObTaking
  <2>g1. ASSUME NEW j \in ObInsts PROVE ObNamedAt(j)'
    BY <2>e, <1>s, <1>n, <1>e, <1>i, <1>h DEF ObAcceptFailsEffect, ObPart, ObMainIs, ObWorldIs,
       ObNames, ObNamedAt, ObTaking
  <2> QED BY <2>g0, <2>g1
<1>a4. CASE \E i \in ObInsts : ObRemote(i)
  <2>1. PICK i \in ObInsts : ObRemote(i) BY <1>a4
  <2>e. ObRemoteEffect(i) BY <2>1, ObRemoteDoes
  <2>g0. ObNames'
    BY <2>e, <1>s, <1>n, <1>e, <1>i, <1>h DEF ObRemoteEffect, ObMainIs, ObWorldIs, ObNames,
       ObNamedAt, ObTaking
  <2>g1. ASSUME NEW j \in ObInsts PROVE ObNamedAt(j)'
    <3>1. CASE Ftp
      BY <3>1, <2>1, <2>e, ObInstsAre, <1>s, <1>n, <1>e DEF ObRemoteEffect, ObPart, ObMainIs,
         ObNames, ObNamedAt, ObTaking
    <3>2. CASE ~Ftp
      BY <3>2, <2>e, <1>s, <1>n, <1>e DEF ObRemoteEffect, ObPart, ObMainIs, ObNames, ObNamedAt,
         ObTaking
    <3> QED BY <3>1, <3>2
  <2> QED BY <2>g0, <2>g1
<1>a5. CASE \E i \in ObInsts : ObCheck(i)
  <2>1. PICK i \in ObInsts : ObCheck(i) BY <1>a5
  <2>e. ObCheckEffect(i) BY <2>1, ObCheckDoes
  <2>g0. ObNames'
    BY <2>e, <1>s, <1>n, <1>e, <1>i, <1>h DEF ObCheckEffect, ObMainIs, ObWorldIs, ObNames,
       ObNamedAt, ObTaking
  <2>g1. ASSUME NEW j \in ObInsts PROVE ObNamedAt(j)'
    BY <2>e, <1>s, <1>n, <1>e, <1>i, <1>h DEF ObCheckEffect, ObPart, ObMainIs, ObWorldIs, ObNames,
       ObNamedAt, ObTaking
  <2> QED BY <2>g0, <2>g1
<1>a6. CASE \E i \in ObInsts : ObTrust(i)
  <2>1. PICK i \in ObInsts : ObTrust(i) BY <1>a6
  <2>e. ObTrustEffect(i) BY <2>1, ObTrustDoes
  <2>g0. ObNames'
    BY <2>e, <1>s, <1>n, <1>e, <1>i, <1>h DEF ObTrustEffect, ObMainIs, ObWorldIs, ObNames,
       ObNamedAt, ObTaking
  <2>g1. ASSUME NEW j \in ObInsts PROVE ObNamedAt(j)'
    BY <2>e, <1>s, <1>n, <1>e, <1>i, <1>h DEF ObTrustEffect, ObPart, ObMainIs, ObWorldIs, ObNames,
       ObNamedAt, ObTaking
  <2> QED BY <2>g0, <2>g1
<1>a7. CASE \E i \in ObInsts : ObJoins(i)
  <2>1. PICK i \in ObInsts : ObJoins(i) BY <1>a7
  <2>e. ObJoinsEffect(i) BY <2>1, ObJoinsDoes
  <2>g0. ObNames'
    BY <2>e, <1>s, <1>n, <1>e, <1>i, <1>h DEF ObJoinsEffect, ObMainIs, ObWorldIs, ObNames,
       ObNamedAt, ObTaking
  <2>g1. ASSUME NEW j \in ObInsts PROVE ObNamedAt(j)'
    BY <2>e, <1>s, <1>n, <1>e, <1>i, <1>h DEF ObJoinsEffect, ObPart, ObMainIs, ObWorldIs, ObNames,
       ObNamedAt, ObTaking
  <2> QED BY <2>g0, <2>g1
<1>a8. CASE \E i \in ObInsts : ObSession(i)
  <2>1. PICK i \in ObInsts : ObSession(i) BY <1>a8
  <2>e. ObSessionEffect(i) BY <2>1, ObSessionDoes
  <2>g0. ObNames'
    BY <2>e, <1>s, <1>n, <1>e, <1>i, <1>h DEF ObSessionEffect, ObMainIs, ObWorldIs, ObNames,
       ObNamedAt, ObTaking
  <2>g1. ASSUME NEW j \in ObInsts PROVE ObNamedAt(j)'
    BY <2>e, <1>s, <1>n, <1>e, <1>i, <1>h DEF ObSessionEffect, ObPart, ObMainIs, ObWorldIs, ObNames,
       ObNamedAt, ObTaking
  <2> QED BY <2>g0, <2>g1
<1>a9. CASE \E i \in ObInsts : ObWait(i)
  <2>1. PICK i \in ObInsts : ObWait(i) BY <1>a9
  <2>e. ObWaitEffect(i) BY <2>1, ObWaitDoes
  <2>g0. ObNames'
    BY <2>e, <1>s, <1>n, <1>e, <1>i, <1>h DEF ObWaitEffect, ObMainIs, ObWorldIs, ObNames, ObNamedAt,
       ObTaking
  <2>g1. ASSUME NEW j \in ObInsts PROVE ObNamedAt(j)'
    BY <2>e, <1>s, <1>n, <1>e, <1>i, <1>h DEF ObWaitEffect, ObPart, ObMainIs, ObWorldIs, ObNames,
       ObNamedAt, ObTaking
  <2> QED BY <2>g0, <2>g1
<1>a10. CASE \E i \in ObInsts : ObTimer(i)
  <2>1. PICK i \in ObInsts : ObTimer(i) BY <1>a10
  <2>e. ObTimerEffect(i) BY <2>1, ObTimerDoes
  <2>g0. ObNames'
    BY <2>e, <1>s, <1>n, <1>e, <1>i, <1>h DEF ObTimerEffect, ObMainIs, ObWorldIs, ObNames,
       ObNamedAt, ObTaking
  <2>g1. ASSUME NEW j \in ObInsts PROVE ObNamedAt(j)'
    BY <2>e, <1>s, <1>n, <1>e, <1>i, <1>h DEF ObTimerEffect, ObPart, ObMainIs, ObWorldIs, ObNames,
       ObNamedAt, ObTaking
  <2> QED BY <2>g0, <2>g1
<1>a. CASE \E i \in ObInsts : ObAcceptThread(i)
  BY <1>a, <1>a1, <1>a2, <1>a3, <1>a4, <1>a5, <1>a6, <1>a7, <1>a8, <1>a9, <1>a10 DEF ObAcceptThread
<1>o1. CASE ObStartListener
  <2>e. ObStartListenerEffect BY <1>o1, ObStartListenerDoes
  <2>g0. ObNames'
    BY <2>e, <1>s, <1>n, <1>e, <1>i, <1>h DEF ObStartListenerEffect, ObMainIs, ObWorldIs, ObNames,
       ObNamedAt, ObTaking
  <2>g1. ASSUME NEW j \in ObInsts PROVE ObNamedAt(j)'
    BY <2>e, <1>s, <1>n, <1>e, <1>i, <1>h DEF ObStartListenerEffect, ObPart, ObMainIs, ObWorldIs,
       ObNames, ObNamedAt, ObTaking
  <2> QED BY <2>g0, <2>g1
<1>o2. CASE \E t \in obMain.timeouts : ObUserTimeout(t)
  <2>1. PICK t \in obMain.timeouts : ObUserTimeout(t) BY <1>o2
  <2>e. ObUserTimeoutEffect(t) BY <2>1, ObUserTimeoutDoes
  <2>g0. ObNames'
    BY <2>e, <1>s, <1>n, <1>e, <1>i, <1>h DEF ObUserTimeoutEffect, ObMainIs, ObWorldIs, ObNames,
       ObNamedAt, ObTaking
  <2>g1. ASSUME NEW j \in ObInsts PROVE ObNamedAt(j)'
    BY <2>e, <1>s, <1>n, <1>e, <1>i, <1>h DEF ObUserTimeoutEffect, ObPart, ObMainIs, ObWorldIs,
       ObNames, ObNamedAt, ObTaking
  <2> QED BY <2>g0, <2>g1
<1>o3. CASE \E t \in obMain.closes : ObServerSessionClose(t)
  <2>1. PICK t \in obMain.closes : ObServerSessionClose(t) BY <1>o3
  <2>e. ObServerSessionCloseEffect(t) BY <2>1, ObServerSessionCloseDoes
  <2>g0. ObNames'
    BY <2>e, <1>s, <1>n, <1>e, <1>i, <1>h DEF ObServerSessionCloseEffect, ObMainIs, ObWorldIs,
       ObNames, ObNamedAt, ObTaking
  <2>g1. ASSUME NEW j \in ObInsts PROVE ObNamedAt(j)'
    BY <2>e, <1>s, <1>n, <1>e, <1>i, <1>h DEF ObServerSessionCloseEffect, ObPart, ObMainIs,
       ObWorldIs, ObNames, ObNamedAt, ObTaking
  <2> QED BY <2>g0, <2>g1
<1>o4. CASE ObTurnOn
  <2>e. ObTurnOnEffect BY <1>o4, ObTurnOnDoes
  <2>g0. ObNames'
    BY <2>e, <1>s, <1>n, <1>e, <1>i, <1>h DEF ObTurnOnEffect, ObMainIs, ObWorldIs, ObNames,
       ObNamedAt, ObTaking
  <2>g1. ASSUME NEW j \in ObInsts PROVE ObNamedAt(j)'
    BY <2>e, <1>s, <1>n, <1>e, <1>i, <1>h DEF ObTurnOnEffect, ObPart, ObMainIs, ObWorldIs, ObNames,
       ObNamedAt, ObTaking
  <2> QED BY <2>g0, <2>g1
<1>o5. CASE ObTurnOff
  <2>e. ObTurnOffEffect BY <1>o5, ObTurnOffDoes
  <2>g0. ObNames'
    BY <2>e, <1>s, <1>n, <1>e, <1>i, <1>h DEF ObTurnOffEffect, ObMainIs, ObWorldIs, ObNames,
       ObNamedAt, ObTaking
  <2>g1. ASSUME NEW j \in ObInsts PROVE ObNamedAt(j)'
    BY <2>e, <1>s, <1>n, <1>e, <1>i, <1>h DEF ObTurnOffEffect, ObPart, ObMainIs, ObWorldIs, ObNames,
       ObNamedAt, ObTaking
  <2> QED BY <2>g0, <2>g1
<1>o6. CASE ObSessionGivenUp
  <2>e. ObGivenUpEffect BY <1>o6, ObGivenUpDoes
  <2>g0. ObNames'
    BY <2>e, <1>s, <1>n, <1>e, <1>i, <1>h DEF ObGivenUpEffect, ObMainIs, ObWorldIs, ObNames,
       ObNamedAt, ObTaking
  <2>g1. ASSUME NEW j \in ObInsts PROVE ObNamedAt(j)'
    BY <2>e, <1>s, <1>n, <1>e, <1>i, <1>h DEF ObGivenUpEffect, ObPart, ObMainIs, ObWorldIs, ObNames,
       ObNamedAt, ObTaking
  <2> QED BY <2>g0, <2>g1
<1>o7. CASE \E d \in ObDevices : ObAclDisconnected(d)
  <2>1. PICK d \in ObDevices : ObAclDisconnected(d) BY <1>o7
  <2>e. ObAclEffect(d) BY <2>1, ObAclDoes
  <2>g0. ObNames'
    BY <2>e, <1>s, <1>n, <1>e, <1>i, <1>h DEF ObAclEffect, ObMainIs, ObWorldIs, ObNames, ObNamedAt,
       ObTaking
  <2>g1. ASSUME NEW j \in ObInsts PROVE ObNamedAt(j)'
    BY <2>e, <1>s, <1>n, <1>e, <1>i, <1>h DEF ObAclEffect, ObPart, ObMainIs, ObWorldIs, ObNames,
       ObNamedAt, ObTaking
  <2> QED BY <2>g0, <2>g1
<1>o8. CASE \E c \in ObConn : ObAllowed(c)
  <2>1. PICK c \in ObConn : ObAllowed(c) BY <1>o8
  <2>e. ObAllowedEffect(c) BY <2>1, ObAllowedDoes
  <2>g0. ObNames'
    BY <2>e, <1>s, <1>n, <1>e, <1>i, <1>h DEF ObAllowedEffect, ObMainIs, ObWorldIs, ObNames,
       ObNamedAt, ObTaking
  <2>g1. ASSUME NEW j \in ObInsts PROVE ObNamedAt(j)'
    BY <2>e, <1>s, <1>n, <1>e, <1>i, <1>h DEF ObAllowedEffect, ObPart, ObMainIs, ObWorldIs, ObNames,
       ObNamedAt, ObTaking
  <2> QED BY <2>g0, <2>g1
<1>o9. CASE \E c \in ObConn : ObDisallowed(c)
  <2>1. PICK c \in ObConn : ObDisallowed(c) BY <1>o9
  <2>e. ObDisallowedEffect(c) BY <2>1, ObDisallowedDoes
  <2>g0. ObNames'
    BY <2>e, <1>s, <1>n, <1>e, <1>i, <1>h DEF ObDisallowedEffect, ObMainIs, ObWorldIs, ObNames,
       ObNamedAt, ObTaking
  <2>g1. ASSUME NEW j \in ObInsts PROVE ObNamedAt(j)'
    BY <2>e, <1>s, <1>n, <1>e, <1>i, <1>h DEF ObDisallowedEffect, ObPart, ObMainIs, ObWorldIs,
       ObNames, ObNamedAt, ObTaking
  <2> QED BY <2>g0, <2>g1
<1>o10. CASE \E c \in ObConn : ObLinkLost(c)
  <2>1. PICK c \in ObConn : ObLinkLost(c) BY <1>o10
  <2>e. ObLinkLostEffect(c) BY <2>1, ObLinkLostDoes
  <2>g0. ObNames'
    BY <2>e, <1>s, <1>n, <1>e, <1>i, <1>h DEF ObLinkLostEffect, ObMainIs, ObWorldIs, ObNames,
       ObNamedAt, ObTaking
  <2>g1. ASSUME NEW j \in ObInsts PROVE ObNamedAt(j)'
    BY <2>e, <1>s, <1>n, <1>e, <1>i, <1>h DEF ObLinkLostEffect, ObPart, ObMainIs, ObWorldIs,
       ObNames, ObNamedAt, ObTaking
  <2> QED BY <2>g0, <2>g1
<1>o11. CASE \E i \in ObInsts, d \in ObDevices, trust \in BOOLEAN : ObConnects(i, d, trust)
  <2>1. PICK i \in ObInsts, d \in ObDevices, trust \in BOOLEAN : ObConnects(i, d, trust) BY <1>o11
  <2> DEFINE n == Len(obWorld.conns) + 1
  <2>2. n \in Nat /\ n # 0 /\ n \notin ObConn /\ ObConn' = ObConn \cup {n}
        /\ obWorld'.conns[n].inst = i
    BY <2>1, ObKeptMore
  <2>3. \A c \in ObConn : obWorld.conns[c] = obWorld'.conns[c] BY <1>k DEF ObKept
  <2>4. ob[i].pc = "blocked" /\ UNCHANGED obMain
        /\ ObPart(i, ob[i].listen, n, ob[i].session, ob[i].waiting, "remote", n, ob[i].stopped)
        /\ obWorld'.linked = obWorld.linked \cup {n} /\ obWorld'.asked = obWorld.asked
           /\ obWorld'.alive = obWorld.alive
    BY <2>1, ObConnectsDoes DEF ObConnectsEffect, ObWorldIs
  <2> HIDE DEF n
  <2>5. ObNames' BY <2>2, <2>4, <1>n, <1>s DEF ObNames
  <2>6. ASSUME NEW j \in ObInsts PROVE ObNamedAt(j)'
    BY <2>2, <2>3, <2>4, <1>n, <1>s DEF ObNamedAt, ObPart, ObTaking
  <2>7. QED BY <2>5, <2>6
<1>o12. CASE \E c \in obWorld.alive : ObSessionEnds(c)
  <2>1. PICK c \in obWorld.alive : ObSessionEnds(c) BY <1>o12
  <2>2. c \in ObConn /\ obWorld.conns[c].inst \in ObInsts BY ObConnTyped DEF ObNamed, ObNames
  <2>e. ObSessionEndsEffect(c) BY <2>1, ObSessionEndsDoes, <2>2
  <2>g0. ObNames'
    BY <2>e, <1>s, <1>n, <1>e, <1>i, <1>h, <2>2 DEF ObSessionEndsEffect, ObMainIs, ObWorldIs,
       ObNames, ObNamedAt, ObTaking
  <2>g1. ASSUME NEW j \in ObInsts PROVE ObNamedAt(j)'
    BY <2>e, <1>s, <1>n, <1>e, <1>i, <1>h DEF ObSessionEndsEffect, ObPart, ObMainIs, ObWorldIs,
       ObNames, ObNamedAt, ObTaking
  <2> QED BY <2>g0, <2>g1
<1>q. QED
  BY <1>m, <1>a, <1>o1, <1>o2, <1>o3, <1>o4, <1>o5, <1>o6, <1>o7, <1>o8, <1>o9, <1>o10, <1>o11,
     <1>o12 DEF ObRuns, ObHandler, ObEnvironment

\* The main thread still has to do d for instance i.
ObHas(d, i) == ObIn(obTodo, ObTask(d, i))

\* A step of the list is done; the list is as it was.
ObPopped ==
  /\ \A d, i : ObHas(d, i)' => ObHas(d, i) /\ ObAfter(Head(obTodo), ObTask(d, i))
  /\ \A d, i : ObHas(d, i) => ObHas(d, i)' \/ (d = Head(obTodo).do /\ i = ObAt)
  /\ ObHas(Head(obTodo).do, ObAt)
  /\ Ftp => \A d, i : ObHas(d, i)' => d \notin {"admit", "refuse"}
  /\ ObEnds(obTodo) => ObEnds(obTodo)'
ObSameTodo ==
  /\ \A d, i : ObHas(d, i)' <=> ObHas(d, i)
  /\ ObEnds(obTodo) => ObEnds(obTodo)'

\* A step that leaves the list alone.
LEMMA ObTodoSame == ASSUME UNCHANGED obTodo PROVE ObSameTodo
BY DEF ObSameTodo, ObHas, ObIn, ObTask, ObEnds

\* What is left when the first step of the list is done.
LEMMA ObPopsHas == ASSUME ObTyped, ObShape(obTodo), ObMainStep, ObPops PROVE ObPopped
<1>1. obTodo \in Seq(ObStepSet) /\ obTodo # <<>> /\ Head(obTodo) = ObTask(Head(obTodo).do, ObAt)
  BY ObHead DEF ObTyped, ObAt
<1>2. obTodo' = Tail(obTodo) BY DEF ObPops
<1>3. ASSUME NEW d, NEW i
      PROVE  /\ ObHas(d, i)' => ObHas(d, i) /\ ObAfter(Head(obTodo), ObTask(d, i))
             /\ ObHas(d, i) => ObHas(d, i)' \/ (d = Head(obTodo).do /\ i = ObAt)
             /\ Ftp /\ ObHas(d, i)' => d \notin {"admit", "refuse"}
  <2>1. ObHas(d, i)' <=> ObIn(Tail(obTodo), ObTask(d, i)) BY <1>2 DEF ObHas, ObIn, ObTask
  <2>2. ObIn(Tail(obTodo), ObTask(d, i)) => ObHas(d, i) BY <1>1, ObInTail DEF ObHas
  <2>3. ObHas(d, i) => ObIn(Tail(obTodo), ObTask(d, i)) \/ ObTask(d, i) = ObTask(Head(obTodo).do, ObAt)
    BY <1>1, ObInTail DEF ObHas
  <2>4. ObIn(Tail(obTodo), ObTask(d, i)) => ObAfter(Head(obTodo), ObTask(d, i)) BY <1>1, ObShapeTail
  <2>5. Ftp /\ ObIn(Tail(obTodo), ObTask(d, i)) => ObTask(d, i).do \notin {"admit", "refuse"}
    BY <1>1, ObShapeTail
  <2>6. QED BY <2>1, <2>2, <2>3, <2>4, <2>5, ObTaskIs
<1>4. ObHas(Head(obTodo).do, ObAt) BY <1>1, ObInTail DEF ObHas
<1>5. ASSUME ObEnds(obTodo) PROVE ObEnds(obTodo)'
  <2>1. ObEnds(Tail(obTodo)) BY <1>1, <1>5, ObShapeTail
  <2>2. QED BY <1>2, <2>1 DEF ObEnds, ObTask
<1>6. QED BY <1>3, <1>4, <1>5 DEF ObPopped

\* A session is stopped before the rest of the list.
ObStopped(n) ==
  /\ \A d \in ObStoppers : ObHas(d, n)'
  /\ \A d, i : ObHas(d, i)' => \/ d \in ObStoppers /\ i = n
                               \/ ObHas(d, i) /\ d \in {"refuse", "removeTimeouts"}
                                  /\ (Ftp => d # "refuse")
  /\ ObHas(Head(obTodo).do, n)

\* What is left when a session is stopped before the rest of the list.
LEMMA ObStopsHas ==
  ASSUME ObTyped, ObShape(obTodo), ObMainStep, ObStops(ObAt), NEW n, n = ObAt,
         Head(obTodo).do = "refuse" \/ (Ftp /\ Head(obTodo).do = "admit")
  PROVE  ObStopped(n)
<1>1. /\ obTodo \in Seq(ObStepSet) /\ obTodo # <<>> /\ Head(obTodo) = ObTask(Head(obTodo).do, ObAt)
         /\ ObAt \in ObInsts
  BY ObHead DEF ObTyped, ObAt
<1>2. obTodo' = stopObexServerSession(ObAt) \o Tail(obTodo) BY DEF ObStops
<1>3. /\ \A x : ObIn(obTodo', x) <=> ObIn(Tail(obTodo), x) \/ \E d \in ObStoppers : x = ObTask(d, ObAt)
      /\ \A x : ObIn(Tail(obTodo), x) => x.do \in {"refuse", "removeTimeouts"}
         /\ (Ftp => x.do # "refuse")
  BY <1>1, <1>2, ObStopThen
<1>4. \A x : ObIn(Tail(obTodo), x) => ObIn(obTodo, x) BY <1>1, ObInTail
<1>5. ObHas(Head(obTodo).do, ObAt) BY <1>1, ObInTail DEF ObHas
<1>6. \A d, i : ObHas(d, i)' <=> ObIn(obTodo', ObTask(d, i)) BY DEF ObHas, ObIn
<1>7. \A d \in ObStoppers : ObHas(d, n)' BY <1>3, <1>6
<1>8. ASSUME NEW d, NEW i, ObHas(d, i)'
      PROVE  (d \in ObStoppers /\ i = ObAt) \/ (ObHas(d, i) /\ d \in {"refuse", "removeTimeouts"} /\ (Ftp => d # "refuse"))
  <2>1. ObIn(Tail(obTodo), ObTask(d, i)) \/ \E e \in ObStoppers : ObTask(d, i) = ObTask(e, ObAt)
    BY <1>3, <1>6, <1>8
  <2>2. ObIn(Tail(obTodo), ObTask(d, i)) => ObHas(d, i) /\ d \in {"refuse", "removeTimeouts"}
        /\ (Ftp => d # "refuse")
    BY <1>3, <1>4, ObTaskIs DEF ObHas
  <2>3. (\E e \in ObStoppers : ObTask(d, i) = ObTask(e, ObAt)) => d \in ObStoppers /\ i = ObAt
    BY ObTaskIs
  <2>4. QED BY <2>1, <2>2, <2>3
<1>9. QED BY <1>5, <1>7, <1>8 DEF ObStopped

\* The list is given by its steps.
LEMMA ObHasList ==
  ASSUME NEW s, obTodo' = s
  PROVE  \A d, i : ObHas(d, i)' <=> ObIn(s, ObTask(d, i))
BY DEF ObHas, ObIn, ObTask

\* An empty list holds nothing.
LEMMA ObHasNothing == ASSUME obTodo = <<>> PROVE \A d, i : ~ObHas(d, i)
BY ObNoSteps DEF ObHas

\* What stopObexServerSession holds.
LEMMA ObHasStopped ==
  ASSUME NEW i \in ObInsts, obTodo' = stopObexServerSession(i)
  PROVE  \A d, j : ObHas(d, j)' <=> d \in ObStoppers /\ j = i
<1>1. \A x : ObIn(stopObexServerSession(i), x) <=> \E d \in ObStoppers : x = ObTask(d, i)
  BY ObStopShape DEF ObStoppers
<1>2. QED BY <1>1, ObHasList, ObTaskIs

\* What a list of one step for every instance holds.
LEMMA ObHasEach ==
  ASSUME NEW e \in {"listen", "admit", "refuse"}, NEW s, s = ForAll([i \in ObInsts |-> ObDo(e, i)])
  PROVE  /\ \A d, j : obTodo' = s => (ObHas(d, j)' <=> d = e /\ j \in ObInsts)
         /\ \A d, j : obTodo' = s \o ObDo("removeTimeouts", 0) /\ e # "listen" =>
              (ObHas(d, j)' <=> (d = e /\ j \in ObInsts) \/ (d = "removeTimeouts" /\ j = 0))
<1>1. /\ s \in Seq(ObStepSet) /\ s # <<>> /\ ObShape(s)
      /\ \A x : ObIn(s, x) <=> \E i \in ObInsts : x = ObTask(e, i)
  <2>1. LET t == ForAll([i \in ObInsts |-> ObDo(e, i)])
        IN  /\ t \in Seq(ObStepSet) /\ t # <<>> /\ ObShape(t)
            /\ \A x : ObIn(t, x) <=> \E i \in ObInsts : x = ObTask(e, i)
    BY ObEachList
  <2>2. QED BY <2>1
<1>2. \A d, j : obTodo' = s => (ObHas(d, j)' <=> d = e /\ j \in ObInsts)
  BY <1>1, ObHasList, ObTaskIs
<1>3. ASSUME NEW d, NEW j, obTodo' = s \o ObDo("removeTimeouts", 0), e # "listen"
      PROVE  ObHas(d, j)' <=> (d = e /\ j \in ObInsts) \/ (d = "removeTimeouts" /\ j = 0)
  <2>1. \A x : ObIn(s \o ObDo("removeTimeouts", 0), x) <=> ObIn(s, x) \/ x = ObTask("removeTimeouts", 0)
    <3>1. e \in {"admit", "refuse"} BY <1>3
    <3>2. \A x : ObIn(s, x) => \E i \in ObInsts : x = ObTask(e, i) BY <1>1
    <3>3. QED BY <3>1, <3>2, <1>1, ObThenRemove
  <2>2. ObHas(d, j)' <=> ObIn(s, ObTask(d, j)) \/ ObTask(d, j) = ObTask("removeTimeouts", 0)
    BY <2>1, <1>3, ObHasList
  <2>3. QED BY <1>1, <2>2, ObTaskIs
<1>4. QED BY <1>2, <1>3

\* What the handler of ACTION_ACL_DISCONNECTED does in FTP.
LEMMA ObHasRefused ==
  ASSUME obTodo' = ObDo("refuse", 0) \o ObDo("removeTimeouts", 0)
  PROVE  \A d, j : ObHas(d, j)' <=> d \in {"refuse", "removeTimeouts"} /\ j = 0
<1> DEFINE s == ObDo("refuse", 0)
<1>1. /\ s \in Seq(ObStepSet) /\ s # <<>> /\ ObShape(s)
         /\ \A x : ObIn(s, x) <=> x = ObTask("refuse", 0)
  BY ObInstsAre, ObOneStep DEF ObDos
<1>2. \A x : ObIn(s, x) => \E i \in ObInsts : x = ObTask("refuse", i) BY <1>1, ObInstsAre
<1> HIDE DEF s
<1>3. \A x : ObIn(s \o ObDo("removeTimeouts", 0), x) <=> ObIn(s, x) \/ x = ObTask("removeTimeouts", 0)
  BY <1>1, <1>2, ObThenRemove
<1>4. \A d, j : ObHas(d, j)' <=> ObIn(s, ObTask(d, j)) \/ ObTask(d, j) = ObTask("removeTimeouts", 0)
  BY <1>3, ObHasList DEF s
<1>5. QED BY <1>1, <1>4, ObTaskIs

\* What closing every instance holds, also when the adapter goes off.
LEMMA ObHasClosers ==
  /\ obTodo' = ObCloseAll => /\ \A d, j : ObHas(d, j)' <=> d \in ObClosers /\ j \in ObInsts
                             /\ ObEnds(obTodo)'
  /\ obTodo' = ObCloseAll \o (IF Ftp THEN closeConnection(0) ELSE <<>>) \o ObDo("off", 0) =>
       /\ \A d, j : ObHas(d, j)' <=> (d \in ObClosers /\ j \in ObInsts) \/ (d = "off" /\ j = 0)
       /\ ObEnds(obTodo)'
<1>e. \A s : obTodo' = s /\ ObEnds(s) => ObEnds(obTodo)' BY DEF ObEnds, ObTask
<1>1. ASSUME obTodo' = ObCloseAll
      PROVE  /\ \A d, j : ObHas(d, j)' <=> d \in ObClosers /\ j \in ObInsts
             /\ ObEnds(obTodo)'
  <2>1. \A x : ObIn(ObCloseAll, x) <=> \E i \in ObInsts, d \in ObClosers : x = ObTask(d, i)
    BY ObCloseAllList
  <2>2. ObEnds(ObCloseAll) BY ObCloseAllList
  <2>3. \A d, j : ObHas(d, j)' <=> ObIn(ObCloseAll, ObTask(d, j)) BY <1>1, ObHasList
  <2>4. QED BY <1>1, <2>1, <2>2, <2>3, <1>e, ObTaskIs
<1> DEFINE s == ObCloseAll \o (IF Ftp THEN closeConnection(0) ELSE <<>>) \o ObDo("off", 0)
<1>2. ASSUME obTodo' = s
      PROVE  /\ \A d, j : ObHas(d, j)' <=> (d \in ObClosers /\ j \in ObInsts) \/ (d = "off" /\ j = 0)
             /\ ObEnds(obTodo)'
  <2>1. /\ \A x : ObIn(s, x) <=> \/ x = ObTask("off", 0)
                                 \/ \E i \in ObInsts, d \in ObClosers : x = ObTask(d, i)
        /\ ObEnds(s)
    BY ObTurnOffList
  <2> HIDE DEF s
  <2>3. \A d, j : ObHas(d, j)' <=> ObIn(s, ObTask(d, j)) BY <1>2, ObHasList
  <2>4. QED BY <1>2, <2>1, <2>3, <1>e, ObTaskIs
<1>3. QED BY <1>1, <1>2

\* A thread that is joined has its session closed later.
LEMMA ObEndsHas ==
  ASSUME ObTyped, ObEnds(obTodo), NEW i, ObHas("join", i)
  PROVE  ObHas("closeSession", i)
<1>1. PICK l \in 1..Len(obTodo) : obTodo[l] = ObTask("join", i) BY DEF ObHas, ObIn
<1>2. obTodo[l].do = "join" /\ obTodo[l].of = i BY <1>1, ObTaskIs
<1>3. QED BY <1>2 DEF ObEnds, ObHas, ObIn

\* A thread that is joined has its session closed later: after a step.
LEMMA ObEndsHasNext ==
  ASSUME ObEnds(obTodo)', NEW i, ObHas("join", i)'
  PROVE  ObHas("closeSession", i)'
<1>1. PICK l \in 1..Len(obTodo') : obTodo'[l] = ObTask("join", i) BY DEF ObHas, ObIn, ObTask
<1>2. obTodo'[l].do = "join" /\ obTodo'[l].of = i BY <1>1, ObTaskIs
<1>3. PICK k \in 1..Len(obTodo') : obTodo'[k] = ObTask("closeSession", i) BY <1>2 DEF ObEnds, ObTask
<1>4. QED BY <1>3 DEF ObHas, ObIn, ObTask

\* Closing an instance: what it still has is in the list.
ObClosingAt(i) ==
  /\ ObHas("closeListen", i) \/ ~ob[i].listen
  /\ ObHas("join", i) \/ ob[i].pc = "none"
  /\ ObHas("closeSession", i) \/ (ob[i].session = 0 /\ ob[i].pc = "none")

ObOffAt(i) == ob[i].pc = "none" /\ ~ob[i].listen /\ ob[i].session = 0

\* The list while the service closes.
ObClosingList ==
  /\ \A i : ObHas("off", i) => obWorld.adapter = "closing"
  /\ \A i : ObHas("admit", i) => obWorld.adapter = "on"
  /\ obWorld.adapter = "closing" =>
       /\ ObHas("off", 0) /\ ObEnds(obTodo)
       /\ \A d, i : ObHas(d, i) => d \in ObClosers \cup {"off"}

\* Closing keeps in the list what is still open, and off means nothing is.
ObClosing ==
  /\ ObClosingList
  /\ obWorld.adapter = "closing" => \A i \in ObInsts : ObClosingAt(i)
  /\ obWorld.adapter = "off" => \A i \in ObInsts : ObOffAt(i)

\* While the service closes, every step keeps what is open in the list.
LEMMA ObClosingStep ==
  ASSUME ObTyped, ObNamed, ObShape(obTodo), ObClosing, ObRuns
  PROVE  ObClosing'
<1>c. UNCHANGED obConfig BY ObTodoStep
<1>s. ObInsts' = ObInsts /\ Ftp' = Ftp BY <1>c, ObSets
<1>l. ObClosingList BY DEF ObClosing
<1>i. 0 \in ObInsts /\ (~Ftp => 1 \in ObInsts) BY ObInstsAre
<1>h. ObMainStep => ObAt \in ObInsts BY ObHead DEF ObAt
<1>z. obTodo = <<>> => obWorld.adapter # "closing" BY <1>l, ObHasNothing DEF ObClosingList
<1>n. obTodo = <<>> => \A d, i : ~ObHas(d, i) BY ObHasNothing
<1>k. ASSUME NEW j \in ObInsts
      PROVE  /\ obWorld.adapter = "closing" => ObClosingAt(j)
                /\ (ObHas("join", j) => ObHas("closeSession", j))
             /\ obWorld.adapter = "off" => ObOffAt(j)
  BY <1>l, ObEndsHas DEF ObClosing, ObClosingList
<1>d. ObClosers = {"closeListen", "stop", "join", "closeSock", "closeSession"}
      /\ ObStoppers = {"closeSession", "stop", "join", "closeSock", "listen"}
  BY DEF ObClosers, ObStoppers
<1> SUFFICES /\ ObClosingList'
             /\ \A j \in ObInsts : obWorld'.adapter = "closing" => ObClosingAt(j)'
             /\ \A j \in ObInsts : obWorld'.adapter = "off" => ObOffAt(j)'
  BY <1>s DEF ObClosing
<1>m1. CASE ObMainStep /\ Head(obTodo).do = "closeListen"
  <2>e. ObClosesListenEffect BY <1>m1, ObClosesListen
  <2>h. ObPopped BY <1>m1, <2>e, ObPopsHas DEF ObClosesListenEffect
  <2>g0. ObClosingList'
    BY <2>e, <1>m1, <2>h, <1>l, <1>z, <1>n, <1>d DEF ObClosesListenEffect, ObClosingList, ObPopped
  <2>g1. ASSUME NEW j \in ObInsts, obWorld'.adapter = "closing" PROVE ObClosingAt(j)'
    BY <2>e, <1>m1, <2>g1, <2>h, <1>k, <1>z, <1>d DEF ObClosesListenEffect, ObPart, ObClosingAt,
       ObPopped
  <2>g2. ASSUME NEW j \in ObInsts, obWorld'.adapter = "off" PROVE ObOffAt(j)'
    BY <2>e, <1>m1, <2>g2, <1>k, <1>z DEF ObClosesListenEffect, ObPart, ObOffAt
  <2> QED BY <2>g0, <2>g1, <2>g2
<1>m2. CASE ObMainStep /\ Head(obTodo).do = "closeSock"
  <2>e. ObClosesSockEffect BY <1>m2, ObClosesSock
  <2>h. ObPopped BY <1>m2, <2>e, ObPopsHas DEF ObClosesSockEffect
  <2>g0. ObClosingList'
    BY <2>e, <1>m2, <2>h, <1>l, <1>z, <1>n, <1>d DEF ObClosesSockEffect, ObWorldIs, ObClosingList,
       ObPopped
  <2>g1. ASSUME NEW j \in ObInsts, obWorld'.adapter = "closing" PROVE ObClosingAt(j)'
    BY <2>e, <1>m2, <2>g1, <2>h, <1>k, <1>z, <1>d DEF ObClosesSockEffect, ObPart, ObWorldIs,
       ObClosingAt, ObPopped
  <2>g2. ASSUME NEW j \in ObInsts, obWorld'.adapter = "off" PROVE ObOffAt(j)'
    BY <2>e, <1>m2, <2>g2, <1>k, <1>z DEF ObClosesSockEffect, ObPart, ObWorldIs, ObOffAt
  <2> QED BY <2>g0, <2>g1, <2>g2
<1>m3. CASE ObMainStep /\ Head(obTodo).do = "closeSession"
  <2>e. ObClosesSessionEffect BY <1>m3, ObClosesSession
  <2>h. ObPopped BY <1>m3, <2>e, ObPopsHas DEF ObClosesSessionEffect
  <2>g0. ObClosingList'
    BY <2>e, <1>m3, <2>h, <1>l, <1>z, <1>n, <1>d DEF ObClosesSessionEffect, ObWorldIs,
       ObClosingList, ObPopped
  <2>g1. ASSUME NEW j \in ObInsts, obWorld'.adapter = "closing" PROVE ObClosingAt(j)'
    <3>1. ObHas("join", j)' => ObHas("closeSession", j)'
      BY <2>e, <2>g0, <2>g1, ObEndsHasNext DEF ObClosesSessionEffect, ObWorldIs, ObClosingList
    <3>2. ObHas("join", j)' \/ ob[j].pc = "none"
      BY <2>e, <2>g1, <2>h, <1>k, <1>m3 DEF ObClosesSessionEffect, ObWorldIs, ObClosingAt, ObPopped
    <3>3. ob'[j].pc = ob[j].pc BY <2>e DEF ObClosesSessionEffect, ObPart
    <3>4. CASE ObHas("closeSession", j)'
      BY <3>2, <3>3, <3>4, <2>e, <2>g1, <2>h, <1>k, <1>m3 DEF ObClosesSessionEffect, ObPart,
         ObWorldIs, ObClosingAt, ObPopped
    <3>5. CASE ~ObHas("closeSession", j)'
      BY <3>1, <3>2, <3>3, <3>5, <2>e, <2>g1, <2>h, <1>k, <1>m3 DEF ObClosesSessionEffect, ObPart,
         ObWorldIs, ObClosingAt, ObPopped
    <3>6. QED BY <3>4, <3>5
  <2>g2. ASSUME NEW j \in ObInsts, obWorld'.adapter = "off" PROVE ObOffAt(j)'
    BY <2>e, <1>m3, <2>g2, <1>k, <1>z DEF ObClosesSessionEffect, ObPart, ObWorldIs, ObOffAt
  <2> QED BY <2>g0, <2>g1, <2>g2
<1>m4. CASE ObMainStep /\ Head(obTodo).do = "stop"
  <2>e. ObStopsThreadEffect BY <1>m4, ObStopsThread
  <2>h. ObPopped BY <1>m4, <2>e, ObPopsHas DEF ObStopsThreadEffect
  <2>g0. ObClosingList'
    BY <2>e, <1>m4, <2>h, <1>l, <1>z, <1>n, <1>d DEF ObStopsThreadEffect, ObClosingList, ObPopped
  <2>g1. ASSUME NEW j \in ObInsts, obWorld'.adapter = "closing" PROVE ObClosingAt(j)'
    BY <2>e, <1>m4, <2>g1, <2>h, <1>k, <1>z, <1>d DEF ObStopsThreadEffect, ObPart, ObClosingAt,
       ObPopped
  <2>g2. ASSUME NEW j \in ObInsts, obWorld'.adapter = "off" PROVE ObOffAt(j)'
    BY <2>e, <1>m4, <2>g2, <1>k, <1>z DEF ObStopsThreadEffect, ObPart, ObOffAt
  <2> QED BY <2>g0, <2>g1, <2>g2
<1>m5. CASE ObMainStep /\ Head(obTodo).do = "join"
  <2>e. ObJoinsThreadEffect BY <1>m5, ObJoinsThread
  <2>h. ObPopped BY <1>m5, <2>e, ObPopsHas DEF ObJoinsThreadEffect
  <2>g0. ObClosingList'
    BY <2>e, <1>m5, <2>h, <1>l, <1>z, <1>n, <1>d DEF ObJoinsThreadEffect, ObClosingList, ObPopped
  <2>g1. ASSUME NEW j \in ObInsts, obWorld'.adapter = "closing" PROVE ObClosingAt(j)'
    BY <2>e, <1>m5, <2>g1, <2>h, <1>k, <1>z, <1>d DEF ObJoinsThreadEffect, ObPart, ObClosingAt,
       ObPopped
  <2>g2. ASSUME NEW j \in ObInsts, obWorld'.adapter = "off" PROVE ObOffAt(j)'
    BY <2>e, <1>m5, <2>g2, <1>k, <1>z DEF ObJoinsThreadEffect, ObPart, ObOffAt
  <2> QED BY <2>g0, <2>g1, <2>g2
<1>m6. CASE ObMainStep /\ Head(obTodo).do = "listen"
  <2>e. ObListensEffect BY <1>m6, ObListens
  <2>h. ObPopped BY <1>m6, <2>e, ObPopsHas DEF ObListensEffect
  <2>g0. ObClosingList'
    BY <2>e, <1>m6, <2>h, <1>l, <1>z, <1>n, <1>d DEF ObListensEffect, ObClosingList, ObPopped
  <2>g1. ASSUME NEW j \in ObInsts, obWorld'.adapter = "closing" PROVE ObClosingAt(j)'
    BY <2>e, <1>m6, <2>g1, <2>h, <1>k, <1>z, <1>d DEF ObListensEffect, ObPart, ObClosingAt, ObPopped
  <2>g2. ASSUME NEW j \in ObInsts, obWorld'.adapter = "off" PROVE ObOffAt(j)'
    BY <2>e, <1>m6, <2>g2, <1>k, <1>z DEF ObListensEffect, ObPart, ObOffAt
  <2> QED BY <2>g0, <2>g1, <2>g2
<1>m7. CASE ObMainStep /\ Head(obTodo).do = "removeTimeouts"
  <2>e. ObRemovesTimeoutsEffect BY <1>m7, ObRemovesTimeouts
  <2>h. ObPopped BY <1>m7, <2>e, ObPopsHas DEF ObRemovesTimeoutsEffect
  <2>g0. ObClosingList'
    BY <2>e, <1>m7, <2>h, <1>l, <1>z, <1>n, <1>d DEF ObRemovesTimeoutsEffect, ObClosingList,
       ObPopped
  <2>g1. ASSUME NEW j \in ObInsts, obWorld'.adapter = "closing" PROVE ObClosingAt(j)'
    BY <2>e, <1>m7, <2>g1, <2>h, <1>k, <1>z, <1>d DEF ObRemovesTimeoutsEffect, ObClosingAt, ObPopped
  <2>g2. ASSUME NEW j \in ObInsts, obWorld'.adapter = "off" PROVE ObOffAt(j)'
    BY <2>e, <1>m7, <2>g2, <1>k, <1>z DEF ObRemovesTimeoutsEffect, ObOffAt
  <2> QED BY <2>g0, <2>g1, <2>g2
<1>m8. CASE ObMainStep /\ Head(obTodo).do = "off"
  <2>e. ObTurnedOffEffect BY <1>m8, ObTurnedOff
  <2>h. ObPopped BY <1>m8, <2>e, ObPopsHas DEF ObTurnedOffEffect
  <2>g0. ObClosingList'
    BY <2>e, <2>h, <1>m8, ObTaskIs DEF ObTurnedOffEffect, ObWorldIs, ObClosingList, ObPopped,
       ObAfter
  <2>g1. ASSUME NEW j \in ObInsts, obWorld'.adapter = "closing" PROVE ObClosingAt(j)'
    BY <2>e, <1>m8, <2>g1, <2>h, <1>k, <1>z, <1>d DEF ObTurnedOffEffect, ObWorldIs, ObClosingAt,
       ObPopped
  <2>g2. ASSUME NEW j \in ObInsts, obWorld'.adapter = "off" PROVE ObOffAt(j)'
    <3>1. ~ObHas("closeListen", j)' /\ ~ObHas("join", j)' /\ ~ObHas("closeSession", j)'
      BY <2>h, <1>m8, ObTaskIs DEF ObPopped, ObAfter
    <3>2. obWorld.adapter = "closing" BY <2>h, <1>l, <1>m8 DEF ObPopped, ObClosingList
    <3>3. ~ObHas("closeListen", j) /\ ~ObHas("join", j) /\ ~ObHas("closeSession", j)
      BY <3>1, <2>h, <1>m8 DEF ObPopped
    <3>4. QED BY <2>g2, <3>2, <3>3, <2>e, <1>k DEF ObTurnedOffEffect, ObClosingAt, ObOffAt
  <2> QED BY <2>g0, <2>g1, <2>g2
<1>m9. CASE ObMainStep /\ Head(obTodo).do = "admit"
  <2>e. ObAdmitsEffect BY <1>m9, ObAdmits
  <2>n. PICK n : n = ObAt OBVIOUS
  <2>h. ObPopped \/ ObStopped(n) BY <1>m9, <2>n, <2>e, ObPopsHas, ObStopsHas DEF ObAdmitsEffect
  <2>a. obWorld.adapter = "on" /\ obWorld'.adapter = "on"
    BY <2>e, <2>h, <1>l, <1>m9 DEF ObAdmitsEffect, ObWorldIs, ObClosingList, ObPopped, ObStopped
  <2>g0. ObClosingList'
    BY <2>e, <1>m9, <2>h, <1>l, <1>z, <1>n, <1>d DEF ObAdmitsEffect, ObWorldIs, ObClosingList,
       ObPopped, ObStopped
  <2>g1. ASSUME NEW j \in ObInsts, obWorld'.adapter = "closing" PROVE ObClosingAt(j)'
    BY <2>a, <2>g1
  <2>g2. ASSUME NEW j \in ObInsts, obWorld'.adapter = "off" PROVE ObOffAt(j)'
    BY <2>a, <2>g2
  <2> QED BY <2>g0, <2>g1, <2>g2
<1>m10. CASE ObMainStep /\ Head(obTodo).do = "refuse"
  <2>e. ObRefusesEffect BY <1>m10, ObRefuses
  <2>n. PICK n : n = ObAt OBVIOUS
  <2>h. ObPopped \/ ObStopped(n) BY <1>m10, <2>n, <2>e, ObPopsHas, ObStopsHas DEF ObRefusesEffect
  <2>g0. ObClosingList'
    BY <2>e, <1>m10, <2>h, <1>l, <1>z, <1>n, <1>d DEF ObRefusesEffect, ObClosingList, ObPopped,
       ObStopped
  <2>g1. ASSUME NEW j \in ObInsts, obWorld'.adapter = "closing" PROVE ObClosingAt(j)'
    BY <2>e, <2>g1, <2>h, <1>l, <1>d, <1>m10 DEF ObRefusesEffect, ObClosingList, ObPopped, ObStopped
  <2>g2. ASSUME NEW j \in ObInsts, obWorld'.adapter = "off" PROVE ObOffAt(j)'
    BY <2>e, <1>m10, <2>g2, <1>k, <1>z DEF ObRefusesEffect, ObPart, ObOffAt
  <2> QED BY <2>g0, <2>g1, <2>g2
<1>m. CASE ObMainStep
  BY <1>m, <1>m1, <1>m2, <1>m3, <1>m4, <1>m5, <1>m6, <1>m7, <1>m8, <1>m9, <1>m10, ObHead DEF ObDos
<1>a1. CASE \E i \in ObInsts : ObCreate(i)
  <2>1. PICK i \in ObInsts : ObCreate(i) BY <1>a1
  <2>e. ObCreateEffect(i) BY <2>1, ObCreateDoes
  <2>h. ObSameTodo BY <2>e, ObTodoSame DEF ObCreateEffect
  <2>g0. ObClosingList'
    BY <2>e, <2>h, <1>l, <1>z, <1>n, <1>d DEF ObCreateEffect, ObClosingList, ObSameTodo
  <2>g1. ASSUME NEW j \in ObInsts, obWorld'.adapter = "closing" PROVE ObClosingAt(j)'
    BY <2>e, <2>g1, <2>h, <1>k, <1>z, <1>d DEF ObCreateEffect, ObPart, ObClosingAt, ObSameTodo
  <2>g2. ASSUME NEW j \in ObInsts, obWorld'.adapter = "off" PROVE ObOffAt(j)'
    BY <2>e, <2>g2, <1>k, <1>z DEF ObCreateEffect, ObPart, ObOffAt
  <2> QED BY <2>g0, <2>g1, <2>g2
<1>a2. CASE \E i \in ObInsts : ObLoop(i)
  <2>1. PICK i \in ObInsts : ObLoop(i) BY <1>a2
  <2>e. ObLoopEffect(i) BY <2>1, ObLoopDoes
  <2>h. ObSameTodo BY <2>e, ObTodoSame DEF ObLoopEffect
  <2>g0. ObClosingList'
    BY <2>e, <2>h, <1>l, <1>z, <1>n, <1>d DEF ObLoopEffect, ObClosingList, ObSameTodo
  <2>g1. ASSUME NEW j \in ObInsts, obWorld'.adapter = "closing" PROVE ObClosingAt(j)'
    BY <2>e, <2>g1, <2>h, <1>k, <1>z, <1>d DEF ObLoopEffect, ObPart, ObClosingAt, ObSameTodo
  <2>g2. ASSUME NEW j \in ObInsts, obWorld'.adapter = "off" PROVE ObOffAt(j)'
    BY <2>e, <2>g2, <1>k, <1>z DEF ObLoopEffect, ObPart, ObOffAt
  <2> QED BY <2>g0, <2>g1, <2>g2
<1>a3. CASE \E i \in ObInsts : ObAcceptFails(i)
  <2>1. PICK i \in ObInsts : ObAcceptFails(i) BY <1>a3
  <2>e. ObAcceptFailsEffect(i) BY <2>1, ObAcceptFailsDoes
  <2>h. ObSameTodo BY <2>e, ObTodoSame DEF ObAcceptFailsEffect
  <2>g0. ObClosingList'
    BY <2>e, <2>h, <1>l, <1>z, <1>n, <1>d DEF ObAcceptFailsEffect, ObClosingList, ObSameTodo
  <2>g1. ASSUME NEW j \in ObInsts, obWorld'.adapter = "closing" PROVE ObClosingAt(j)'
    BY <2>e, <2>g1, <2>h, <1>k, <1>z, <1>d DEF ObAcceptFailsEffect, ObPart, ObClosingAt, ObSameTodo
  <2>g2. ASSUME NEW j \in ObInsts, obWorld'.adapter = "off" PROVE ObOffAt(j)'
    BY <2>e, <2>g2, <1>k, <1>z DEF ObAcceptFailsEffect, ObPart, ObOffAt
  <2> QED BY <2>g0, <2>g1, <2>g2
<1>a4. CASE \E i \in ObInsts : ObRemote(i)
  <2>1. PICK i \in ObInsts : ObRemote(i) BY <1>a4
  <2>e. ObRemoteEffect(i) BY <2>1, ObRemoteDoes
  <2>h. ObSameTodo BY <2>e, ObTodoSame DEF ObRemoteEffect
  <2>g0. ObClosingList'
    BY <2>e, <2>h, <1>l, <1>z, <1>n, <1>d DEF ObRemoteEffect, ObClosingList, ObSameTodo
  <2>g1. ASSUME NEW j \in ObInsts, obWorld'.adapter = "closing" PROVE ObClosingAt(j)'
    BY <2>e, <2>g1, <2>h, <1>k, <1>z, <1>d DEF ObRemoteEffect, ObPart, ObClosingAt, ObSameTodo
  <2>g2. ASSUME NEW j \in ObInsts, obWorld'.adapter = "off" PROVE ObOffAt(j)'
    BY <2>e, <2>g2, <1>k, <1>z DEF ObRemoteEffect, ObPart, ObOffAt
  <2> QED BY <2>g0, <2>g1, <2>g2
<1>a5. CASE \E i \in ObInsts : ObCheck(i)
  <2>1. PICK i \in ObInsts : ObCheck(i) BY <1>a5
  <2>e. ObCheckEffect(i) BY <2>1, ObCheckDoes
  <2>h. ObSameTodo BY <2>e, ObTodoSame DEF ObCheckEffect
  <2>g0. ObClosingList'
    BY <2>e, <2>h, <1>l, <1>z, <1>n, <1>d DEF ObCheckEffect, ObWorldIs, ObClosingList, ObSameTodo
  <2>g1. ASSUME NEW j \in ObInsts, obWorld'.adapter = "closing" PROVE ObClosingAt(j)'
    BY <2>e, <2>g1, <2>h, <1>k, <1>z, <1>d DEF ObCheckEffect, ObPart, ObWorldIs, ObClosingAt,
       ObSameTodo
  <2>g2. ASSUME NEW j \in ObInsts, obWorld'.adapter = "off" PROVE ObOffAt(j)'
    BY <2>e, <2>g2, <1>k, <1>z DEF ObCheckEffect, ObPart, ObWorldIs, ObOffAt
  <2> QED BY <2>g0, <2>g1, <2>g2
<1>a6. CASE \E i \in ObInsts : ObTrust(i)
  <2>1. PICK i \in ObInsts : ObTrust(i) BY <1>a6
  <2>e. ObTrustEffect(i) BY <2>1, ObTrustDoes
  <2>h. ObSameTodo BY <2>e, ObTodoSame DEF ObTrustEffect
  <2>g0. ObClosingList'
    BY <2>e, <2>h, <1>l, <1>z, <1>n, <1>d DEF ObTrustEffect, ObClosingList, ObSameTodo
  <2>g1. ASSUME NEW j \in ObInsts, obWorld'.adapter = "closing" PROVE ObClosingAt(j)'
    BY <2>e, <2>g1, <2>h, <1>k, <1>z, <1>d DEF ObTrustEffect, ObPart, ObClosingAt, ObSameTodo
  <2>g2. ASSUME NEW j \in ObInsts, obWorld'.adapter = "off" PROVE ObOffAt(j)'
    BY <2>e, <2>g2, <1>k, <1>z DEF ObTrustEffect, ObPart, ObOffAt
  <2> QED BY <2>g0, <2>g1, <2>g2
<1>a7. CASE \E i \in ObInsts : ObJoins(i)
  <2>1. PICK i \in ObInsts : ObJoins(i) BY <1>a7
  <2>e. ObJoinsEffect(i) BY <2>1, ObJoinsDoes
  <2>h. ObSameTodo BY <2>e, ObTodoSame DEF ObJoinsEffect
  <2>g0. ObClosingList'
    BY <2>e, <2>h, <1>l, <1>z, <1>n, <1>d DEF ObJoinsEffect, ObClosingList, ObSameTodo
  <2>g1. ASSUME NEW j \in ObInsts, obWorld'.adapter = "closing" PROVE ObClosingAt(j)'
    BY <2>e, <2>g1, <2>h, <1>k, <1>z, <1>d DEF ObJoinsEffect, ObPart, ObClosingAt, ObSameTodo
  <2>g2. ASSUME NEW j \in ObInsts, obWorld'.adapter = "off" PROVE ObOffAt(j)'
    BY <2>e, <2>g2, <1>k, <1>z DEF ObJoinsEffect, ObPart, ObOffAt
  <2> QED BY <2>g0, <2>g1, <2>g2
<1>a8. CASE \E i \in ObInsts : ObSession(i)
  <2>1. PICK i \in ObInsts : ObSession(i) BY <1>a8
  <2>e. ObSessionEffect(i) BY <2>1, ObSessionDoes
  <2>h. ObSameTodo BY <2>e, ObTodoSame DEF ObSessionEffect
  <2>g0. ObClosingList'
    BY <2>e, <2>h, <1>l, <1>z, <1>n, <1>d DEF ObSessionEffect, ObWorldIs, ObClosingList, ObSameTodo
  <2>g1. ASSUME NEW j \in ObInsts, obWorld'.adapter = "closing" PROVE ObClosingAt(j)'
    BY <2>e, <2>g1, <2>h, <1>k, <1>z, <1>d DEF ObSessionEffect, ObPart, ObWorldIs, ObClosingAt,
       ObSameTodo
  <2>g2. ASSUME NEW j \in ObInsts, obWorld'.adapter = "off" PROVE ObOffAt(j)'
    BY <2>e, <2>g2, <1>k, <1>z DEF ObSessionEffect, ObPart, ObWorldIs, ObOffAt
  <2> QED BY <2>g0, <2>g1, <2>g2
<1>a9. CASE \E i \in ObInsts : ObWait(i)
  <2>1. PICK i \in ObInsts : ObWait(i) BY <1>a9
  <2>e. ObWaitEffect(i) BY <2>1, ObWaitDoes
  <2>h. ObSameTodo BY <2>e, ObTodoSame DEF ObWaitEffect
  <2>g0. ObClosingList'
    BY <2>e, <2>h, <1>l, <1>z, <1>n, <1>d DEF ObWaitEffect, ObWorldIs, ObClosingList, ObSameTodo
  <2>g1. ASSUME NEW j \in ObInsts, obWorld'.adapter = "closing" PROVE ObClosingAt(j)'
    BY <2>e, <2>g1, <2>h, <1>k, <1>z, <1>d DEF ObWaitEffect, ObPart, ObWorldIs, ObClosingAt,
       ObSameTodo
  <2>g2. ASSUME NEW j \in ObInsts, obWorld'.adapter = "off" PROVE ObOffAt(j)'
    BY <2>e, <2>g2, <1>k, <1>z DEF ObWaitEffect, ObPart, ObWorldIs, ObOffAt
  <2> QED BY <2>g0, <2>g1, <2>g2
<1>a10. CASE \E i \in ObInsts : ObTimer(i)
  <2>1. PICK i \in ObInsts : ObTimer(i) BY <1>a10
  <2>e. ObTimerEffect(i) BY <2>1, ObTimerDoes
  <2>h. ObSameTodo BY <2>e, ObTodoSame DEF ObTimerEffect
  <2>g0. ObClosingList'
    BY <2>e, <2>h, <1>l, <1>z, <1>n, <1>d DEF ObTimerEffect, ObClosingList, ObSameTodo
  <2>g1. ASSUME NEW j \in ObInsts, obWorld'.adapter = "closing" PROVE ObClosingAt(j)'
    BY <2>e, <2>g1, <2>h, <1>k, <1>z, <1>d DEF ObTimerEffect, ObPart, ObClosingAt, ObSameTodo
  <2>g2. ASSUME NEW j \in ObInsts, obWorld'.adapter = "off" PROVE ObOffAt(j)'
    BY <2>e, <2>g2, <1>k, <1>z DEF ObTimerEffect, ObPart, ObOffAt
  <2> QED BY <2>g0, <2>g1, <2>g2
<1>a. CASE \E i \in ObInsts : ObAcceptThread(i)
  BY <1>a, <1>a1, <1>a2, <1>a3, <1>a4, <1>a5, <1>a6, <1>a7, <1>a8, <1>a9, <1>a10 DEF ObAcceptThread
<1>o1. CASE ObStartListener
  <2>e. ObStartListenerEffect BY <1>o1, ObStartListenerDoes
  <2>h. \/ obWorld.adapter = "on" /\ \A e, n : ObHas(e, n)' <=> e = "listen" /\ n \in ObInsts
        \/ obWorld.adapter # "on" /\ \A e, n : ObHas(e, n)' <=> e \in ObClosers /\ n \in ObInsts
    BY <2>e, ObHasEach, ObHasClosers DEF ObStartListenerEffect
  <2>g0. ObClosingList'
    BY <2>e, <2>h, <1>l, <1>z, <1>n, <1>d DEF ObStartListenerEffect, ObClosingList
  <2>g1. ASSUME NEW j \in ObInsts, obWorld'.adapter = "closing" PROVE ObClosingAt(j)'
    BY <2>e, <2>g1, <2>h, <1>k, <1>z, <1>d DEF ObStartListenerEffect, ObClosingAt
  <2>g2. ASSUME NEW j \in ObInsts, obWorld'.adapter = "off" PROVE ObOffAt(j)'
    BY <2>e, <2>g2, <1>k, <1>z DEF ObStartListenerEffect, ObOffAt
  <2> QED BY <2>g0, <2>g1, <2>g2
<1>o2. CASE \E t \in obMain.timeouts : ObUserTimeout(t)
  <2>1. PICK t \in obMain.timeouts : ObUserTimeout(t) BY <1>o2
  <2>e. ObUserTimeoutEffect(t) BY <2>1, ObUserTimeoutDoes
  <2>h. \A e, n : ObHas(e, n)' <=> e = "refuse" /\ n \in ObInsts
    BY <2>e, ObHasEach DEF ObUserTimeoutEffect, ObRefuse
  <2>g0. ObClosingList'
    BY <2>e, <2>h, <1>l, <1>z, <1>n, <1>d DEF ObUserTimeoutEffect, ObClosingList
  <2>g1. ASSUME NEW j \in ObInsts, obWorld'.adapter = "closing" PROVE ObClosingAt(j)'
    BY <2>e, <2>g1, <2>h, <1>k, <1>z, <1>d DEF ObUserTimeoutEffect, ObClosingAt
  <2>g2. ASSUME NEW j \in ObInsts, obWorld'.adapter = "off" PROVE ObOffAt(j)'
    BY <2>e, <2>g2, <1>k, <1>z DEF ObUserTimeoutEffect, ObOffAt
  <2> QED BY <2>g0, <2>g1, <2>g2
<1>o3. CASE \E t \in obMain.closes : ObServerSessionClose(t)
  <2>1. PICK t \in obMain.closes : ObServerSessionClose(t) BY <1>o3
  <2>e. ObServerSessionCloseEffect(t) BY <2>1, ObServerSessionCloseDoes
  <2>n. obTodo' = <<>> => \A e, n : ~ObHas(e, n)' BY ObHasList, ObNoSteps
  <2>h. \/ \A e, n : ObHas(e, n)' <=> e \in ObStoppers /\ n = t[1]
        \/ \A e, n : ~ObHas(e, n)'
    BY <2>e, <2>n, ObHasStopped DEF ObServerSessionCloseEffect
  <2>g0. ObClosingList'
    BY <2>e, <2>h, <1>l, <1>z, <1>n, <1>d DEF ObServerSessionCloseEffect, ObClosingList
  <2>g1. ASSUME NEW j \in ObInsts, obWorld'.adapter = "closing" PROVE ObClosingAt(j)'
    BY <2>e, <2>g1, <2>h, <1>k, <1>z, <1>d DEF ObServerSessionCloseEffect, ObClosingAt
  <2>g2. ASSUME NEW j \in ObInsts, obWorld'.adapter = "off" PROVE ObOffAt(j)'
    BY <2>e, <2>g2, <1>k, <1>z DEF ObServerSessionCloseEffect, ObOffAt
  <2> QED BY <2>g0, <2>g1, <2>g2
<1>o4. CASE ObTurnOn
  <2>e. ObTurnOnEffect BY <1>o4, ObTurnOnDoes
  <2>h. ObSameTodo BY <2>e, ObTodoSame DEF ObTurnOnEffect
  <2>g0. ObClosingList'
    BY <2>e, <2>h, <1>l, <1>z, <1>n, <1>d DEF ObTurnOnEffect, ObWorldIs, ObClosingList, ObSameTodo
  <2>g1. ASSUME NEW j \in ObInsts, obWorld'.adapter = "closing" PROVE ObClosingAt(j)'
    BY <2>e, <2>g1, <2>h, <1>k, <1>z, <1>d DEF ObTurnOnEffect, ObWorldIs, ObClosingAt, ObSameTodo
  <2>g2. ASSUME NEW j \in ObInsts, obWorld'.adapter = "off" PROVE ObOffAt(j)'
    BY <2>e, <2>g2, <1>k, <1>z DEF ObTurnOnEffect, ObWorldIs, ObOffAt
  <2> QED BY <2>g0, <2>g1, <2>g2
<1>o5. CASE ObTurnOff
  <2>e. ObTurnOffEffect BY <1>o5, ObTurnOffDoes
  <2>h. /\ \A e, n : ObHas(e, n)' <=> (e \in ObClosers /\ n \in ObInsts) \/ (e = "off" /\ n = 0)
        /\ ObEnds(obTodo)'
    BY <2>e, ObHasClosers DEF ObTurnOffEffect
  <2>g0. ObClosingList'
    BY <2>e, <2>h, <1>l, <1>z, <1>n, <1>d DEF ObTurnOffEffect, ObWorldIs, ObClosingList
  <2>g1. ASSUME NEW j \in ObInsts, obWorld'.adapter = "closing" PROVE ObClosingAt(j)'
    BY <2>e, <2>g1, <2>h, <1>k, <1>z, <1>d DEF ObTurnOffEffect, ObWorldIs, ObClosingAt
  <2>g2. ASSUME NEW j \in ObInsts, obWorld'.adapter = "off" PROVE ObOffAt(j)'
    BY <2>e, <2>g2, <1>k, <1>z DEF ObTurnOffEffect, ObWorldIs, ObOffAt
  <2> QED BY <2>g0, <2>g1, <2>g2
<1>o6. CASE ObSessionGivenUp
  <2>e. ObGivenUpEffect BY <1>o6, ObGivenUpDoes
  <2>h. ObSameTodo \/ \A e, n : ObHas(e, n)' <=> e \in ObStoppers /\ n = 0
    BY <2>e, <1>i, ObTodoSame, ObHasStopped DEF ObGivenUpEffect
  <2>g0. ObClosingList'
    BY <2>e, <2>h, <1>l, <1>z, <1>n, <1>d DEF ObGivenUpEffect, ObClosingList, ObSameTodo
  <2>g1. ASSUME NEW j \in ObInsts, obWorld'.adapter = "closing" PROVE ObClosingAt(j)'
    BY <2>e, <2>g1, <2>h, <1>k, <1>z, <1>d DEF ObGivenUpEffect, ObClosingAt, ObSameTodo
  <2>g2. ASSUME NEW j \in ObInsts, obWorld'.adapter = "off" PROVE ObOffAt(j)'
    BY <2>e, <2>g2, <1>k, <1>z DEF ObGivenUpEffect, ObOffAt
  <2> QED BY <2>g0, <2>g1, <2>g2
<1>o7. CASE \E d \in ObDevices : ObAclDisconnected(d)
  <2>1. PICK d \in ObDevices : ObAclDisconnected(d) BY <1>o7
  <2>e. ObAclEffect(d) BY <2>1, ObAclDoes
  <2>h. ObSameTodo \/ \A e, n : ObHas(e, n)' <=> e \in {"refuse", "removeTimeouts"} /\ n = 0
    BY <2>e, ObTodoSame, ObHasRefused DEF ObAclEffect
  <2>g0. ObClosingList'
    BY <2>e, <2>h, <1>l, <1>z, <1>n, <1>d DEF ObAclEffect, ObClosingList, ObSameTodo
  <2>g1. ASSUME NEW j \in ObInsts, obWorld'.adapter = "closing" PROVE ObClosingAt(j)'
    BY <2>e, <2>g1, <2>h, <1>k, <1>z, <1>d DEF ObAclEffect, ObClosingAt, ObSameTodo
  <2>g2. ASSUME NEW j \in ObInsts, obWorld'.adapter = "off" PROVE ObOffAt(j)'
    BY <2>e, <2>g2, <1>k, <1>z DEF ObAclEffect, ObOffAt
  <2> QED BY <2>g0, <2>g1, <2>g2
<1>o8. CASE \E c \in ObConn : ObAllowed(c)
  <2>1. PICK c \in ObConn : ObAllowed(c) BY <1>o8
  <2>e. ObAllowedEffect(c) BY <2>1, ObAllowedDoes
  <2>n. obTodo' = <<>> => \A e, n : ~ObHas(e, n)' BY ObHasList, ObNoSteps
  <2>h. \/ \A e, n : ~ObHas(e, n)'
        \/ \A e, n : ObHas(e, n)' <=> (e = "admit" /\ n \in ObInsts) \/ (e = "removeTimeouts" /\ n = 0)
    BY <2>e, <2>n, ObHasEach DEF ObAllowedEffect
  <2>g0. ObClosingList'
    BY <2>e, <2>h, <1>l, <1>z, <1>n, <1>d DEF ObAllowedEffect, ObWorldIs, ObClosingList
  <2>g1. ASSUME NEW j \in ObInsts, obWorld'.adapter = "closing" PROVE ObClosingAt(j)'
    BY <2>e, <2>g1, <2>h, <1>k, <1>z, <1>d DEF ObAllowedEffect, ObWorldIs, ObClosingAt
  <2>g2. ASSUME NEW j \in ObInsts, obWorld'.adapter = "off" PROVE ObOffAt(j)'
    BY <2>e, <2>g2, <1>k, <1>z DEF ObAllowedEffect, ObWorldIs, ObOffAt
  <2> QED BY <2>g0, <2>g1, <2>g2
<1>o9. CASE \E c \in ObConn : ObDisallowed(c)
  <2>1. PICK c \in ObConn : ObDisallowed(c) BY <1>o9
  <2>e. ObDisallowedEffect(c) BY <2>1, ObDisallowedDoes
  <2>h. \A e, n : ObHas(e, n)' <=> (e = "refuse" /\ n \in ObInsts) \/ (e = "removeTimeouts" /\ n = 0)
    BY <2>e, ObHasEach DEF ObDisallowedEffect, ObRefuse
  <2>g0. ObClosingList'
    BY <2>e, <2>h, <1>l, <1>z, <1>n, <1>d DEF ObDisallowedEffect, ObWorldIs, ObClosingList
  <2>g1. ASSUME NEW j \in ObInsts, obWorld'.adapter = "closing" PROVE ObClosingAt(j)'
    BY <2>e, <2>g1, <2>h, <1>k, <1>z, <1>d DEF ObDisallowedEffect, ObWorldIs, ObClosingAt
  <2>g2. ASSUME NEW j \in ObInsts, obWorld'.adapter = "off" PROVE ObOffAt(j)'
    BY <2>e, <2>g2, <1>k, <1>z DEF ObDisallowedEffect, ObWorldIs, ObOffAt
  <2> QED BY <2>g0, <2>g1, <2>g2
<1>o10. CASE \E c \in ObConn : ObLinkLost(c)
  <2>1. PICK c \in ObConn : ObLinkLost(c) BY <1>o10
  <2>e. ObLinkLostEffect(c) BY <2>1, ObLinkLostDoes
  <2>h. ObSameTodo BY <2>e, ObTodoSame DEF ObLinkLostEffect
  <2>g0. ObClosingList'
    BY <2>e, <2>h, <1>l, <1>z, <1>n, <1>d DEF ObLinkLostEffect, ObWorldIs, ObClosingList, ObSameTodo
  <2>g1. ASSUME NEW j \in ObInsts, obWorld'.adapter = "closing" PROVE ObClosingAt(j)'
    BY <2>e, <2>g1, <2>h, <1>k, <1>z, <1>d DEF ObLinkLostEffect, ObWorldIs, ObClosingAt, ObSameTodo
  <2>g2. ASSUME NEW j \in ObInsts, obWorld'.adapter = "off" PROVE ObOffAt(j)'
    BY <2>e, <2>g2, <1>k, <1>z DEF ObLinkLostEffect, ObWorldIs, ObOffAt
  <2> QED BY <2>g0, <2>g1, <2>g2
<1>o11. CASE \E i \in ObInsts, d \in ObDevices, trust \in BOOLEAN : ObConnects(i, d, trust)
  <2>1. PICK i \in ObInsts, d \in ObDevices, trust \in BOOLEAN : ObConnects(i, d, trust) BY <1>o11
  <2>e. ObConnectsEffect(i, d, trust) BY <2>1, ObConnectsDoes
  <2>h. ObSameTodo BY <2>e, ObTodoSame DEF ObConnectsEffect
  <2>g0. ObClosingList'
    BY <2>e, <2>h, <1>l, <1>z, <1>n, <1>d DEF ObConnectsEffect, ObWorldIs, ObClosingList, ObSameTodo
  <2>g1. ASSUME NEW j \in ObInsts, obWorld'.adapter = "closing" PROVE ObClosingAt(j)'
    BY <2>e, <2>g1, <2>h, <1>k, <1>z, <1>d DEF ObConnectsEffect, ObPart, ObWorldIs, ObClosingAt,
       ObSameTodo
  <2>g2. ASSUME NEW j \in ObInsts, obWorld'.adapter = "off" PROVE ObOffAt(j)'
    BY <2>e, <2>g2, <1>k, <1>z DEF ObConnectsEffect, ObPart, ObWorldIs, ObOffAt
  <2> QED BY <2>g0, <2>g1, <2>g2
<1>o12. CASE \E c \in obWorld.alive : ObSessionEnds(c)
  <2>1. PICK c \in obWorld.alive : ObSessionEnds(c) BY <1>o12
  <2>2. c \in ObConn BY DEF ObNamed, ObNames
  <2>e. ObSessionEndsEffect(c) BY <2>1, ObSessionEndsDoes, <2>2
  <2>h. ObSameTodo BY <2>e, ObTodoSame DEF ObSessionEndsEffect
  <2>g0. ObClosingList'
    BY <2>e, <2>h, <1>l, <1>z, <1>n, <1>d DEF ObSessionEndsEffect, ObWorldIs, ObClosingList,
       ObSameTodo
  <2>g1. ASSUME NEW j \in ObInsts, obWorld'.adapter = "closing" PROVE ObClosingAt(j)'
    BY <2>e, <2>g1, <2>h, <1>k, <1>z, <1>d DEF ObSessionEndsEffect, ObWorldIs, ObClosingAt,
       ObSameTodo
  <2>g2. ASSUME NEW j \in ObInsts, obWorld'.adapter = "off" PROVE ObOffAt(j)'
    BY <2>e, <2>g2, <1>k, <1>z DEF ObSessionEndsEffect, ObWorldIs, ObOffAt
  <2> QED BY <2>g0, <2>g1, <2>g2
<1>q. QED
  BY <1>m, <1>a, <1>o1, <1>o2, <1>o3, <1>o4, <1>o5, <1>o6, <1>o7, <1>o8, <1>o9, <1>o10, <1>o11,
     <1>o12 DEF ObRuns, ObHandler, ObEnvironment

\* MSG_INTERNAL_START_LISTENER is queued: nothing has happened yet.
ObStarts ==
  obMain.start =>
    /\ ObConn = {}
    /\ \A i \in ObInsts : ob[i].pc = "none"
    /\ \A d, i : ObHas(d, i) => d \in ObClosers \cup {"off"}

\* FTP: the connection is closed when the thread is joined, a listener is
\* started when the connection is closed, and a thread that has none accepts.
ObFtp ==
  /\ obTodo # <<>> /\ Head(obTodo).do = "closeSock" => ob[0].pc = "none"
  /\ obTodo # <<>> /\ Head(obTodo).do = "listen" => ob[0].pc = "none" /\ ob[0].sock = 0
  /\ ob[0].sock # 0 => ob[0].pc \notin {"create", "loop", "blocked"}

\* FTP: the next step of the list fits the one that is done.
LEMMA ObPopsNext ==
  ASSUME ObTyped, ObShape(obTodo), ObMainStep, ObPops, Ftp, obTodo' # <<>>
  PROVE  ObNextTo(Head(obTodo), Head(obTodo)')
<1>1. obTodo \in Seq(ObStepSet) /\ obTodo # <<>> BY ObHead DEF ObTyped
<1>2. obTodo' = Tail(obTodo) BY DEF ObPops
<1>3. ObNextTo(Head(obTodo), Head(Tail(obTodo))) BY <1>1, <1>2, ObShapeTail
<1>4. QED BY <1>2, <1>3

\* The list holds its first step.
LEMMA ObHeadHas ==
  ASSUME NEW S, obTodo' \in Seq(S), obTodo' # <<>>, NEW d, NEW i, Head(obTodo)' = ObTask(d, i)
  PROVE  ObHas(d, i)'
<1>1. ObIn(obTodo', Head(obTodo')) BY ObInTail
<1>2. PICK s : s = obTodo' OBVIOUS
<1>3. \A e, j : ObHas(e, j)' <=> ObIn(s, ObTask(e, j)) BY <1>2, ObHasList
<1>4. QED BY <1>1, <1>2, <1>3

\* The first step of a list of FTP.
LEMMA ObFirst ==
  ASSUME ObTyped, Ftp
  PROVE  /\ \A i \in ObInsts : obTodo' = stopObexServerSession(i) =>
            Head(obTodo)'.do = "closeSession"
         /\ obTodo' = ObCloseAll => Head(obTodo)'.do = "closeListen"
         /\ obTodo' = ObCloseAll \o (IF Ftp THEN closeConnection(0) ELSE <<>>) \o ObDo("off", 0) =>
              Head(obTodo)'.do = "closeListen"
<1>1. ASSUME NEW i \in ObInsts, obTodo' = stopObexServerSession(i)
      PROVE Head(obTodo)'.do = "closeSession"
  <2>1. /\ stopObexServerSession(i) \in Seq(ObStepSet) /\ Len(stopObexServerSession(i)) = 5
        /\ stopObexServerSession(i)[1] = ObTask("closeSession", i)
    BY ObStopList
  <2>2. Head(stopObexServerSession(i)) = ObTask("closeSession", i) BY <2>1
  <2>3. QED BY <1>1, <2>2, ObTaskIs
<1>2. /\ closeConnection(0) \in Seq(ObStepSet) /\ Len(closeConnection(0)) = 5
      /\ closeConnection(0)[1] = ObTask("closeListen", 0) /\ ObCloseAll = closeConnection(0)
  BY ObCloseList, ObCloseAllList, ObInstsAre
<1>3. Head(closeConnection(0)) = ObTask("closeListen", 0) BY <1>2
<1>4. ObDo("off", 0) \in Seq(ObStepSet) BY ObInstsAre, ObOneStep DEF ObDos
<1> DEFINE a == closeConnection(0)
           b == IF Ftp THEN closeConnection(0) ELSE <<>>
           r == ObDo("off", 0)
<1>5. b \in Seq(ObStepSet) BY <1>2
<1>a. a \in Seq(ObStepSet) /\ Len(a) = 5 /\ a[1] = ObTask("closeListen", 0) BY <1>2
<1> HIDE DEF a, b, r
<1>6. a \o b \in Seq(ObStepSet) /\ Len(a \o b) = 5 + Len(b) /\ (a \o b)[1] = a[1] /\ Len(b) \in Nat
  <2>1. 1 \in 1..Len(a) /\ Len(b) \in Nat BY <1>a, <1>5
  <2>2. a \in Seq(ObStepSet) /\ b \in Seq(ObStepSet) BY <1>a, <1>5
  <2>3. a \o b \in Seq(ObStepSet) /\ Len(a \o b) = Len(a) + Len(b)
        /\ \A k \in 1..Len(a) : (a \o b)[k] = a[k]
    BY <2>2, ObConcat
  <2>4. QED BY <2>1, <2>3, <1>a
<1>r. r \in Seq(ObStepSet) BY <1>4 DEF r
<1>7. (a \o b) \o r \in Seq(ObStepSet) /\ Len((a \o b) \o r) >= 5
      /\ ((a \o b) \o r)[1] = (a \o b)[1]
  <2> DEFINE u == a \o b
  <2>1. u \in Seq(ObStepSet) /\ Len(u) >= 5 BY <1>6
  <2> HIDE DEF u
  <2>2. Len(r) \in Nat BY <1>r
  <2>3. u \o r \in Seq(ObStepSet) /\ Len(u \o r) = Len(u) + Len(r) /\ (u \o r)[1] = u[1]
    BY <2>1, <1>r
  <2>4. QED BY <2>1, <2>2, <2>3 DEF u
<1>8. Head((a \o b) \o r) = ObTask("closeListen", 0) BY <1>a, <1>6, <1>7
<1>9. QED BY <1>1, <1>2, <1>3, <1>8, ObTaskIs DEF a, b, r

\* FTP: a refused connection begins with closing its session.
LEMMA ObFirstStop ==
  ASSUME ObTyped, ObShape(obTodo), ObMainStep, ObStops(ObAt), Ftp, Head(obTodo).do \in {"refuse", "admit"}
  PROVE  Head(obTodo)'.do = "closeSession"
<1>1. obTodo \in Seq(ObStepSet) /\ obTodo # <<>> /\ ObAt \in ObInsts BY ObHead DEF ObTyped, ObAt
<1> DEFINE t == stopObexServerSession(ObAt) \o Tail(obTodo)
<1>2. t \in Seq(ObStepSet) /\ t # <<>> /\ t[1] = ObTask("closeSession", ObAt) BY <1>1, ObStopThen
<1>3. obTodo' = t BY DEF ObStops
<1> HIDE DEF t
<1>4. Head(t) = ObTask("closeSession", ObAt) BY <1>2
<1>5. QED BY <1>3, <1>4, ObTaskIs

\* Until the first listener is started nothing happens.
LEMMA ObStartsStep ==
  ASSUME ObTyped, ObNamed, ObShape(obTodo), ObClosing, ObStarts, ObRuns
  PROVE  ObStarts'
<1>c. UNCHANGED obConfig BY ObTodoStep
<1>s. ObInsts' = ObInsts /\ Ftp' = Ftp BY <1>c, ObSets
<1>i. 0 \in ObInsts /\ (~Ftp => 1 \in ObInsts) BY ObInstsAre
<1>h. ObMainStep => ObAt \in ObInsts BY ObHead DEF ObAt
<1>n. obTodo = <<>> => \A d, i : ~ObHas(d, i) BY ObHasNothing
<1>e. obWorld'.conns = obWorld.conns => ObConn' = ObConn BY DEF ObConn
<1>w. ObNames BY DEF ObNamed
<1>l. obMain.start => ObConn = {} /\ (\A i \in ObInsts : ob[i].pc = "none")
      /\ \A d, i : ObHas(d, i) => d \in ObClosers \cup {"off"}
  BY DEF ObStarts
<1>d. ObClosers = {"closeListen", "stop", "join", "closeSock", "closeSession"}
  BY DEF ObClosers
<1> SUFFICES ASSUME obMain'.start
             PROVE  /\ ObConn' = {} /\ \A i \in ObInsts : ob'[i].pc = "none"
                    /\ \A d, i : ObHas(d, i)' => d \in ObClosers \cup {"off"}
  BY <1>s DEF ObStarts
<1>m1. CASE ObMainStep /\ Head(obTodo).do = "closeListen"
  <2>e. ObClosesListenEffect BY <1>m1, ObClosesListen
  <2>h. ObPopped BY <1>m1, <2>e, ObPopsHas DEF ObClosesListenEffect
  <2>g0. ObConn' = {} /\ \A k \in ObInsts : ob'[k].pc = "none"
    BY <2>e, <1>m1, <1>e, <1>l, <1>h DEF ObClosesListenEffect, ObPart
  <2>g1. \A e, k : ObHas(e, k)' => e \in ObClosers \cup {"off"}
    BY <2>e, <1>m1, <2>h, <1>l, <1>n DEF ObClosesListenEffect, ObPopped
  <2> QED BY <2>g0, <2>g1
<1>m2. CASE ObMainStep /\ Head(obTodo).do = "closeSock"
  <2>e. ObClosesSockEffect BY <1>m2, ObClosesSock
  <2>h. ObPopped BY <1>m2, <2>e, ObPopsHas DEF ObClosesSockEffect
  <2>g0. ObConn' = {} /\ \A k \in ObInsts : ob'[k].pc = "none"
    BY <2>e, <1>m2, <1>e, <1>l, <1>h DEF ObClosesSockEffect, ObPart, ObWorldIs
  <2>g1. \A e, k : ObHas(e, k)' => e \in ObClosers \cup {"off"}
    BY <2>e, <1>m2, <2>h, <1>l, <1>n DEF ObClosesSockEffect, ObPopped
  <2> QED BY <2>g0, <2>g1
<1>m3. CASE ObMainStep /\ Head(obTodo).do = "closeSession"
  <2>e. ObClosesSessionEffect BY <1>m3, ObClosesSession
  <2>h. ObPopped BY <1>m3, <2>e, ObPopsHas DEF ObClosesSessionEffect
  <2>g0. ObConn' = {} /\ \A k \in ObInsts : ob'[k].pc = "none"
    BY <2>e, <1>m3, <1>e, <1>l, <1>h DEF ObClosesSessionEffect, ObPart, ObMainIs, ObWorldIs
  <2>g1. \A e, k : ObHas(e, k)' => e \in ObClosers \cup {"off"}
    BY <2>e, <1>m3, <2>h, <1>l, <1>n DEF ObClosesSessionEffect, ObMainIs, ObPopped
  <2> QED BY <2>g0, <2>g1
<1>m4. CASE ObMainStep /\ Head(obTodo).do = "stop"
  <2>e. ObStopsThreadEffect BY <1>m4, ObStopsThread
  <2>h. ObPopped BY <1>m4, <2>e, ObPopsHas DEF ObStopsThreadEffect
  <2>g0. ObConn' = {} /\ \A k \in ObInsts : ob'[k].pc = "none"
    BY <2>e, <1>m4, <1>e, <1>l, <1>h DEF ObStopsThreadEffect, ObPart
  <2>g1. \A e, k : ObHas(e, k)' => e \in ObClosers \cup {"off"}
    BY <2>e, <1>m4, <2>h, <1>l, <1>n DEF ObStopsThreadEffect, ObPopped
  <2> QED BY <2>g0, <2>g1
<1>m5. CASE ObMainStep /\ Head(obTodo).do = "join"
  <2>e. ObJoinsThreadEffect BY <1>m5, ObJoinsThread
  <2>h. ObPopped BY <1>m5, <2>e, ObPopsHas DEF ObJoinsThreadEffect
  <2>g0. ObConn' = {} /\ \A k \in ObInsts : ob'[k].pc = "none"
    BY <2>e, <1>m5, <1>e, <1>l, <1>h DEF ObJoinsThreadEffect, ObPart
  <2>g1. \A e, k : ObHas(e, k)' => e \in ObClosers \cup {"off"}
    BY <2>e, <1>m5, <2>h, <1>l, <1>n DEF ObJoinsThreadEffect, ObPopped
  <2> QED BY <2>g0, <2>g1
<1>m6. CASE ObMainStep /\ Head(obTodo).do = "listen"
  <2>e. ObListensEffect BY <1>m6, ObListens
  <2>h. ObPopped BY <1>m6, <2>e, ObPopsHas DEF ObListensEffect
  <2>g0. ObConn' = {} /\ \A k \in ObInsts : ob'[k].pc = "none"
    BY <2>e, <2>h, <1>m6, <1>e, <1>l, <1>d DEF ObListensEffect, ObPopped
  <2>g1. \A e, k : ObHas(e, k)' => e \in ObClosers \cup {"off"}
    BY <2>e, <1>m6, <2>h, <1>l, <1>n DEF ObListensEffect, ObPopped
  <2> QED BY <2>g0, <2>g1
<1>m7. CASE ObMainStep /\ Head(obTodo).do = "removeTimeouts"
  <2>e. ObRemovesTimeoutsEffect BY <1>m7, ObRemovesTimeouts
  <2>h. ObPopped BY <1>m7, <2>e, ObPopsHas DEF ObRemovesTimeoutsEffect
  <2>g0. ObConn' = {} /\ \A k \in ObInsts : ob'[k].pc = "none"
    BY <2>e, <1>m7, <1>e, <1>l, <1>h DEF ObRemovesTimeoutsEffect, ObMainIs
  <2>g1. \A e, k : ObHas(e, k)' => e \in ObClosers \cup {"off"}
    BY <2>e, <1>m7, <2>h, <1>l, <1>n DEF ObRemovesTimeoutsEffect, ObMainIs, ObPopped
  <2> QED BY <2>g0, <2>g1
<1>m8. CASE ObMainStep /\ Head(obTodo).do = "off"
  <2>e. ObTurnedOffEffect BY <1>m8, ObTurnedOff
  <2>h. ObPopped BY <1>m8, <2>e, ObPopsHas DEF ObTurnedOffEffect
  <2>g0. ObConn' = {} /\ \A k \in ObInsts : ob'[k].pc = "none"
    BY <2>e, <1>m8, <1>e, <1>l, <1>h DEF ObTurnedOffEffect, ObWorldIs
  <2>g1. \A e, k : ObHas(e, k)' => e \in ObClosers \cup {"off"}
    BY <2>e, <1>m8, <2>h, <1>l, <1>n DEF ObTurnedOffEffect, ObPopped
  <2> QED BY <2>g0, <2>g1
<1>m9. CASE ObMainStep /\ Head(obTodo).do = "admit"
  <2>e. ObAdmitsEffect BY <1>m9, ObAdmits
  <2>n. PICK n : n = ObAt OBVIOUS
  <2>h. ObPopped \/ ObStopped(n) BY <1>m9, <2>n, <2>e, ObPopsHas, ObStopsHas DEF ObAdmitsEffect
  <2>a. FALSE BY <2>e, <2>h, <1>l, <1>d, <1>m9 DEF ObAdmitsEffect, ObPopped, ObStopped
  <2>g0. ObConn' = {} /\ \A k \in ObInsts : ob'[k].pc = "none"
    BY <2>a
  <2>g1. \A e, k : ObHas(e, k)' => e \in ObClosers \cup {"off"}
    BY <2>a
  <2> QED BY <2>g0, <2>g1
<1>m10. CASE ObMainStep /\ Head(obTodo).do = "refuse"
  <2>e. ObRefusesEffect BY <1>m10, ObRefuses
  <2>n. PICK n : n = ObAt OBVIOUS
  <2>h. ObPopped \/ ObStopped(n) BY <1>m10, <2>n, <2>e, ObPopsHas, ObStopsHas DEF ObRefusesEffect
  <2>a. FALSE BY <2>e, <2>h, <1>l, <1>d, <1>m10 DEF ObRefusesEffect, ObPopped, ObStopped
  <2>g0. ObConn' = {} /\ \A k \in ObInsts : ob'[k].pc = "none"
    BY <2>a
  <2>g1. \A e, k : ObHas(e, k)' => e \in ObClosers \cup {"off"}
    BY <2>a
  <2> QED BY <2>g0, <2>g1
<1>m. CASE ObMainStep
  BY <1>m, <1>m1, <1>m2, <1>m3, <1>m4, <1>m5, <1>m6, <1>m7, <1>m8, <1>m9, <1>m10, ObHead DEF ObDos
<1>a1. CASE \E i \in ObInsts : ObCreate(i)
  <2>1. PICK i \in ObInsts : ObCreate(i) BY <1>a1
  <2>e. ObCreateEffect(i) BY <2>1, ObCreateDoes
  <2>h. ObSameTodo BY <2>e, ObTodoSame DEF ObCreateEffect
  <2>g0. ObConn' = {} /\ \A k \in ObInsts : ob'[k].pc = "none"
    BY <2>e, <1>e, <1>l, <1>h DEF ObCreateEffect, ObPart
  <2>g1. \A e, k : ObHas(e, k)' => e \in ObClosers \cup {"off"}
    BY <2>e, <2>h, <1>l, <1>n DEF ObCreateEffect, ObSameTodo
  <2> QED BY <2>g0, <2>g1
<1>a2. CASE \E i \in ObInsts : ObLoop(i)
  <2>1. PICK i \in ObInsts : ObLoop(i) BY <1>a2
  <2>e. ObLoopEffect(i) BY <2>1, ObLoopDoes
  <2>h. ObSameTodo BY <2>e, ObTodoSame DEF ObLoopEffect
  <2>g0. ObConn' = {} /\ \A k \in ObInsts : ob'[k].pc = "none"
    BY <2>e, <1>e, <1>l, <1>h DEF ObLoopEffect, ObPart
  <2>g1. \A e, k : ObHas(e, k)' => e \in ObClosers \cup {"off"}
    BY <2>e, <2>h, <1>l, <1>n DEF ObLoopEffect, ObSameTodo
  <2> QED BY <2>g0, <2>g1
<1>a3. CASE \E i \in ObInsts : ObAcceptFails(i)
  <2>1. PICK i \in ObInsts : ObAcceptFails(i) BY <1>a3
  <2>e. ObAcceptFailsEffect(i) BY <2>1, ObAcceptFailsDoes
  <2>h. ObSameTodo BY <2>e, ObTodoSame DEF ObAcceptFailsEffect
  <2>g0. ObConn' = {} /\ \A k \in ObInsts : ob'[k].pc = "none"
    BY <2>e, <1>e, <1>l, <1>h DEF ObAcceptFailsEffect, ObPart
  <2>g1. \A e, k : ObHas(e, k)' => e \in ObClosers \cup {"off"}
    BY <2>e, <2>h, <1>l, <1>n DEF ObAcceptFailsEffect, ObSameTodo
  <2> QED BY <2>g0, <2>g1
<1>a4. CASE \E i \in ObInsts : ObRemote(i)
  <2>1. PICK i \in ObInsts : ObRemote(i) BY <1>a4
  <2>e. ObRemoteEffect(i) BY <2>1, ObRemoteDoes
  <2>h. ObSameTodo BY <2>e, ObTodoSame DEF ObRemoteEffect
  <2>g0. ObConn' = {} /\ \A k \in ObInsts : ob'[k].pc = "none"
    BY <2>e, <1>e, <1>l, <1>h DEF ObRemoteEffect, ObPart, ObMainIs
  <2>g1. \A e, k : ObHas(e, k)' => e \in ObClosers \cup {"off"}
    BY <2>e, <2>h, <1>l, <1>n DEF ObRemoteEffect, ObMainIs, ObSameTodo
  <2> QED BY <2>g0, <2>g1
<1>a5. CASE \E i \in ObInsts : ObCheck(i)
  <2>1. PICK i \in ObInsts : ObCheck(i) BY <1>a5
  <2>e. ObCheckEffect(i) BY <2>1, ObCheckDoes
  <2>h. ObSameTodo BY <2>e, ObTodoSame DEF ObCheckEffect
  <2>g0. ObConn' = {} /\ \A k \in ObInsts : ob'[k].pc = "none"
    BY <2>e, <1>e, <1>l, <1>h DEF ObCheckEffect, ObPart, ObWorldIs
  <2>g1. \A e, k : ObHas(e, k)' => e \in ObClosers \cup {"off"}
    BY <2>e, <2>h, <1>l, <1>n DEF ObCheckEffect, ObSameTodo
  <2> QED BY <2>g0, <2>g1
<1>a6. CASE \E i \in ObInsts : ObTrust(i)
  <2>1. PICK i \in ObInsts : ObTrust(i) BY <1>a6
  <2>e. ObTrustEffect(i) BY <2>1, ObTrustDoes
  <2>h. ObSameTodo BY <2>e, ObTodoSame DEF ObTrustEffect
  <2>g0. ObConn' = {} /\ \A k \in ObInsts : ob'[k].pc = "none"
    BY <2>e, <1>e, <1>l, <1>h DEF ObTrustEffect, ObPart
  <2>g1. \A e, k : ObHas(e, k)' => e \in ObClosers \cup {"off"}
    BY <2>e, <2>h, <1>l, <1>n DEF ObTrustEffect, ObSameTodo
  <2> QED BY <2>g0, <2>g1
<1>a7. CASE \E i \in ObInsts : ObJoins(i)
  <2>1. PICK i \in ObInsts : ObJoins(i) BY <1>a7
  <2>e. ObJoinsEffect(i) BY <2>1, ObJoinsDoes
  <2>h. ObSameTodo BY <2>e, ObTodoSame DEF ObJoinsEffect
  <2>g0. ObConn' = {} /\ \A k \in ObInsts : ob'[k].pc = "none"
    BY <2>e, <1>e, <1>l, <1>h DEF ObJoinsEffect, ObPart
  <2>g1. \A e, k : ObHas(e, k)' => e \in ObClosers \cup {"off"}
    BY <2>e, <2>h, <1>l, <1>n DEF ObJoinsEffect, ObSameTodo
  <2> QED BY <2>g0, <2>g1
<1>a8. CASE \E i \in ObInsts : ObSession(i)
  <2>1. PICK i \in ObInsts : ObSession(i) BY <1>a8
  <2>e. ObSessionEffect(i) BY <2>1, ObSessionDoes
  <2>h. ObSameTodo BY <2>e, ObTodoSame DEF ObSessionEffect
  <2>g0. ObConn' = {} /\ \A k \in ObInsts : ob'[k].pc = "none"
    BY <2>e, <1>e, <1>l, <1>h DEF ObSessionEffect, ObPart, ObWorldIs
  <2>g1. \A e, k : ObHas(e, k)' => e \in ObClosers \cup {"off"}
    BY <2>e, <2>h, <1>l, <1>n DEF ObSessionEffect, ObSameTodo
  <2> QED BY <2>g0, <2>g1
<1>a9. CASE \E i \in ObInsts : ObWait(i)
  <2>1. PICK i \in ObInsts : ObWait(i) BY <1>a9
  <2>e. ObWaitEffect(i) BY <2>1, ObWaitDoes
  <2>h. ObSameTodo BY <2>e, ObTodoSame DEF ObWaitEffect
  <2>g0. ObConn' = {} /\ \A k \in ObInsts : ob'[k].pc = "none"
    BY <2>e, <1>e, <1>l, <1>h DEF ObWaitEffect, ObPart, ObMainIs, ObWorldIs
  <2>g1. \A e, k : ObHas(e, k)' => e \in ObClosers \cup {"off"}
    BY <2>e, <2>h, <1>l, <1>n DEF ObWaitEffect, ObMainIs, ObSameTodo
  <2> QED BY <2>g0, <2>g1
<1>a10. CASE \E i \in ObInsts : ObTimer(i)
  <2>1. PICK i \in ObInsts : ObTimer(i) BY <1>a10
  <2>e. ObTimerEffect(i) BY <2>1, ObTimerDoes
  <2>h. ObSameTodo BY <2>e, ObTodoSame DEF ObTimerEffect
  <2>g0. ObConn' = {} /\ \A k \in ObInsts : ob'[k].pc = "none"
    BY <2>e, <1>e, <1>l, <1>h DEF ObTimerEffect, ObPart, ObMainIs
  <2>g1. \A e, k : ObHas(e, k)' => e \in ObClosers \cup {"off"}
    BY <2>e, <2>h, <1>l, <1>n DEF ObTimerEffect, ObMainIs, ObSameTodo
  <2> QED BY <2>g0, <2>g1
<1>a. CASE \E i \in ObInsts : ObAcceptThread(i)
  BY <1>a, <1>a1, <1>a2, <1>a3, <1>a4, <1>a5, <1>a6, <1>a7, <1>a8, <1>a9, <1>a10 DEF ObAcceptThread
<1>o1. CASE ObStartListener
  <2>e. ObStartListenerEffect BY <1>o1, ObStartListenerDoes
  <2>h. \/ obWorld.adapter = "on" /\ \A e, n : ObHas(e, n)' <=> e = "listen" /\ n \in ObInsts
        \/ obWorld.adapter # "on" /\ \A e, n : ObHas(e, n)' <=> e \in ObClosers /\ n \in ObInsts
    BY <2>e, ObHasEach, ObHasClosers DEF ObStartListenerEffect
  <2>g0. ObConn' = {} /\ \A k \in ObInsts : ob'[k].pc = "none"
    BY <2>e, <1>e, <1>l, <1>h DEF ObStartListenerEffect, ObMainIs
  <2>g1. \A e, k : ObHas(e, k)' => e \in ObClosers \cup {"off"}
    BY <2>e, <2>h, <1>l, <1>n DEF ObStartListenerEffect, ObMainIs
  <2> QED BY <2>g0, <2>g1
<1>o2. CASE \E t \in obMain.timeouts : ObUserTimeout(t)
  <2>1. PICK t \in obMain.timeouts : ObUserTimeout(t) BY <1>o2
  <2>e. ObUserTimeoutEffect(t) BY <2>1, ObUserTimeoutDoes
  <2>h. \A e, n : ObHas(e, n)' <=> e = "refuse" /\ n \in ObInsts
    BY <2>e, ObHasEach DEF ObUserTimeoutEffect, ObRefuse
  <2>g0. ObConn' = {} /\ \A k \in ObInsts : ob'[k].pc = "none"
    BY <2>e, <1>e, <1>l, <1>h DEF ObUserTimeoutEffect, ObMainIs
  <2>g1. \A e, k : ObHas(e, k)' => e \in ObClosers \cup {"off"}
    BY <2>e, <1>l, <1>w DEF ObUserTimeoutEffect, ObMainIs, ObNames
  <2> QED BY <2>g0, <2>g1
<1>o3. CASE \E t \in obMain.closes : ObServerSessionClose(t)
  <2>1. PICK t \in obMain.closes : ObServerSessionClose(t) BY <1>o3
  <2>e. ObServerSessionCloseEffect(t) BY <2>1, ObServerSessionCloseDoes
  <2>n. obTodo' = <<>> => \A e, n : ~ObHas(e, n)' BY ObHasList, ObNoSteps
  <2>h. \/ \A e, n : ObHas(e, n)' <=> e \in ObStoppers /\ n = t[1]
        \/ \A e, n : ~ObHas(e, n)'
    BY <2>e, <2>n, ObHasStopped DEF ObServerSessionCloseEffect
  <2>g0. ObConn' = {} /\ \A k \in ObInsts : ob'[k].pc = "none"
    BY <2>e, <1>e, <1>l, <1>h DEF ObServerSessionCloseEffect, ObMainIs
  <2>g1. \A e, k : ObHas(e, k)' => e \in ObClosers \cup {"off"}
    BY <2>e, <1>l, <1>w DEF ObServerSessionCloseEffect, ObMainIs, ObNames
  <2> QED BY <2>g0, <2>g1
<1>o4. CASE ObTurnOn
  <2>e. ObTurnOnEffect BY <1>o4, ObTurnOnDoes
  <2>h. ObSameTodo BY <2>e, ObTodoSame DEF ObTurnOnEffect
  <2>g0. ObConn' = {} /\ \A k \in ObInsts : ob'[k].pc = "none"
    <3>1. ObConn = {} BY <2>e DEF ObTurnOnEffect, ObConn
    <3>2. QED BY <3>1, <2>e, <1>e DEF ObTurnOnEffect, ObWorldIs, ObClosing, ObOffAt
  <2>g1. \A e, k : ObHas(e, k)' => e \in ObClosers \cup {"off"}
    BY <2>e, <2>h, <1>l, <1>n DEF ObTurnOnEffect, ObMainIs, ObSameTodo
  <2> QED BY <2>g0, <2>g1
<1>o5. CASE ObTurnOff
  <2>e. ObTurnOffEffect BY <1>o5, ObTurnOffDoes
  <2>h. /\ \A e, n : ObHas(e, n)' <=> (e \in ObClosers /\ n \in ObInsts) \/ (e = "off" /\ n = 0)
        /\ ObEnds(obTodo)'
    BY <2>e, ObHasClosers DEF ObTurnOffEffect
  <2>g0. ObConn' = {} /\ \A k \in ObInsts : ob'[k].pc = "none"
    BY <2>e, <1>e, <1>l, <1>h DEF ObTurnOffEffect, ObWorldIs
  <2>g1. \A e, k : ObHas(e, k)' => e \in ObClosers \cup {"off"}
    BY <2>e, <2>h, <1>l, <1>n DEF ObTurnOffEffect
  <2> QED BY <2>g0, <2>g1
<1>o6. CASE ObSessionGivenUp
  <2>e. ObGivenUpEffect BY <1>o6, ObGivenUpDoes
  <2>h. ObSameTodo \/ \A e, n : ObHas(e, n)' <=> e \in ObStoppers /\ n = 0
    BY <2>e, <1>i, ObTodoSame, ObHasStopped DEF ObGivenUpEffect
  <2>g0. ObConn' = {} /\ \A k \in ObInsts : ob'[k].pc = "none"
    BY <2>e, <1>e, <1>l, <1>h DEF ObGivenUpEffect, ObMainIs
  <2>g1. \A e, k : ObHas(e, k)' => e \in ObClosers \cup {"off"}
    BY <2>e, <1>l, <1>w DEF ObGivenUpEffect, ObMainIs, ObNames
  <2> QED BY <2>g0, <2>g1
<1>o7. CASE \E d \in ObDevices : ObAclDisconnected(d)
  <2>1. PICK d \in ObDevices : ObAclDisconnected(d) BY <1>o7
  <2>e. ObAclEffect(d) BY <2>1, ObAclDoes
  <2>h. ObSameTodo \/ \A e, n : ObHas(e, n)' <=> e \in {"refuse", "removeTimeouts"} /\ n = 0
    BY <2>e, ObTodoSame, ObHasRefused DEF ObAclEffect
  <2>g0. ObConn' = {} /\ \A k \in ObInsts : ob'[k].pc = "none"
    BY <2>e, <1>e, <1>l, <1>h DEF ObAclEffect, ObMainIs
  <2>g1. \A e, k : ObHas(e, k)' => e \in ObClosers \cup {"off"}
    BY <2>e, <1>l, <1>w DEF ObAclEffect, ObMainIs, ObNames
  <2> QED BY <2>g0, <2>g1
<1>o8. CASE \E c \in ObConn : ObAllowed(c)
  <2>1. PICK c \in ObConn : ObAllowed(c) BY <1>o8
  <2>e. ObAllowedEffect(c) BY <2>1, ObAllowedDoes
  <2>n. obTodo' = <<>> => \A e, n : ~ObHas(e, n)' BY ObHasList, ObNoSteps
  <2>h. \/ \A e, n : ~ObHas(e, n)'
        \/ \A e, n : ObHas(e, n)' <=> (e = "admit" /\ n \in ObInsts) \/ (e = "removeTimeouts" /\ n = 0)
    BY <2>e, <2>n, ObHasEach DEF ObAllowedEffect
  <2>g0. ObConn' = {} /\ \A k \in ObInsts : ob'[k].pc = "none"
    BY <2>e, <1>e, <1>l, <1>h DEF ObAllowedEffect, ObWorldIs
  <2>g1. \A e, k : ObHas(e, k)' => e \in ObClosers \cup {"off"}
    BY <2>1, <2>e, <1>l DEF ObAllowedEffect, ObMainIs
  <2> QED BY <2>g0, <2>g1
<1>o9. CASE \E c \in ObConn : ObDisallowed(c)
  <2>1. PICK c \in ObConn : ObDisallowed(c) BY <1>o9
  <2>e. ObDisallowedEffect(c) BY <2>1, ObDisallowedDoes
  <2>h. \A e, n : ObHas(e, n)' <=> (e = "refuse" /\ n \in ObInsts) \/ (e = "removeTimeouts" /\ n = 0)
    BY <2>e, ObHasEach DEF ObDisallowedEffect, ObRefuse
  <2>g0. ObConn' = {} /\ \A k \in ObInsts : ob'[k].pc = "none"
    BY <2>e, <1>e, <1>l, <1>h DEF ObDisallowedEffect, ObMainIs, ObWorldIs
  <2>g1. \A e, k : ObHas(e, k)' => e \in ObClosers \cup {"off"}
    BY <2>1, <2>e, <1>l DEF ObDisallowedEffect, ObMainIs
  <2> QED BY <2>g0, <2>g1
<1>o10. CASE \E c \in ObConn : ObLinkLost(c)
  <2>1. PICK c \in ObConn : ObLinkLost(c) BY <1>o10
  <2>e. ObLinkLostEffect(c) BY <2>1, ObLinkLostDoes
  <2>h. ObSameTodo BY <2>e, ObTodoSame DEF ObLinkLostEffect
  <2>g0. ObConn' = {} /\ \A k \in ObInsts : ob'[k].pc = "none"
    BY <2>e, <1>e, <1>l, <1>h DEF ObLinkLostEffect, ObWorldIs
  <2>g1. \A e, k : ObHas(e, k)' => e \in ObClosers \cup {"off"}
    BY <2>e, <2>h, <1>l, <1>n DEF ObLinkLostEffect, ObSameTodo
  <2> QED BY <2>g0, <2>g1
<1>o11. CASE \E i \in ObInsts, d \in ObDevices, trust \in BOOLEAN : ObConnects(i, d, trust)
  <2>1. PICK i \in ObInsts, d \in ObDevices, trust \in BOOLEAN : ObConnects(i, d, trust) BY <1>o11
  <2>e. ObConnectsEffect(i, d, trust) BY <2>1, ObConnectsDoes
  <2> QED BY <2>e, <1>l DEF ObConnectsEffect
<1>o12. CASE \E c \in obWorld.alive : ObSessionEnds(c)
  <2>1. PICK c \in obWorld.alive : ObSessionEnds(c) BY <1>o12
  <2>2. c \in ObConn BY DEF ObNamed, ObNames
  <2>e. ObSessionEndsEffect(c) BY <2>1, ObSessionEndsDoes, <2>2
  <2>h. ObSameTodo BY <2>e, ObTodoSame DEF ObSessionEndsEffect
  <2>g0. ObConn' = {} /\ \A k \in ObInsts : ob'[k].pc = "none"
    BY <2>e, <1>e, <1>l, <1>h DEF ObSessionEndsEffect, ObMainIs, ObWorldIs
  <2>g1. \A e, k : ObHas(e, k)' => e \in ObClosers \cup {"off"}
    BY <2>e, <2>h, <1>l, <1>n DEF ObSessionEndsEffect, ObMainIs, ObSameTodo
  <2> QED BY <2>g0, <2>g1
<1>q. QED
  BY <1>m, <1>a, <1>o1, <1>o2, <1>o3, <1>o4, <1>o5, <1>o6, <1>o7, <1>o8, <1>o9, <1>o10, <1>o11,
     <1>o12 DEF ObRuns, ObHandler, ObEnvironment

\* FTP: every step closes a connection after its thread has ended.
LEMMA ObFtpStep ==
  ASSUME ObTyped, ObNamed, ObShape(obTodo), ObStarts, ObFtp, Ftp, ObRuns
  PROVE  ObFtp'
<1>c. UNCHANGED obConfig /\ obTodo' \in Seq(ObStepSet) BY ObTodoStep
<1>i. ObInsts = {0} BY ObInstsAre
<1>h. ObMainStep => ObAt = 0 /\ obTodo # <<>> BY <1>i, ObHead DEF ObAt
<1>z. Ftp OBVIOUS
<1>b. ob \in [ObInsts -> ObLocal] BY DEF ObTyped
<1>w. ObNamedAt(0) BY <1>i DEF ObNamed
<1>y. obTodo' # <<>> => Head(obTodo)' = ObTask(Head(obTodo)'.do, Head(obTodo)'.of)
  <2>1. obTodo' # <<>> => Head(obTodo') \in ObStepSet BY <1>c
  <2>2. QED BY <2>1 DEF ObStepSet, ObTask
<1>p. \A d, i : obTodo' # <<>> /\ Head(obTodo)' = ObTask(d, i) => ObHas(d, i)' BY <1>c, ObHeadHas
<1>m1. CASE ObMainStep /\ Head(obTodo).do = "closeListen"
  <2>e. ObClosesListenEffect BY <1>m1, ObClosesListen
  <2>n. obTodo' # <<>> => ObNextTo(Head(obTodo), Head(obTodo)')
    BY <1>m1, <2>e, ObPopsNext DEF ObClosesListenEffect
  <2> QED BY <2>e, <2>n, <1>m1, <1>i, <1>h, <1>b DEF ObClosesListenEffect, ObPart, ObNextTo, ObFtp
<1>m2. CASE ObMainStep /\ Head(obTodo).do = "closeSock"
  <2>e. ObClosesSockEffect BY <1>m2, ObClosesSock
  <2>n. obTodo' # <<>> => ObNextTo(Head(obTodo), Head(obTodo)')
    BY <1>m2, <2>e, ObPopsNext DEF ObClosesSockEffect
  <2> QED BY <2>e, <2>n, <1>m2, <1>i, <1>h, <1>b DEF ObClosesSockEffect, ObPart, ObNextTo, ObFtp
<1>m3. CASE ObMainStep /\ Head(obTodo).do = "closeSession"
  <2>e. ObClosesSessionEffect BY <1>m3, ObClosesSession
  <2>n. obTodo' # <<>> => ObNextTo(Head(obTodo), Head(obTodo)')
    BY <1>m3, <2>e, ObPopsNext DEF ObClosesSessionEffect
  <2> QED BY <2>e, <2>n, <1>m3, <1>i, <1>h, <1>b DEF ObClosesSessionEffect, ObPart, ObNextTo, ObFtp
<1>m4. CASE ObMainStep /\ Head(obTodo).do = "stop"
  <2>e. ObStopsThreadEffect BY <1>m4, ObStopsThread
  <2>n. obTodo' # <<>> => ObNextTo(Head(obTodo), Head(obTodo)')
    BY <1>m4, <2>e, ObPopsNext DEF ObStopsThreadEffect
  <2> QED BY <2>e, <2>n, <1>m4, <1>i, <1>h, <1>b DEF ObStopsThreadEffect, ObPart, ObNextTo, ObFtp
<1>m5. CASE ObMainStep /\ Head(obTodo).do = "join"
  <2>e. ObJoinsThreadEffect BY <1>m5, ObJoinsThread
  <2>n. obTodo' # <<>> => ObNextTo(Head(obTodo), Head(obTodo)')
    BY <1>m5, <2>e, ObPopsNext DEF ObJoinsThreadEffect
  <2> QED BY <2>e, <2>n, <1>m5, <1>i, <1>h, <1>b DEF ObJoinsThreadEffect, ObPart, ObNextTo, ObFtp
<1>m6. CASE ObMainStep /\ Head(obTodo).do = "listen"
  <2>e. ObListensEffect BY <1>m6, ObListens
  <2>n. obTodo' # <<>> => ObNextTo(Head(obTodo), Head(obTodo)')
    BY <1>m6, <2>e, ObPopsNext DEF ObListensEffect
  <2> QED BY <2>e, <2>n, <1>m6, <1>i, <1>h, <1>b DEF ObListensEffect, ObPart, ObNextTo, ObFtp
<1>m7. CASE ObMainStep /\ Head(obTodo).do = "removeTimeouts"
  <2>e. ObRemovesTimeoutsEffect BY <1>m7, ObRemovesTimeouts
  <2>n. obTodo' # <<>> => ObNextTo(Head(obTodo), Head(obTodo)')
    BY <1>m7, <2>e, ObPopsNext DEF ObRemovesTimeoutsEffect
  <2> QED
    BY <2>e, <2>n, <1>m7, <1>i, <1>h, <1>b DEF ObRemovesTimeoutsEffect, ObPart, ObNextTo, ObFtp
<1>m8. CASE ObMainStep /\ Head(obTodo).do = "off"
  <2>e. ObTurnedOffEffect BY <1>m8, ObTurnedOff
  <2>n. obTodo' # <<>> => ObNextTo(Head(obTodo), Head(obTodo)')
    BY <1>m8, <2>e, ObPopsNext DEF ObTurnedOffEffect
  <2> QED BY <2>e, <2>n, <1>m8, <1>i, <1>h, <1>b DEF ObTurnedOffEffect, ObPart, ObNextTo, ObFtp
<1>m9. CASE ObMainStep /\ Head(obTodo).do = "admit"
  <2>e. ObAdmitsEffect BY <1>m9, ObAdmits
  <2>n. ObPops /\ obTodo' # <<>> => ObNextTo(Head(obTodo), Head(obTodo)') BY <1>m9, ObPopsNext
  <2>h. ObStops(ObAt) => Head(obTodo)'.do = "closeSession" BY <1>m9, ObFirstStop
  <2> QED BY <2>e, <2>n, <2>h, <1>m9, <1>i, <1>h DEF ObAdmitsEffect, ObPart, ObNextTo, ObFtp
<1>m10. CASE ObMainStep /\ Head(obTodo).do = "refuse"
  <2>e. ObRefusesEffect BY <1>m10, ObRefuses
  <2>n. ObPops /\ obTodo' # <<>> => ObNextTo(Head(obTodo), Head(obTodo)') BY <1>m10, ObPopsNext
  <2>h. ObStops(ObAt) => Head(obTodo)'.do = "closeSession" BY <1>m10, ObFirstStop
  <2> QED BY <2>e, <2>n, <2>h, <1>m10, <1>i, <1>h DEF ObRefusesEffect, ObPart, ObNextTo, ObFtp
<1>m. CASE ObMainStep
  BY <1>m, <1>m1, <1>m2, <1>m3, <1>m4, <1>m5, <1>m6, <1>m7, <1>m8, <1>m9, <1>m10, ObHead DEF ObDos
<1>a1. CASE \E i \in ObInsts : ObCreate(i)
  <2>1. PICK i \in ObInsts : ObCreate(i) BY <1>a1
  <2>e. ObCreateEffect(i) BY <2>1, ObCreateDoes
  <2> QED BY <2>e, <1>i DEF ObCreateEffect, ObPart, ObFtp
<1>a2. CASE \E i \in ObInsts : ObLoop(i)
  <2>1. PICK i \in ObInsts : ObLoop(i) BY <1>a2
  <2>e. ObLoopEffect(i) BY <2>1, ObLoopDoes
  <2> QED BY <2>e, <1>i DEF ObLoopEffect, ObPart, ObFtp
<1>a3. CASE \E i \in ObInsts : ObAcceptFails(i)
  <2>1. PICK i \in ObInsts : ObAcceptFails(i) BY <1>a3
  <2>e. ObAcceptFailsEffect(i) BY <2>1, ObAcceptFailsDoes
  <2> QED BY <2>e, <1>i DEF ObAcceptFailsEffect, ObPart, ObFtp
<1>a4. CASE \E i \in ObInsts : ObRemote(i)
  <2>1. PICK i \in ObInsts : ObRemote(i) BY <1>a4
  <2>e. ObRemoteEffect(i) BY <2>1, ObRemoteDoes
  <2> QED BY <2>e, <1>i DEF ObRemoteEffect, ObPart, ObFtp
<1>a5. CASE \E i \in ObInsts : ObCheck(i)
  <2>1. PICK i \in ObInsts : ObCheck(i) BY <1>a5
  <2>e. ObCheckEffect(i) BY <2>1, ObCheckDoes
  <2> QED BY <2>e, <1>i DEF ObCheckEffect, ObPart, ObFtp
<1>a6. CASE \E i \in ObInsts : ObTrust(i)
  <2>1. PICK i \in ObInsts : ObTrust(i) BY <1>a6
  <2>e. ObTrustEffect(i) BY <2>1, ObTrustDoes
  <2> QED BY <2>e, <1>i DEF ObTrustEffect, ObPart, ObFtp
<1>a7. CASE \E i \in ObInsts : ObJoins(i)
  <2>1. PICK i \in ObInsts : ObJoins(i) BY <1>a7
  <2>e. ObJoinsEffect(i) BY <2>1, ObJoinsDoes
  <2> QED BY <2>e, <1>i DEF ObJoinsEffect, ObPart, ObFtp
<1>a8. CASE \E i \in ObInsts : ObSession(i)
  <2>1. PICK i \in ObInsts : ObSession(i) BY <1>a8
  <2>e. ObSessionEffect(i) BY <2>1, ObSessionDoes
  <2> QED BY <2>e, <1>i DEF ObSessionEffect, ObPart, ObFtp
<1>a9. CASE \E i \in ObInsts : ObWait(i)
  <2>1. PICK i \in ObInsts : ObWait(i) BY <1>a9
  <2>e. ObWaitEffect(i) BY <2>1, ObWaitDoes
  <2> QED BY <2>e, <1>i DEF ObWaitEffect, ObPart, ObFtp
<1>a10. CASE \E i \in ObInsts : ObTimer(i)
  <2>1. PICK i \in ObInsts : ObTimer(i) BY <1>a10
  <2>e. ObTimerEffect(i) BY <2>1, ObTimerDoes
  <2> QED BY <2>e, <1>i DEF ObTimerEffect, ObPart, ObFtp
<1>a. CASE \E i \in ObInsts : ObAcceptThread(i)
  BY <1>a, <1>a1, <1>a2, <1>a3, <1>a4, <1>a5, <1>a6, <1>a7, <1>a8, <1>a9, <1>a10 DEF ObAcceptThread
<1>o1. CASE ObStartListener
  <2>e. ObStartListenerEffect BY <1>o1, ObStartListenerDoes
  <2>k. ob[0].pc = "none" /\ ob[0].sock = 0
    BY <2>e, <1>i, <1>w DEF ObStartListenerEffect, ObStarts, ObNamedAt
  <2> QED BY <2>e, <2>k DEF ObStartListenerEffect, ObFtp
<1>o2. CASE \E t \in obMain.timeouts : ObUserTimeout(t)
  <2>1. PICK t \in obMain.timeouts : ObUserTimeout(t) BY <1>o2
  <2>e. ObUserTimeoutEffect(t) BY <2>1, ObUserTimeoutDoes
  <2>h. \A e, n : ObHas(e, n)' <=> e = "refuse" /\ n \in ObInsts
    BY <2>e, ObHasEach DEF ObUserTimeoutEffect, ObRefuse
  <2>k. obTodo' # <<>> => Head(obTodo)'.do \notin {"closeSock", "listen"}
    BY <2>h, <1>p, <1>y
  <2> QED BY <2>e, <2>k DEF ObUserTimeoutEffect, ObFtp
<1>o3. CASE \E t \in obMain.closes : ObServerSessionClose(t)
  <2>1. PICK t \in obMain.closes : ObServerSessionClose(t) BY <1>o3
  <2>e. ObServerSessionCloseEffect(t) BY <2>1, ObServerSessionCloseDoes
  <2> QED BY <2>e, ObFirst DEF ObServerSessionCloseEffect, ObFtp
<1>o4. CASE ObTurnOn
  <2>e. ObTurnOnEffect BY <1>o4, ObTurnOnDoes
  <2> QED BY <2>e, <1>i, <1>z DEF ObTurnOnEffect, ObPart, ObFtp
<1>o5. CASE ObTurnOff
  <2>e. ObTurnOffEffect BY <1>o5, ObTurnOffDoes
  <2> QED BY <2>e, ObFirst DEF ObTurnOffEffect, ObFtp
<1>o6. CASE ObSessionGivenUp
  <2>e. ObGivenUpEffect BY <1>o6, ObGivenUpDoes
  <2> QED BY <2>e, <1>i, ObFirst DEF ObGivenUpEffect, ObFtp
<1>o7. CASE \E d \in ObDevices : ObAclDisconnected(d)
  <2>1. PICK d \in ObDevices : ObAclDisconnected(d) BY <1>o7
  <2>e. ObAclEffect(d) BY <2>1, ObAclDoes
  <2>h. \A d2, n : ObHas(d2, n)' <=> d2 \in {"refuse", "removeTimeouts"} /\ n = 0
    BY <2>e, ObHasRefused DEF ObAclEffect
  <2>k. obTodo' # <<>> => Head(obTodo)'.do \notin {"closeSock", "listen"}
    BY <2>h, <1>p, <1>y
  <2> QED BY <2>e, <2>k DEF ObAclEffect, ObFtp
<1>o8. CASE \E c \in ObConn : ObAllowed(c)
  <2>1. PICK c \in ObConn : ObAllowed(c) BY <1>o8
  <2>e. ObAllowedEffect(c) BY <2>1, ObAllowedDoes
  <2>n. obTodo' = <<>> => \A e, n : ~ObHas(e, n)' BY ObHasList, ObNoSteps
  <2>h. \/ \A e, n : ~ObHas(e, n)'
        \/ \A e, n : ObHas(e, n)' <=> (e = "admit" /\ n \in ObInsts) \/ (e = "removeTimeouts" /\ n = 0)
    BY <2>e, <2>n, ObHasEach DEF ObAllowedEffect
  <2>k. obTodo' # <<>> => Head(obTodo)'.do \notin {"closeSock", "listen"}
    BY <2>h, <1>p, <1>y
  <2> QED BY <2>e, <2>k DEF ObAllowedEffect, ObFtp
<1>o9. CASE \E c \in ObConn : ObDisallowed(c)
  <2>1. PICK c \in ObConn : ObDisallowed(c) BY <1>o9
  <2>e. ObDisallowedEffect(c) BY <2>1, ObDisallowedDoes
  <2>h. \A e, n : ObHas(e, n)' <=> (e = "refuse" /\ n \in ObInsts) \/ (e = "removeTimeouts" /\ n = 0)
    BY <2>e, ObHasEach DEF ObDisallowedEffect, ObRefuse
  <2>k. obTodo' # <<>> => Head(obTodo)'.do \notin {"closeSock", "listen"}
    BY <2>h, <1>p, <1>y
  <2> QED BY <2>e, <2>k DEF ObDisallowedEffect, ObFtp
<1>o10. CASE \E c \in ObConn : ObLinkLost(c)
  <2>1. PICK c \in ObConn : ObLinkLost(c) BY <1>o10
  <2>e. ObLinkLostEffect(c) BY <2>1, ObLinkLostDoes
  <2> QED BY <2>e, <1>i, <1>z DEF ObLinkLostEffect, ObPart, ObFtp
<1>o11. CASE \E i \in ObInsts, d \in ObDevices, trust \in BOOLEAN : ObConnects(i, d, trust)
  <2>1. PICK i \in ObInsts, d \in ObDevices, trust \in BOOLEAN : ObConnects(i, d, trust) BY <1>o11
  <2>e. ObConnectsEffect(i, d, trust) BY <2>1, ObConnectsDoes
  <2> QED BY <2>e, <1>i, <1>z DEF ObConnectsEffect, ObPart, ObFtp
<1>o12. CASE \E c \in obWorld.alive : ObSessionEnds(c)
  <2>1. PICK c \in obWorld.alive : ObSessionEnds(c) BY <1>o12
  <2>2. c \in ObConn BY DEF ObNamed, ObNames
  <2>e. ObSessionEndsEffect(c) BY <2>1, ObSessionEndsDoes, <2>2
  <2> QED BY <2>e, <1>i DEF ObSessionEndsEffect, ObFtp
<1>q. QED
  BY <1>m, <1>a, <1>o1, <1>o2, <1>o3, <1>o4, <1>o5, <1>o6, <1>o7, <1>o8, <1>o9, <1>o10, <1>o11,
     <1>o12 DEF ObRuns, ObHandler, ObEnvironment

\* Nothing has stopped a connection that a handler did not mean.
ObCalm == ~Odd(IF Ftp THEN {"answer", "timeout", "stolen"} ELSE {"stolen"})
\* The accept thread is done with its connection.
ObQuiet == {"none", "timer", "done"}

\* While a connection waits or is served, the accept thread is done with it.
ObServed(i) ==
  LET o == ob[i]
  IN  /\ o.waiting => o.pc \in ObQuiet
      /\ o.session \in obWorld.alive => o.pc \in ObQuiet /\ ~o.waiting
      /\ o.sock # 0 => o.pc \notin {"create", "loop", "blocked"}
      /\ <<i, o.sock>> \in obMain.closes => o.pc \in ObQuiet /\ ~o.waiting

\* A listener is started again when connection and session are closed.
ObRestarts(i) ==
  ObHas("listen", i) =>
    /\ ob[i].pc \in ObQuiet /\ ~ob[i].waiting
    /\ ObHas("closeSock", i) \/ ob[i].sock = 0
    /\ ObHas("closeSession", i) \/ ob[i].session \notin obWorld.alive

\* FTP answers the connection that waits.
ObAnswered(i) ==
  Ftp => /\ ObHas("refuse", i) => ob[i].pc \in ObQuiet
         /\ ObHas("admit", i) => ob[i].waiting /\ ob[i].sock # 0

\* A session that runs is the one its instance knows.
ObKnown(i) == \A c \in obWorld.alive : obWorld.conns[c].inst = i => ob[i].session = c

\* The parts together, of every instance.
ObCalmInv ==
  ObCalm => \A i \in ObInsts : ObKnown(i) /\ ObServed(i) /\ ObRestarts(i) /\ ObAnswered(i)

\* What happened out of turn is remembered.
LEMMA ObPastGrows ==
  ASSUME ObTyped, ObNamed, ObRuns
  PROVE  obPast \subseteq obPast'
<1>m1. CASE ObMainStep /\ Head(obTodo).do = "closeListen"
  <2>e. ObClosesListenEffect BY <1>m1, ObClosesListen
  <2> QED BY <2>e DEF ObClosesListenEffect
<1>m2. CASE ObMainStep /\ Head(obTodo).do = "closeSock"
  <2>e. ObClosesSockEffect BY <1>m2, ObClosesSock
  <2> QED BY <2>e DEF ObClosesSockEffect
<1>m3. CASE ObMainStep /\ Head(obTodo).do = "closeSession"
  <2>e. ObClosesSessionEffect BY <1>m3, ObClosesSession
  <2> QED BY <2>e DEF ObClosesSessionEffect
<1>m4. CASE ObMainStep /\ Head(obTodo).do = "stop"
  <2>e. ObStopsThreadEffect BY <1>m4, ObStopsThread
  <2> QED BY <2>e DEF ObStopsThreadEffect
<1>m5. CASE ObMainStep /\ Head(obTodo).do = "join"
  <2>e. ObJoinsThreadEffect BY <1>m5, ObJoinsThread
  <2> QED BY <2>e DEF ObJoinsThreadEffect
<1>m6. CASE ObMainStep /\ Head(obTodo).do = "listen"
  <2>e. ObListensEffect BY <1>m6, ObListens
  <2> QED BY <2>e DEF ObListensEffect
<1>m7. CASE ObMainStep /\ Head(obTodo).do = "removeTimeouts"
  <2>e. ObRemovesTimeoutsEffect BY <1>m7, ObRemovesTimeouts
  <2> QED BY <2>e DEF ObRemovesTimeoutsEffect
<1>m8. CASE ObMainStep /\ Head(obTodo).do = "off"
  <2>e. ObTurnedOffEffect BY <1>m8, ObTurnedOff
  <2> QED BY <2>e DEF ObTurnedOffEffect
<1>m9. CASE ObMainStep /\ Head(obTodo).do = "admit"
  <2>e. ObAdmitsEffect BY <1>m9, ObAdmits
  <2> QED BY <2>e DEF ObAdmitsEffect
<1>m10. CASE ObMainStep /\ Head(obTodo).do = "refuse"
  <2>e. ObRefusesEffect BY <1>m10, ObRefuses
  <2> QED BY <2>e DEF ObRefusesEffect
<1>m. CASE ObMainStep
  BY <1>m, <1>m1, <1>m2, <1>m3, <1>m4, <1>m5, <1>m6, <1>m7, <1>m8, <1>m9, <1>m10, ObHead DEF ObDos
<1>a1. CASE \E i \in ObInsts : ObCreate(i)
  <2>1. PICK i \in ObInsts : ObCreate(i) BY <1>a1
  <2>e. ObCreateEffect(i) BY <2>1, ObCreateDoes
  <2> QED BY <2>e DEF ObCreateEffect
<1>a2. CASE \E i \in ObInsts : ObLoop(i)
  <2>1. PICK i \in ObInsts : ObLoop(i) BY <1>a2
  <2>e. ObLoopEffect(i) BY <2>1, ObLoopDoes
  <2> QED BY <2>e DEF ObLoopEffect
<1>a3. CASE \E i \in ObInsts : ObAcceptFails(i)
  <2>1. PICK i \in ObInsts : ObAcceptFails(i) BY <1>a3
  <2>e. ObAcceptFailsEffect(i) BY <2>1, ObAcceptFailsDoes
  <2> QED BY <2>e DEF ObAcceptFailsEffect
<1>a4. CASE \E i \in ObInsts : ObRemote(i)
  <2>1. PICK i \in ObInsts : ObRemote(i) BY <1>a4
  <2>e. ObRemoteEffect(i) BY <2>1, ObRemoteDoes
  <2> QED BY <2>e DEF ObRemoteEffect
<1>a5. CASE \E i \in ObInsts : ObCheck(i)
  <2>1. PICK i \in ObInsts : ObCheck(i) BY <1>a5
  <2>e. ObCheckEffect(i) BY <2>1, ObCheckDoes
  <2> QED BY <2>e DEF ObCheckEffect
<1>a6. CASE \E i \in ObInsts : ObTrust(i)
  <2>1. PICK i \in ObInsts : ObTrust(i) BY <1>a6
  <2>e. ObTrustEffect(i) BY <2>1, ObTrustDoes
  <2> QED BY <2>e DEF ObTrustEffect
<1>a7. CASE \E i \in ObInsts : ObJoins(i)
  <2>1. PICK i \in ObInsts : ObJoins(i) BY <1>a7
  <2>e. ObJoinsEffect(i) BY <2>1, ObJoinsDoes
  <2> QED BY <2>e DEF ObJoinsEffect
<1>a8. CASE \E i \in ObInsts : ObSession(i)
  <2>1. PICK i \in ObInsts : ObSession(i) BY <1>a8
  <2>e. ObSessionEffect(i) BY <2>1, ObSessionDoes
  <2> QED BY <2>e DEF ObSessionEffect
<1>a9. CASE \E i \in ObInsts : ObWait(i)
  <2>1. PICK i \in ObInsts : ObWait(i) BY <1>a9
  <2>e. ObWaitEffect(i) BY <2>1, ObWaitDoes
  <2> QED BY <2>e DEF ObWaitEffect
<1>a10. CASE \E i \in ObInsts : ObTimer(i)
  <2>1. PICK i \in ObInsts : ObTimer(i) BY <1>a10
  <2>e. ObTimerEffect(i) BY <2>1, ObTimerDoes
  <2> QED BY <2>e DEF ObTimerEffect
<1>a. CASE \E i \in ObInsts : ObAcceptThread(i)
  BY <1>a, <1>a1, <1>a2, <1>a3, <1>a4, <1>a5, <1>a6, <1>a7, <1>a8, <1>a9, <1>a10 DEF ObAcceptThread
<1>o1. CASE ObStartListener
  <2>e. ObStartListenerEffect BY <1>o1, ObStartListenerDoes
  <2> QED BY <2>e DEF ObStartListenerEffect
<1>o2. CASE \E t \in obMain.timeouts : ObUserTimeout(t)
  <2>1. PICK t \in obMain.timeouts : ObUserTimeout(t) BY <1>o2
  <2>e. ObUserTimeoutEffect(t) BY <2>1, ObUserTimeoutDoes
  <2> QED BY <2>e DEF ObUserTimeoutEffect
<1>o3. CASE \E t \in obMain.closes : ObServerSessionClose(t)
  <2>1. PICK t \in obMain.closes : ObServerSessionClose(t) BY <1>o3
  <2>e. ObServerSessionCloseEffect(t) BY <2>1, ObServerSessionCloseDoes
  <2> QED BY <2>e DEF ObServerSessionCloseEffect
<1>o4. CASE ObTurnOn
  <2>e. ObTurnOnEffect BY <1>o4, ObTurnOnDoes
  <2> QED BY <2>e DEF ObTurnOnEffect
<1>o5. CASE ObTurnOff
  <2>e. ObTurnOffEffect BY <1>o5, ObTurnOffDoes
  <2> QED BY <2>e DEF ObTurnOffEffect
<1>o6. CASE ObSessionGivenUp
  <2>e. ObGivenUpEffect BY <1>o6, ObGivenUpDoes
  <2> QED BY <2>e DEF ObGivenUpEffect
<1>o7. CASE \E d \in ObDevices : ObAclDisconnected(d)
  <2>1. PICK d \in ObDevices : ObAclDisconnected(d) BY <1>o7
  <2>e. ObAclEffect(d) BY <2>1, ObAclDoes
  <2> QED BY <2>e DEF ObAclEffect
<1>o8. CASE \E c \in ObConn : ObAllowed(c)
  <2>1. PICK c \in ObConn : ObAllowed(c) BY <1>o8
  <2>e. ObAllowedEffect(c) BY <2>1, ObAllowedDoes
  <2> QED BY <2>e DEF ObAllowedEffect
<1>o9. CASE \E c \in ObConn : ObDisallowed(c)
  <2>1. PICK c \in ObConn : ObDisallowed(c) BY <1>o9
  <2>e. ObDisallowedEffect(c) BY <2>1, ObDisallowedDoes
  <2> QED BY <2>e DEF ObDisallowedEffect
<1>o10. CASE \E c \in ObConn : ObLinkLost(c)
  <2>1. PICK c \in ObConn : ObLinkLost(c) BY <1>o10
  <2>e. ObLinkLostEffect(c) BY <2>1, ObLinkLostDoes
  <2> QED BY <2>e DEF ObLinkLostEffect
<1>o11. CASE \E i \in ObInsts, d \in ObDevices, trust \in BOOLEAN : ObConnects(i, d, trust)
  <2>1. PICK i \in ObInsts, d \in ObDevices, trust \in BOOLEAN : ObConnects(i, d, trust) BY <1>o11
  <2>e. ObConnectsEffect(i, d, trust) BY <2>1, ObConnectsDoes
  <2> QED BY <2>e DEF ObConnectsEffect
<1>o12. CASE \E c \in obWorld.alive : ObSessionEnds(c)
  <2>1. PICK c \in obWorld.alive : ObSessionEnds(c) BY <1>o12
  <2>2. c \in ObConn BY DEF ObNamed, ObNames
  <2>e. ObSessionEndsEffect(c) BY <2>1, ObSessionEndsDoes, <2>2
  <2> QED BY <2>e DEF ObSessionEndsEffect
<1>q. QED
  BY <1>m, <1>a, <1>o1, <1>o2, <1>o3, <1>o4, <1>o5, <1>o6, <1>o7, <1>o8, <1>o9, <1>o10, <1>o11,
     <1>o12 DEF ObRuns, ObHandler, ObEnvironment

\* While nothing is stolen, every step keeps the thread and the session of an
\* instance apart.
LEMMA ObCalmStep ==
  ASSUME ObTyped, ObNamed, ObShape(obTodo), ObStarts, ObCalmInv, ObRuns
  PROVE  ObCalmInv'
<1>c. UNCHANGED obConfig BY ObTodoStep
<1>s. ObInsts' = ObInsts /\ Ftp' = Ftp BY <1>c, ObSets
<1>i. 0 \in ObInsts /\ (~Ftp => 1 \in ObInsts) BY ObInstsAre
<1>f. Ftp => ObInsts = {0} BY ObInstsAre
<1>h. ObMainStep => ObAt \in ObInsts BY ObHead DEF ObAt
<1>n. obTodo = <<>> => \A d, i : ~ObHas(d, i) BY ObHasNothing
<1>e. \A c \in ObConn : obWorld'.conns[c] = obWorld.conns[c] BY ObKeptStep DEF ObKept
<1>w. ObNames /\ \A j \in ObInsts : ObNamedAt(j) BY DEF ObNamed
<1>0. 0 \notin ObConn BY ObConnTyped
<1>d. /\ ObClosers = {"closeListen", "stop", "join", "closeSock", "closeSession"}
      /\ ObStoppers = {"closeSession", "stop", "join", "closeSock", "listen"}
  BY DEF ObClosers, ObStoppers
<1>u. ObQuiet = {"none", "timer", "done"} BY DEF ObQuiet
<1>z. obWorld.alive \subseteq ObConn /\ 0 \notin obWorld.alive
      /\ \A j : <<j, 0>> \notin obMain.closes
  BY <1>0, <1>w DEF ObNames
<1> SUFFICES ASSUME ObCalm', NEW j \in ObInsts
             PROVE  ObKnown(j)' /\ ObServed(j)' /\ ObRestarts(j)' /\ ObAnswered(j)'
  BY <1>s DEF ObCalmInv
<1>r. /\ Ftp => "answer" \notin obPast' /\ "timeout" \notin obPast'
      /\ "stolen" \notin obPast'
  BY <1>s DEF ObCalm, Odd
<1>p. ObCalm
  <2>1. obPast \subseteq obPast' BY ObPastGrows
  <2>2. QED BY <2>1, <1>s DEF ObCalm, Odd
<1>k. ObKnown(j) /\ ObServed(j) /\ ObRestarts(j) /\ ObAnswered(j) BY <1>p DEF ObCalmInv
<1>v. ob[j].sock # 0 => obWorld.conns[ob[j].sock].inst = j /\ ob[j].sock \in ObConn
  BY <1>w DEF ObNamedAt
<1>m1. CASE ObMainStep /\ Head(obTodo).do = "closeListen"
  <2>e. ObClosesListenEffect BY <1>m1, ObClosesListen
  <2>h. ObPopped BY <1>m1, <2>e, ObPopsHas DEF ObClosesListenEffect
  <2>g0. ObKnown(j)'
    BY <2>e, <1>m1, <1>z, <1>e, <1>k, <1>h, <1>u, <1>v DEF ObClosesListenEffect, ObPart, ObKnown,
       ObServed
  <2>g1. ObServed(j)'
    BY <2>e, <1>m1, <1>z, <1>k, <1>h, <1>u DEF ObClosesListenEffect, ObPart, ObServed, ObRestarts
  <2>g2. ObRestarts(j)'
    BY <2>e, <1>m1, <2>h, <1>z, <1>k, <1>h, <1>n, <1>u, <1>d DEF ObClosesListenEffect, ObPart,
       ObPopped, ObRestarts, ObServed
  <2>g3. ObAnswered(j)'
    BY <2>e, <1>m1, <2>h, <1>s, <1>f, <1>k, <1>h, <1>u, <1>d DEF ObClosesListenEffect, ObPart,
       ObPopped, ObAnswered, ObServed
  <2> QED BY <2>g0, <2>g1, <2>g2, <2>g3
<1>m2. CASE ObMainStep /\ Head(obTodo).do = "closeSock"
  <2>e. ObClosesSockEffect BY <1>m2, ObClosesSock
  <2>h. ObPopped BY <1>m2, <2>e, ObPopsHas DEF ObClosesSockEffect
  <2>g0. ObKnown(j)'
    BY <2>e, <1>m2, <1>z, <1>e, <1>k, <1>h, <1>u, <1>v DEF ObClosesSockEffect, ObPart, ObWorldIs,
       ObKnown, ObServed
  <2>g1. ObServed(j)'
    BY <2>e, <1>m2, <1>z, <1>k, <1>h, <1>u DEF ObClosesSockEffect, ObPart, ObWorldIs, ObServed,
       ObRestarts
  <2>g2. ObRestarts(j)'
    BY <2>e, <1>m2, <2>h, <1>z, <1>k, <1>h, <1>n, <1>u, <1>d DEF ObClosesSockEffect, ObPart,
       ObWorldIs, ObPopped, ObRestarts, ObServed
  <2>g3. ObAnswered(j)'
    BY <2>e, <1>m2, <2>h, <1>s, <1>f, <1>k, <1>h, <1>u, <1>d DEF ObClosesSockEffect, ObPart,
       ObWorldIs, ObPopped, ObAnswered, ObServed
  <2> QED BY <2>g0, <2>g1, <2>g2, <2>g3
<1>m3. CASE ObMainStep /\ Head(obTodo).do = "closeSession"
  <2>e. ObClosesSessionEffect BY <1>m3, ObClosesSession
  <2>h. ObPopped BY <1>m3, <2>e, ObPopsHas DEF ObClosesSessionEffect
  <2>g0. ObKnown(j)'
    BY <2>e, <1>m3, <1>z, <1>e, <1>k, <1>h, <1>u, <1>v DEF ObClosesSessionEffect, ObPart, ObMainIs,
       ObWorldIs, ObKnown, ObServed
  <2>g1. ObServed(j)'
    BY <2>e, <1>m3, <1>z, <1>k, <1>h, <1>u DEF ObClosesSessionEffect, ObPart, ObMainIs, ObWorldIs,
       ObServed, ObRestarts
  <2>g2. ObRestarts(j)'
    BY <2>e, <1>m3, <2>h, <1>z, <1>k, <1>h, <1>n, <1>u, <1>d DEF ObClosesSessionEffect, ObPart,
       ObMainIs, ObWorldIs, ObPopped, ObRestarts, ObServed
  <2>g3. ObAnswered(j)'
    BY <2>e, <1>m3, <2>h, <1>s, <1>f, <1>k, <1>h, <1>u, <1>d DEF ObClosesSessionEffect, ObPart,
       ObMainIs, ObWorldIs, ObPopped, ObAnswered, ObServed
  <2> QED BY <2>g0, <2>g1, <2>g2, <2>g3
<1>m4. CASE ObMainStep /\ Head(obTodo).do = "stop"
  <2>e. ObStopsThreadEffect BY <1>m4, ObStopsThread
  <2>h. ObPopped BY <1>m4, <2>e, ObPopsHas DEF ObStopsThreadEffect
  <2>g0. ObKnown(j)'
    BY <2>e, <1>m4, <1>z, <1>e, <1>k, <1>h, <1>u, <1>v DEF ObStopsThreadEffect, ObPart, ObKnown,
       ObServed
  <2>g1. ObServed(j)'
    BY <2>e, <1>m4, <1>z, <1>k, <1>h, <1>u DEF ObStopsThreadEffect, ObPart, ObServed, ObRestarts
  <2>g2. ObRestarts(j)'
    BY <2>e, <1>m4, <2>h, <1>z, <1>k, <1>h, <1>n, <1>u, <1>d DEF ObStopsThreadEffect, ObPart,
       ObPopped, ObRestarts, ObServed
  <2>g3. ObAnswered(j)'
    BY <2>e, <1>m4, <2>h, <1>s, <1>f, <1>k, <1>h, <1>u, <1>d DEF ObStopsThreadEffect, ObPart,
       ObPopped, ObAnswered, ObServed
  <2> QED BY <2>g0, <2>g1, <2>g2, <2>g3
<1>m5. CASE ObMainStep /\ Head(obTodo).do = "join"
  <2>e. ObJoinsThreadEffect BY <1>m5, ObJoinsThread
  <2>h. ObPopped BY <1>m5, <2>e, ObPopsHas DEF ObJoinsThreadEffect
  <2>g0. ObKnown(j)'
    BY <2>e, <1>m5, <1>z, <1>e, <1>k, <1>h, <1>u, <1>v DEF ObJoinsThreadEffect, ObPart, ObKnown,
       ObServed
  <2>g1. ObServed(j)'
    BY <2>e, <1>m5, <1>z, <1>k, <1>h, <1>u DEF ObJoinsThreadEffect, ObPart, ObServed, ObRestarts
  <2>g2. ObRestarts(j)'
    BY <2>e, <1>m5, <2>h, <1>z, <1>k, <1>h, <1>n, <1>u, <1>d DEF ObJoinsThreadEffect, ObPart,
       ObPopped, ObRestarts, ObServed
  <2>g3. ObAnswered(j)'
    BY <2>e, <1>m5, <2>h, <1>s, <1>f, <1>k, <1>h, <1>u, <1>d DEF ObJoinsThreadEffect, ObPart,
       ObPopped, ObAnswered, ObServed
  <2> QED BY <2>g0, <2>g1, <2>g2, <2>g3
<1>m6. CASE ObMainStep /\ Head(obTodo).do = "listen"
  <2>e. ObListensEffect BY <1>m6, ObListens
  <2>h. ObPopped BY <1>m6, <2>e, ObPopsHas DEF ObListensEffect
  <2>a. ASSUME j = ObAt
        PROVE  /\ ob[j].pc \in ObQuiet /\ ~ob[j].waiting /\ ob[j].sock = 0
                  /\ ob[j].session \notin obWorld.alive
               /\ ~ObHas("listen", j)'
    <3>1. ObHas("listen", j) BY <2>a, <2>h, <1>m6 DEF ObPopped
    <3>2. ASSUME NEW d, ObHas(d, j)' PROVE d \in {"listen", "refuse", "removeTimeouts"}
          /\ d # "listen"
      <4>1. ObAfter(Head(obTodo), ObTask(d, j)) BY <3>2, <2>h DEF ObPopped
      <4>2. Head(obTodo).of = j /\ ObTask(d, j).do = d /\ ObTask(d, j).of = j
        BY <2>a, ObTaskIs DEF ObAt
      <4> QED BY <4>1, <4>2, <1>m6 DEF ObAfter
    <3>3. ~ObHas("closeSock", j) /\ ~ObHas("closeSession", j) BY <3>2, <2>h, <1>m6 DEF ObPopped
    <3> QED BY <3>1, <3>2, <3>3, <1>k DEF ObRestarts
  <2>g0. ObKnown(j)'
    BY <2>e, <1>m6, <1>z, <1>e, <1>k, <1>h, <1>u, <1>v DEF ObListensEffect, ObPart, ObKnown,
       ObServed
  <2>g1. ObServed(j)'
    BY <2>e, <2>a, <1>z, <1>k, <1>h DEF ObListensEffect, ObPart, ObServed
  <2>g2. ObRestarts(j)'
    BY <2>e, <2>a, <2>h, <1>k, <1>h DEF ObListensEffect, ObPart, ObPopped, ObRestarts
  <2>g3. ObAnswered(j)'
    BY <2>e, <1>m6, <2>h, <1>s, <1>f, <1>k, <1>h, <1>u, <1>d DEF ObListensEffect, ObPart, ObPopped,
       ObAnswered, ObServed
  <2> QED BY <2>g0, <2>g1, <2>g2, <2>g3
<1>m7. CASE ObMainStep /\ Head(obTodo).do = "removeTimeouts"
  <2>e. ObRemovesTimeoutsEffect BY <1>m7, ObRemovesTimeouts
  <2>h. ObPopped BY <1>m7, <2>e, ObPopsHas DEF ObRemovesTimeoutsEffect
  <2>g0. ObKnown(j)'
    BY <2>e, <1>m7, <1>z, <1>e, <1>k, <1>h, <1>u, <1>v DEF ObRemovesTimeoutsEffect, ObMainIs,
       ObKnown, ObServed
  <2>g1. ObServed(j)'
    BY <2>e, <1>m7, <1>z, <1>k, <1>h, <1>u DEF ObRemovesTimeoutsEffect, ObMainIs, ObServed,
       ObRestarts
  <2>g2. ObRestarts(j)'
    BY <2>e, <1>m7, <2>h, <1>z, <1>k, <1>h, <1>n, <1>u, <1>d DEF ObRemovesTimeoutsEffect, ObMainIs,
       ObPopped, ObRestarts, ObServed
  <2>g3. ObAnswered(j)'
    BY <2>e, <1>m7, <2>h, <1>s, <1>f, <1>k, <1>h, <1>u, <1>d DEF ObRemovesTimeoutsEffect, ObMainIs,
       ObPopped, ObAnswered, ObServed
  <2> QED BY <2>g0, <2>g1, <2>g2, <2>g3
<1>m8. CASE ObMainStep /\ Head(obTodo).do = "off"
  <2>e. ObTurnedOffEffect BY <1>m8, ObTurnedOff
  <2>h. ObPopped BY <1>m8, <2>e, ObPopsHas DEF ObTurnedOffEffect
  <2>g0. ObKnown(j)'
    BY <2>e, <1>m8, <1>z, <1>e, <1>k, <1>h, <1>u, <1>v DEF ObTurnedOffEffect, ObWorldIs, ObKnown,
       ObServed
  <2>g1. ObServed(j)'
    BY <2>e, <1>m8, <1>z, <1>k, <1>h, <1>u DEF ObTurnedOffEffect, ObWorldIs, ObServed, ObRestarts
  <2>g2. ObRestarts(j)'
    BY <2>e, <1>m8, <2>h, <1>z, <1>k, <1>h, <1>n, <1>u, <1>d DEF ObTurnedOffEffect, ObWorldIs,
       ObPopped, ObRestarts, ObServed
  <2>g3. ObAnswered(j)'
    BY <2>e, <1>m8, <2>h, <1>s, <1>f, <1>k, <1>h, <1>u, <1>d DEF ObTurnedOffEffect, ObWorldIs,
       ObPopped, ObAnswered, ObServed
  <2> QED BY <2>g0, <2>g1, <2>g2, <2>g3
<1>m9. CASE ObMainStep /\ Head(obTodo).do = "admit"
  <2>e. ObAdmitsEffect BY <1>m9, ObAdmits
  <2>p. ObPops => ObPopped BY <1>m9, ObPopsHas
  <2>n. PICK n : n = ObAt OBVIOUS
  <2>s. Ftp /\ ObStops(ObAt) => ObHas("admit", j)
    BY <1>m9, <2>n, <1>f, <1>h, ObStopsHas DEF ObStopped
  <2> DEFINE o == ob[ObAt]
  <2>b. /\ UNCHANGED obMain /\ ObPopped
        /\ \/ UNCHANGED <<ob, obWorld>>
           \/ /\ o.sock # 0 /\ o.waiting /\ obWorld'.alive = obWorld.alive \cup {o.sock}
              /\ ObPart(ObAt, o.listen, o.sock, o.sock, FALSE, o.pc, o.conn, o.stopped)
    BY <2>e, <2>p, <2>s, <1>f, <1>h, <1>k, <1>m9 DEF ObAdmitsEffect, ObWorldIs, ObAnswered
  <2>1. CASE UNCHANGED <<ob, obWorld>>
    <3>1. ObKnown(j)' BY <2>1, <1>k DEF ObKnown
    <3>2. ObServed(j)' BY <2>1, <2>b, <1>k DEF ObServed
    <3>3. ObRestarts(j)' BY <2>1, <2>b, <1>k, <1>m9 DEF ObRestarts, ObPopped
    <3>4. ObAnswered(j)' BY <2>b, <1>s DEF ObAnswered, ObPopped
    <3> QED BY <3>1, <3>2, <3>3, <3>4
  <2>2. CASE /\ o.sock # 0 /\ o.waiting /\ obWorld'.alive = obWorld.alive \cup {o.sock}
             /\ ObPart(ObAt, o.listen, o.sock, o.sock, FALSE, o.pc, o.conn, o.stopped)
    <3>c. o.sock \in ObConn /\ obWorld.conns[o.sock].inst = ObAt
      BY <2>2, <1>w, <1>h, <1>m9 DEF ObNamedAt
    <3>1. CASE j = ObAt
      <4>1. /\ ob'[j].sock = ob[j].sock /\ ob'[j].session = ob[j].sock /\ ob'[j].waiting = FALSE
               /\ ob'[j].pc = ob[j].pc
            /\ ob[j].waiting /\ obWorld'.alive = obWorld.alive \cup {ob[j].sock} /\ UNCHANGED obMain
        BY <2>2, <2>b, <3>1 DEF ObPart
      <4>2. ob[j].pc \in ObQuiet /\ ob[j].session \notin obWorld.alive /\ ~ObHas("listen", j)
        BY <4>1, <1>k DEF ObServed, ObRestarts
      <4>3. ObKnown(j)' BY <4>1, <4>2, <3>1, <3>c, <1>z, <1>e, <1>k DEF ObKnown
      <4>4. ObServed(j)' BY <4>1, <4>2, <1>k DEF ObServed
      <4>5. ObRestarts(j)' BY <4>2, <2>b DEF ObRestarts, ObPopped
      <4>6. ObAnswered(j)' BY <2>b, <1>s DEF ObAnswered, ObPopped
      <4> QED BY <4>3, <4>4, <4>5, <4>6
    <3>2. CASE j # ObAt
      <4>1. ob'[j] = ob[j] /\ obWorld'.alive = obWorld.alive \cup {o.sock} /\ UNCHANGED obMain
        BY <2>2, <2>b, <3>2 DEF ObPart
      <4>2. ob[j].session # o.sock BY <3>2, <3>c, <1>w, <1>0 DEF ObNamedAt
      <4>3. ObKnown(j)' BY <4>1, <3>2, <3>c, <1>z, <1>e, <1>k DEF ObKnown
      <4>4. ObServed(j)' BY <4>1, <4>2, <1>k DEF ObServed
      <4>5. ObRestarts(j)' BY <4>1, <4>2, <2>b, <1>k, <1>m9 DEF ObRestarts, ObPopped
      <4>6. ObAnswered(j)' BY <2>b, <1>s DEF ObAnswered, ObPopped
      <4> QED BY <4>3, <4>4, <4>5, <4>6
    <3> QED BY <3>1, <3>2
  <2> QED BY <2>b, <2>1, <2>2
<1>m10. CASE ObMainStep /\ Head(obTodo).do = "refuse"
  <2>e. ObRefusesEffect BY <1>m10, ObRefuses
  <2>n. PICK n : n = ObAt OBVIOUS
  <2>p. ObPops => ObPopped BY <1>m10, ObPopsHas
  <2>s. ObStops(ObAt) => ObStopped(n) BY <1>m10, <2>n, ObStopsHas
  <2>h. ObPopped \/ ObStopped(n) BY <2>e, <2>p, <2>s DEF ObRefusesEffect
  <2>g0. ObKnown(j)'
    BY <2>e, <1>m10, <1>z, <1>e, <1>k, <1>h, <1>u, <1>v DEF ObRefusesEffect, ObPart, ObKnown,
       ObServed
  <2>g1. ObServed(j)'
    BY <2>e, <1>m10, <1>z, <1>k, <1>h, <1>u DEF ObRefusesEffect, ObPart, ObServed, ObRestarts
  <2>g2. ObRestarts(j)'
    <3>1. CASE ObPopped /\ UNCHANGED <<ob, obWorld>> BY <3>1, <1>k, <1>m10 DEF ObPopped, ObRestarts
    <3> DEFINE o == ob[ObAt]
    <3>2. CASE /\ ObStopped(n) /\ (Ftp \/ (o.sock # 0 /\ o.waiting)) /\ UNCHANGED obWorld
               /\ ObPart(ObAt, o.listen, o.sock, o.session, FALSE, o.pc, o.conn, o.stopped)
      <4>1. CASE j = ObAt
        <5>1. ob[j].pc \in ObQuiet
          BY <3>2, <4>1, <2>n, <1>k, <1>m10 DEF ObServed, ObAnswered, ObStopped
        <5>2. ob'[j].pc = ob[j].pc /\ ob'[j].waiting = FALSE BY <3>2, <4>1 DEF ObPart
        <5>3. ObHas("closeSock", j)' /\ ObHas("closeSession", j)'
          BY <3>2, <4>1, <2>n, <1>d DEF ObStopped
        <5> QED BY <5>1, <5>2, <5>3 DEF ObRestarts
      <4>2. CASE j # ObAt
        <5>1. ~ObHas("listen", j)' BY <3>2, <4>2, <2>n DEF ObStopped
        <5> QED BY <5>1 DEF ObRestarts
      <4> QED BY <4>1, <4>2
    <3> QED BY <2>e, <2>p, <2>s, <3>1, <3>2 DEF ObRefusesEffect
  <2>g3. ObAnswered(j)'
    BY <2>e, <1>m10, <2>h, <1>s, <1>f, <1>k, <1>h, <1>u, <1>d DEF ObRefusesEffect, ObPart, ObPopped,
       ObStopped, ObAnswered, ObServed
  <2> QED BY <2>g0, <2>g1, <2>g2, <2>g3
<1>m. CASE ObMainStep
  BY <1>m, <1>m1, <1>m2, <1>m3, <1>m4, <1>m5, <1>m6, <1>m7, <1>m8, <1>m9, <1>m10, ObHead DEF ObDos
<1>a1. CASE \E i \in ObInsts : ObCreate(i)
  <2>1. PICK i \in ObInsts : ObCreate(i) BY <1>a1
  <2>e. ObCreateEffect(i) BY <2>1, ObCreateDoes
  <2>h. ObSameTodo BY <2>e, ObTodoSame DEF ObCreateEffect
  <2>g0. ObKnown(j)'
    BY <2>e, <1>z, <1>e, <1>k, <1>h, <1>u, <1>v DEF ObCreateEffect, ObPart, ObKnown, ObServed
  <2>g1. ObServed(j)'
    BY <2>e, <1>z, <1>k, <1>h, <1>u DEF ObCreateEffect, ObPart, ObServed, ObRestarts
  <2>g2. ObRestarts(j)'
    BY <2>e, <2>h, <1>z, <1>k, <1>h, <1>n, <1>u, <1>d DEF ObCreateEffect, ObPart, ObSameTodo,
       ObRestarts, ObServed
  <2>g3. ObAnswered(j)'
    BY <2>e, <2>h, <1>s, <1>f, <1>k, <1>h, <1>u, <1>d DEF ObCreateEffect, ObPart, ObSameTodo,
       ObAnswered, ObServed
  <2> QED BY <2>g0, <2>g1, <2>g2, <2>g3
<1>a2. CASE \E i \in ObInsts : ObLoop(i)
  <2>1. PICK i \in ObInsts : ObLoop(i) BY <1>a2
  <2>e. ObLoopEffect(i) BY <2>1, ObLoopDoes
  <2>h. ObSameTodo BY <2>e, ObTodoSame DEF ObLoopEffect
  <2>g0. ObKnown(j)'
    BY <2>e, <1>z, <1>e, <1>k, <1>h, <1>u, <1>v DEF ObLoopEffect, ObPart, ObKnown, ObServed
  <2>g1. ObServed(j)'
    BY <2>e, <1>z, <1>k, <1>h, <1>u DEF ObLoopEffect, ObPart, ObServed, ObRestarts
  <2>g2. ObRestarts(j)'
    BY <2>e, <2>h, <1>z, <1>k, <1>h, <1>n, <1>u, <1>d DEF ObLoopEffect, ObPart, ObSameTodo,
       ObRestarts, ObServed
  <2>g3. ObAnswered(j)'
    BY <2>e, <2>h, <1>s, <1>f, <1>k, <1>h, <1>u, <1>d DEF ObLoopEffect, ObPart, ObSameTodo,
       ObAnswered, ObServed
  <2> QED BY <2>g0, <2>g1, <2>g2, <2>g3
<1>a3. CASE \E i \in ObInsts : ObAcceptFails(i)
  <2>1. PICK i \in ObInsts : ObAcceptFails(i) BY <1>a3
  <2>e. ObAcceptFailsEffect(i) BY <2>1, ObAcceptFailsDoes
  <2>h. ObSameTodo BY <2>e, ObTodoSame DEF ObAcceptFailsEffect
  <2>g0. ObKnown(j)'
    BY <2>e, <1>z, <1>e, <1>k, <1>h, <1>u, <1>v DEF ObAcceptFailsEffect, ObPart, ObKnown, ObServed
  <2>g1. ObServed(j)'
    BY <2>e, <1>z, <1>k, <1>h, <1>u DEF ObAcceptFailsEffect, ObPart, ObServed, ObRestarts
  <2>g2. ObRestarts(j)'
    BY <2>e, <2>h, <1>z, <1>k, <1>h, <1>n, <1>u, <1>d DEF ObAcceptFailsEffect, ObPart, ObSameTodo,
       ObRestarts, ObServed
  <2>g3. ObAnswered(j)'
    BY <2>e, <2>h, <1>s, <1>f, <1>k, <1>h, <1>u, <1>d DEF ObAcceptFailsEffect, ObPart, ObSameTodo,
       ObAnswered, ObServed
  <2> QED BY <2>g0, <2>g1, <2>g2, <2>g3
<1>a4. CASE \E i \in ObInsts : ObRemote(i)
  <2>1. PICK i \in ObInsts : ObRemote(i) BY <1>a4
  <2>e. ObRemoteEffect(i) BY <2>1, ObRemoteDoes
  <2>h. ObSameTodo BY <2>e, ObTodoSame DEF ObRemoteEffect
  <2>g0. ObKnown(j)'
    BY <2>e, <1>z, <1>e, <1>k, <1>h, <1>u, <1>v DEF ObRemoteEffect, ObPart, ObMainIs, ObKnown,
       ObServed
  <2>g1. ObServed(j)'
    BY <2>e, <1>z, <1>k, <1>h, <1>u DEF ObRemoteEffect, ObPart, ObMainIs, ObServed, ObRestarts
  <2>g2. ObRestarts(j)'
    BY <2>e, <2>h, <1>z, <1>k, <1>h, <1>n, <1>u, <1>d DEF ObRemoteEffect, ObPart, ObMainIs,
       ObSameTodo, ObRestarts, ObServed
  <2>g3. ObAnswered(j)'
    BY <2>e, <2>h, <1>s, <1>f, <1>k, <1>h, <1>u, <1>d DEF ObRemoteEffect, ObPart, ObMainIs,
       ObSameTodo, ObAnswered, ObServed
  <2> QED BY <2>g0, <2>g1, <2>g2, <2>g3
<1>a5. CASE \E i \in ObInsts : ObCheck(i)
  <2>1. PICK i \in ObInsts : ObCheck(i) BY <1>a5
  <2>e. ObCheckEffect(i) BY <2>1, ObCheckDoes
  <2>h. ObSameTodo BY <2>e, ObTodoSame DEF ObCheckEffect
  <2>g0. ObKnown(j)'
    BY <2>e, <1>z, <1>e, <1>k, <1>h, <1>u, <1>v DEF ObCheckEffect, ObPart, ObWorldIs, ObKnown,
       ObServed
  <2>g1. ObServed(j)'
    BY <2>e, <1>z, <1>k, <1>h, <1>u DEF ObCheckEffect, ObPart, ObWorldIs, ObServed, ObRestarts
  <2>g2. ObRestarts(j)'
    BY <2>e, <2>h, <1>z, <1>k, <1>h, <1>n, <1>u, <1>d DEF ObCheckEffect, ObPart, ObWorldIs,
       ObSameTodo, ObRestarts, ObServed
  <2>g3. ObAnswered(j)'
    BY <2>e, <2>h, <1>s, <1>f, <1>k, <1>h, <1>u, <1>d DEF ObCheckEffect, ObPart, ObWorldIs,
       ObSameTodo, ObAnswered, ObServed
  <2> QED BY <2>g0, <2>g1, <2>g2, <2>g3
<1>a6. CASE \E i \in ObInsts : ObTrust(i)
  <2>1. PICK i \in ObInsts : ObTrust(i) BY <1>a6
  <2>e. ObTrustEffect(i) BY <2>1, ObTrustDoes
  <2>h. ObSameTodo BY <2>e, ObTodoSame DEF ObTrustEffect
  <2>g0. ObKnown(j)'
    BY <2>e, <1>z, <1>e, <1>k, <1>h, <1>u, <1>v DEF ObTrustEffect, ObPart, ObKnown, ObServed
  <2>g1. ObServed(j)'
    BY <2>e, <1>z, <1>k, <1>h, <1>u DEF ObTrustEffect, ObPart, ObServed, ObRestarts
  <2>g2. ObRestarts(j)'
    BY <2>e, <2>h, <1>z, <1>k, <1>h, <1>n, <1>u, <1>d DEF ObTrustEffect, ObPart, ObSameTodo,
       ObRestarts, ObServed
  <2>g3. ObAnswered(j)'
    BY <2>e, <2>h, <1>s, <1>f, <1>k, <1>h, <1>u, <1>d DEF ObTrustEffect, ObPart, ObSameTodo,
       ObAnswered, ObServed
  <2> QED BY <2>g0, <2>g1, <2>g2, <2>g3
<1>a7. CASE \E i \in ObInsts : ObJoins(i)
  <2>1. PICK i \in ObInsts : ObJoins(i) BY <1>a7
  <2>e. ObJoinsEffect(i) BY <2>1, ObJoinsDoes
  <2>h. ObSameTodo BY <2>e, ObTodoSame DEF ObJoinsEffect
  <2>g0. ObKnown(j)'
    BY <2>e, <1>z, <1>e, <1>k, <1>h, <1>u, <1>v DEF ObJoinsEffect, ObPart, ObKnown, ObServed
  <2>g1. ObServed(j)'
    BY <2>e, <1>z, <1>k, <1>h, <1>u DEF ObJoinsEffect, ObPart, ObServed, ObRestarts
  <2>g2. ObRestarts(j)'
    BY <2>e, <2>h, <1>z, <1>k, <1>h, <1>n, <1>u, <1>d DEF ObJoinsEffect, ObPart, ObSameTodo,
       ObRestarts, ObServed
  <2>g3. ObAnswered(j)'
    BY <2>e, <2>h, <1>s, <1>f, <1>k, <1>h, <1>u, <1>d DEF ObJoinsEffect, ObPart, ObSameTodo,
       ObAnswered, ObServed
  <2> QED BY <2>g0, <2>g1, <2>g2, <2>g3
<1>a8. CASE \E i \in ObInsts : ObSession(i)
  <2>1. PICK i \in ObInsts : ObSession(i) BY <1>a8
  <2>e. ObSessionEffect(i) BY <2>1, ObSessionDoes
  <2>h. ObSameTodo BY <2>e, ObTodoSame DEF ObSessionEffect
  <2>a. ob[i].pc = "session" /\ ob[i].pc \notin ObQuiet BY <2>e, <1>u DEF ObSessionEffect
  <2> DEFINE o == ob[i]
  <2>b. /\ UNCHANGED obMain
        /\ \/ /\ obWorld'.alive = obWorld.alive
              /\ ObPart(i, o.listen, o.sock, o.session, o.waiting, "done", o.conn, o.stopped)
           \/ /\ o.sock # 0 /\ obWorld'.alive = obWorld.alive \cup {o.sock}
              /\ ObPart(i, o.listen, o.sock, o.sock, o.waiting, "done", o.conn, o.stopped)
    BY <2>e DEF ObSessionEffect, ObWorldIs
  <2>c. o.sock # 0 => o.sock \in ObConn /\ obWorld.conns[o.sock].inst = i BY <1>w DEF ObNamedAt
  <2>2. CASE j = i
    <3>1. /\ ob'[j].sock = ob[j].sock /\ ob'[j].waiting = ob[j].waiting /\ ob'[j].pc = "done"
             /\ UNCHANGED obMain
          /\ \/ obWorld'.alive = obWorld.alive /\ ob'[j].session = ob[j].session
             \/ o.sock # 0 /\ obWorld'.alive = obWorld.alive \cup {ob[j].sock}
                /\ ob'[j].session = ob[j].sock
      BY <2>2, <2>b DEF ObPart
    <3>2. /\ ~ob[j].waiting /\ ob[j].session \notin obWorld.alive /\ ~ObHas("listen", j)
          /\ (Ftp => ~ObHas("refuse", j) /\ ~ObHas("admit", j))
      BY <2>2, <2>a, <1>k DEF ObServed, ObRestarts, ObAnswered
    <3>3. ObKnown(j)' BY <3>1, <3>2, <2>2, <2>c, <1>z, <1>e, <1>k DEF ObKnown
    <3>4. ObServed(j)' BY <3>1, <3>2, <1>u DEF ObServed
    <3>5. ObRestarts(j)' BY <3>2, <2>h DEF ObRestarts, ObSameTodo
    <3>6. ObAnswered(j)' BY <3>2, <2>h, <1>s DEF ObAnswered, ObSameTodo
    <3> QED BY <3>3, <3>4, <3>5, <3>6
  <2>3. CASE j # i
    <3>1. /\ ob'[j] = ob[j] /\ UNCHANGED obMain
          /\ \/ obWorld'.alive = obWorld.alive
             \/ o.sock # 0 /\ obWorld'.alive = obWorld.alive \cup {o.sock}
      BY <2>3, <2>b DEF ObPart
    <3>2. o.sock # 0 => ob[j].session # o.sock BY <2>3, <2>c, <1>w DEF ObNamedAt
    <3>3. ObKnown(j)' BY <3>1, <2>3, <2>c, <1>z, <1>e, <1>k DEF ObKnown
    <3>4. ObServed(j)' BY <3>1, <3>2, <1>k DEF ObServed
    <3>5. ObRestarts(j)' BY <3>1, <3>2, <2>h, <1>k DEF ObRestarts, ObSameTodo
    <3>6. ObAnswered(j)' BY <3>1, <2>h, <1>s, <1>k DEF ObAnswered, ObSameTodo
    <3> QED BY <3>3, <3>4, <3>5, <3>6
  <2> QED BY <2>2, <2>3
<1>a9. CASE \E i \in ObInsts : ObWait(i)
  <2>1. PICK i \in ObInsts : ObWait(i) BY <1>a9
  <2>e. ObWaitEffect(i) BY <2>1, ObWaitDoes
  <2>h. ObSameTodo BY <2>e, ObTodoSame DEF ObWaitEffect
  <2>g0. ObKnown(j)'
    BY <2>e, <1>z, <1>e, <1>k, <1>h, <1>u, <1>v DEF ObWaitEffect, ObPart, ObMainIs, ObWorldIs,
       ObKnown, ObServed
  <2>g1. ObServed(j)'
    BY <2>e, <1>z, <1>k, <1>h, <1>u DEF ObWaitEffect, ObPart, ObMainIs, ObWorldIs, ObServed,
       ObRestarts
  <2>g2. ObRestarts(j)'
    BY <2>e, <2>h, <1>z, <1>k, <1>h, <1>n, <1>u, <1>d DEF ObWaitEffect, ObPart, ObMainIs, ObWorldIs,
       ObSameTodo, ObRestarts, ObServed
  <2>g3. ObAnswered(j)'
    BY <2>e, <2>h, <1>s, <1>f, <1>k, <1>h, <1>u, <1>d DEF ObWaitEffect, ObPart, ObMainIs, ObWorldIs,
       ObSameTodo, ObAnswered, ObServed
  <2> QED BY <2>g0, <2>g1, <2>g2, <2>g3
<1>a10. CASE \E i \in ObInsts : ObTimer(i)
  <2>1. PICK i \in ObInsts : ObTimer(i) BY <1>a10
  <2>e. ObTimerEffect(i) BY <2>1, ObTimerDoes
  <2>h. ObSameTodo BY <2>e, ObTodoSame DEF ObTimerEffect
  <2>g0. ObKnown(j)'
    BY <2>e, <1>z, <1>e, <1>k, <1>h, <1>u, <1>v DEF ObTimerEffect, ObPart, ObMainIs, ObKnown,
       ObServed
  <2>g1. ObServed(j)'
    BY <2>e, <1>z, <1>k, <1>h, <1>u DEF ObTimerEffect, ObPart, ObMainIs, ObServed, ObRestarts
  <2>g2. ObRestarts(j)'
    BY <2>e, <2>h, <1>z, <1>k, <1>h, <1>n, <1>u, <1>d DEF ObTimerEffect, ObPart, ObMainIs,
       ObSameTodo, ObRestarts, ObServed
  <2>g3. ObAnswered(j)'
    BY <2>e, <2>h, <1>s, <1>f, <1>k, <1>h, <1>u, <1>d DEF ObTimerEffect, ObPart, ObMainIs,
       ObSameTodo, ObAnswered, ObServed
  <2> QED BY <2>g0, <2>g1, <2>g2, <2>g3
<1>a. CASE \E i \in ObInsts : ObAcceptThread(i)
  BY <1>a, <1>a1, <1>a2, <1>a3, <1>a4, <1>a5, <1>a6, <1>a7, <1>a8, <1>a9, <1>a10 DEF ObAcceptThread
<1>o1. CASE ObStartListener
  <2>e. ObStartListenerEffect BY <1>o1, ObStartListenerDoes
  <2>h. \/ obWorld.adapter = "on" /\ \A e, n : ObHas(e, n)' <=> e = "listen" /\ n \in ObInsts
        \/ obWorld.adapter # "on" /\ \A e, n : ObHas(e, n)' <=> e \in ObClosers /\ n \in ObInsts
    BY <2>e, ObHasEach, ObHasClosers DEF ObStartListenerEffect
  <2>g0. ObKnown(j)'
    BY <2>e, <1>z, <1>e, <1>k, <1>h, <1>u, <1>v DEF ObStartListenerEffect, ObMainIs, ObKnown,
       ObServed
  <2>g1. ObServed(j)'
    BY <2>e, <1>z, <1>k, <1>h, <1>u DEF ObStartListenerEffect, ObMainIs, ObServed, ObRestarts
  <2>g2. ObRestarts(j)'
    <3>1. ob[j].pc = "none" /\ ObConn = {} BY <2>e DEF ObStartListenerEffect, ObStarts
    <3>n. ObNamedAt(j) BY <1>w
    <3>3. ob[j].sock = 0 BY <3>1, <3>n DEF ObNamedAt
    <3>4. ~ob[j].waiting BY <3>1, <3>n DEF ObNamedAt
    <3>5. obWorld.alive = {} BY <3>1, <1>z
    <3>2. ob[j].sock = 0 /\ ~ob[j].waiting /\ obWorld.alive = {} BY <3>3, <3>4, <3>5
    <3> QED BY <3>1, <3>2, <2>e, <1>u DEF ObStartListenerEffect, ObRestarts
  <2>g3. ObAnswered(j)'
    BY <2>e, <2>h, <1>s, <1>f, <1>k, <1>h, <1>u, <1>d DEF ObStartListenerEffect, ObMainIs,
       ObAnswered, ObServed
  <2> QED BY <2>g0, <2>g1, <2>g2, <2>g3
<1>o2. CASE \E t \in obMain.timeouts : ObUserTimeout(t)
  <2>1. PICK t \in obMain.timeouts : ObUserTimeout(t) BY <1>o2
  <2>e. ObUserTimeoutEffect(t) BY <2>1, ObUserTimeoutDoes
  <2>h. \A e, n : ObHas(e, n)' <=> e = "refuse" /\ n \in ObInsts
    BY <2>e, ObHasEach DEF ObUserTimeoutEffect, ObRefuse
  <2>g0. ObKnown(j)'
    BY <2>e, <1>z, <1>e, <1>k, <1>h, <1>u, <1>v DEF ObUserTimeoutEffect, ObMainIs, ObKnown, ObServed
  <2>g1. ObServed(j)'
    BY <2>e, <1>z, <1>k, <1>h, <1>u DEF ObUserTimeoutEffect, ObMainIs, ObServed, ObRestarts
  <2>g2. ObRestarts(j)'
    BY <2>e, <2>h, <1>z, <1>k, <1>h, <1>n, <1>u, <1>d DEF ObUserTimeoutEffect, ObMainIs, ObRestarts,
       ObServed
  <2>g3. ObAnswered(j)'
    BY <2>e, <2>h, <1>s, <1>f, <1>k, <1>r DEF ObUserTimeoutEffect, ObAnswered, ObServed
  <2> QED BY <2>g0, <2>g1, <2>g2, <2>g3
<1>o3. CASE \E t \in obMain.closes : ObServerSessionClose(t)
  <2>1. PICK t \in obMain.closes : ObServerSessionClose(t) BY <1>o3
  <2>e. ObServerSessionCloseEffect(t) BY <2>1, ObServerSessionCloseDoes
  <2>n. obTodo' = <<>> => \A e, n : ~ObHas(e, n)' BY ObHasList, ObNoSteps
  <2>h. \/ \A e, n : ObHas(e, n)' <=> e \in ObStoppers /\ n = t[1]
        \/ \A e, n : ~ObHas(e, n)'
    BY <2>e, <2>n, ObHasStopped DEF ObServerSessionCloseEffect
  <2>g0. ObKnown(j)'
    BY <2>e, <1>z, <1>e, <1>k, <1>h, <1>u, <1>v DEF ObServerSessionCloseEffect, ObMainIs, ObKnown,
       ObServed
  <2>g1. ObServed(j)'
    BY <2>e, <1>z, <1>k, <1>h, <1>u DEF ObServerSessionCloseEffect, ObMainIs, ObServed, ObRestarts
  <2>g2. ObRestarts(j)'
    <3>1. CASE \A e, n : ~ObHas(e, n)' BY <3>1 DEF ObRestarts
    <3>2. CASE j # t[1] BY <3>2, <2>h DEF ObRestarts
    <3>3. CASE j = t[1] /\ obTodo' = stopObexServerSession(t[1])
      <4>s. obTodo' # <<>> BY <3>3, ObStopList
      <4>t. t = <<t[1], t[2]>> BY <2>1 DEF ObTyped, ObMainSet
      <4>3. ob[j].sock = t[2] BY <3>3, <4>s, <2>e, <1>r DEF ObServerSessionCloseEffect
      <4>1. <<j, ob[j].sock>> \in obMain.closes BY <3>3, <4>3, <4>t, <2>1
      <4>2. ObHas("closeSock", j)' /\ ObHas("closeSession", j)' BY <3>3, <1>d, ObHasStopped
      <4> QED BY <4>1, <4>2, <2>e, <1>k DEF ObServerSessionCloseEffect, ObServed, ObRestarts
    <3> QED BY <3>1, <3>2, <3>3, <2>e, <2>n DEF ObServerSessionCloseEffect
  <2>g3. ObAnswered(j)'
    BY <2>e, <2>h, <1>s, <1>f, <1>k, <1>h, <1>u, <1>d DEF ObServerSessionCloseEffect, ObMainIs,
       ObAnswered, ObServed
  <2> QED BY <2>g0, <2>g1, <2>g2, <2>g3
<1>o4. CASE ObTurnOn
  <2>e. ObTurnOnEffect BY <1>o4, ObTurnOnDoes
  <2>h. ObSameTodo BY <2>e, ObTodoSame DEF ObTurnOnEffect
  <2>g0. ObKnown(j)'
    BY <2>e, <1>z, <1>e, <1>k, <1>h, <1>u, <1>v DEF ObTurnOnEffect, ObMainIs, ObWorldIs, ObKnown,
       ObServed
  <2>g1. ObServed(j)'
    BY <2>e, <1>z, <1>k, <1>h, <1>u DEF ObTurnOnEffect, ObMainIs, ObWorldIs, ObServed, ObRestarts
  <2>g2. ObRestarts(j)'
    BY <2>e, <2>h, <1>z, <1>k, <1>h, <1>n, <1>u, <1>d DEF ObTurnOnEffect, ObMainIs, ObWorldIs,
       ObSameTodo, ObRestarts, ObServed
  <2>g3. ObAnswered(j)'
    BY <2>e, <2>h, <1>s, <1>f, <1>k, <1>h, <1>u, <1>d DEF ObTurnOnEffect, ObMainIs, ObWorldIs,
       ObSameTodo, ObAnswered, ObServed
  <2> QED BY <2>g0, <2>g1, <2>g2, <2>g3
<1>o5. CASE ObTurnOff
  <2>e. ObTurnOffEffect BY <1>o5, ObTurnOffDoes
  <2>h. /\ \A e, n : ObHas(e, n)' <=> (e \in ObClosers /\ n \in ObInsts) \/ (e = "off" /\ n = 0)
        /\ ObEnds(obTodo)'
    BY <2>e, ObHasClosers DEF ObTurnOffEffect
  <2>g0. ObKnown(j)'
    BY <2>e, <1>z, <1>e, <1>k, <1>h, <1>u, <1>v DEF ObTurnOffEffect, ObWorldIs, ObKnown, ObServed
  <2>g1. ObServed(j)'
    BY <2>e, <1>z, <1>k, <1>h, <1>u DEF ObTurnOffEffect, ObWorldIs, ObServed, ObRestarts
  <2>g2. ObRestarts(j)'
    BY <2>e, <2>h, <1>z, <1>k, <1>h, <1>n, <1>u, <1>d DEF ObTurnOffEffect, ObWorldIs, ObRestarts,
       ObServed
  <2>g3. ObAnswered(j)'
    BY <2>e, <2>h, <1>s, <1>f, <1>k, <1>h, <1>u, <1>d DEF ObTurnOffEffect, ObWorldIs, ObAnswered,
       ObServed
  <2> QED BY <2>g0, <2>g1, <2>g2, <2>g3
<1>o6. CASE ObSessionGivenUp
  <2>e. ObGivenUpEffect BY <1>o6, ObGivenUpDoes
  <2>h. ObSameTodo \/ \A e, n : ObHas(e, n)' <=> e \in ObStoppers /\ n = 0
    BY <2>e, <1>i, ObTodoSame, ObHasStopped DEF ObGivenUpEffect
  <2>g0. ObKnown(j)'
    BY <2>e, <1>z, <1>e, <1>k, <1>h, <1>u, <1>v DEF ObGivenUpEffect, ObMainIs, ObKnown, ObServed
  <2>g1. ObServed(j)'
    BY <2>e, <1>z, <1>k, <1>h, <1>u DEF ObGivenUpEffect, ObMainIs, ObServed, ObRestarts
  <2>g2. ObRestarts(j)'
    <3>1. CASE ObSameTodo BY <3>1, <2>e, <1>k DEF ObGivenUpEffect, ObSameTodo, ObRestarts
    <3>2. CASE Ftp /\ ob[0].session \in obWorld.alive /\ obTodo' = stopObexServerSession(0)
      <4>1. ObHas("closeSock", j)' /\ ObHas("closeSession", j)' BY <3>2, <1>d, <1>f, ObHasStopped
      <4> QED BY <3>2, <4>1, <2>e, <1>f, <1>k DEF ObGivenUpEffect, ObServed, ObRestarts
    <3> QED BY <3>1, <3>2, <2>e, ObTodoSame DEF ObGivenUpEffect
  <2>g3. ObAnswered(j)'
    BY <2>e, <2>h, <1>s, <1>f, <1>k, <1>h, <1>u, <1>d DEF ObGivenUpEffect, ObMainIs, ObSameTodo,
       ObAnswered, ObServed
  <2> QED BY <2>g0, <2>g1, <2>g2, <2>g3
<1>o7. CASE \E d \in ObDevices : ObAclDisconnected(d)
  <2>1. PICK d \in ObDevices : ObAclDisconnected(d) BY <1>o7
  <2>e. ObAclEffect(d) BY <2>1, ObAclDoes
  <2>h. ObSameTodo \/ \A e, n : ObHas(e, n)' <=> e \in {"refuse", "removeTimeouts"} /\ n = 0
    BY <2>e, ObTodoSame, ObHasRefused DEF ObAclEffect
  <2>g0. ObKnown(j)'
    BY <2>e, <1>z, <1>e, <1>k, <1>h, <1>u, <1>v DEF ObAclEffect, ObMainIs, ObKnown, ObServed
  <2>g1. ObServed(j)'
    BY <2>e, <1>z, <1>k, <1>h, <1>u DEF ObAclEffect, ObMainIs, ObServed, ObRestarts
  <2>g2. ObRestarts(j)'
    BY <2>e, <2>h, <1>z, <1>k, <1>h, <1>n, <1>u, <1>d DEF ObAclEffect, ObMainIs, ObSameTodo,
       ObRestarts, ObServed
  <2>g3. ObAnswered(j)'
    BY <2>e, <2>h, <1>s, <1>f, <1>k, <1>h, <1>u, <1>d DEF ObAclEffect, ObMainIs, ObSameTodo,
       ObAnswered, ObServed
  <2> QED BY <2>g0, <2>g1, <2>g2, <2>g3
<1>o8. CASE \E c \in ObConn : ObAllowed(c)
  <2>1. PICK c \in ObConn : ObAllowed(c) BY <1>o8
  <2>e. ObAllowedEffect(c) BY <2>1, ObAllowedDoes
  <2>n. obTodo' = <<>> => \A e, n : ~ObHas(e, n)' BY ObHasList, ObNoSteps
  <2>h. \/ \A e, n : ~ObHas(e, n)'
        \/ \A e, n : ObHas(e, n)' <=> (e = "admit" /\ n \in ObInsts) \/ (e = "removeTimeouts" /\ n = 0)
    BY <2>e, <2>n, ObHasEach DEF ObAllowedEffect
  <2>g0. ObKnown(j)'
    BY <2>e, <1>z, <1>e, <1>k, <1>h, <1>u, <1>v DEF ObAllowedEffect, ObWorldIs, ObKnown, ObServed
  <2>g1. ObServed(j)'
    BY <2>e, <1>z, <1>k, <1>h, <1>u DEF ObAllowedEffect, ObWorldIs, ObServed, ObRestarts
  <2>g2. ObRestarts(j)'
    BY <2>e, <2>h, <1>z, <1>k, <1>h, <1>n, <1>u, <1>d DEF ObAllowedEffect, ObWorldIs, ObRestarts,
       ObServed
  <2>g3. ObAnswered(j)'
    BY <2>1, <2>e, <2>h, <1>s, <1>f, <1>k, <1>r, <1>0 DEF ObAllowedEffect, ObAnswered, ObServed
  <2> QED BY <2>g0, <2>g1, <2>g2, <2>g3
<1>o9. CASE \E c \in ObConn : ObDisallowed(c)
  <2>1. PICK c \in ObConn : ObDisallowed(c) BY <1>o9
  <2>e. ObDisallowedEffect(c) BY <2>1, ObDisallowedDoes
  <2>h. \A e, n : ObHas(e, n)' <=> (e = "refuse" /\ n \in ObInsts) \/ (e = "removeTimeouts" /\ n = 0)
    BY <2>e, ObHasEach DEF ObDisallowedEffect, ObRefuse
  <2>g0. ObKnown(j)'
    BY <2>e, <1>z, <1>e, <1>k, <1>h, <1>u, <1>v DEF ObDisallowedEffect, ObMainIs, ObWorldIs,
       ObKnown, ObServed
  <2>g1. ObServed(j)'
    BY <2>e, <1>z, <1>k, <1>h, <1>u DEF ObDisallowedEffect, ObMainIs, ObWorldIs, ObServed,
       ObRestarts
  <2>g2. ObRestarts(j)'
    BY <2>e, <2>h, <1>z, <1>k, <1>h, <1>n, <1>u, <1>d DEF ObDisallowedEffect, ObMainIs, ObWorldIs,
       ObRestarts, ObServed
  <2>g3. ObAnswered(j)'
    <3>1. ObAnswered(j) /\ ObServed(j) BY <1>k
    <3>2. ASSUME Ftp PROVE ob[j].waiting /\ j = 0
      <4>1. j = 0 /\ ObInsts = {0} BY <3>2, <1>f
      <4>2. \E i \in ObInsts : ob[i].waiting BY <3>2, <2>e, <1>r DEF ObDisallowedEffect
      <4> QED BY <4>1, <4>2
    <3>3. ~ObHas("admit", j)' BY <2>h
    <3>4. UNCHANGED ob BY <2>e DEF ObDisallowedEffect
    <3> QED BY <3>1, <3>2, <3>3, <3>4, <1>s DEF ObAnswered, ObServed
  <2> QED BY <2>g0, <2>g1, <2>g2, <2>g3
<1>o10. CASE \E c \in ObConn : ObLinkLost(c)
  <2>1. PICK c \in ObConn : ObLinkLost(c) BY <1>o10
  <2>e. ObLinkLostEffect(c) BY <2>1, ObLinkLostDoes
  <2>h. ObSameTodo BY <2>e, ObTodoSame DEF ObLinkLostEffect
  <2>g0. ObKnown(j)'
    BY <2>e, <1>z, <1>e, <1>k, <1>h, <1>u, <1>v DEF ObLinkLostEffect, ObWorldIs, ObKnown, ObServed
  <2>g1. ObServed(j)'
    BY <2>e, <1>z, <1>k, <1>h, <1>u DEF ObLinkLostEffect, ObWorldIs, ObServed, ObRestarts
  <2>g2. ObRestarts(j)'
    BY <2>e, <2>h, <1>z, <1>k, <1>h, <1>n, <1>u, <1>d DEF ObLinkLostEffect, ObWorldIs, ObSameTodo,
       ObRestarts, ObServed
  <2>g3. ObAnswered(j)'
    BY <2>e, <2>h, <1>s, <1>f, <1>k, <1>h, <1>u, <1>d DEF ObLinkLostEffect, ObWorldIs, ObSameTodo,
       ObAnswered, ObServed
  <2> QED BY <2>g0, <2>g1, <2>g2, <2>g3
<1>o11. CASE \E i \in ObInsts, d \in ObDevices, trust \in BOOLEAN : ObConnects(i, d, trust)
  <2>1. PICK i \in ObInsts, d \in ObDevices, trust \in BOOLEAN : ObConnects(i, d, trust) BY <1>o11
  <2>e. ObConnectsEffect(i, d, trust) BY <2>1, ObConnectsDoes
  <2>h. ObSameTodo BY <2>e, ObTodoSame DEF ObConnectsEffect
  <2>a. /\ obWorld'.alive = obWorld.alive /\ UNCHANGED obMain /\ ob'[j].session = ob[j].session
           /\ ob'[j].waiting = ob[j].waiting
        /\ \/ ob'[j] = ob[j]
           \/ /\ ob[j].pc = "blocked" /\ ob'[j].pc = "remote"
                 /\ ob'[j].sock = Len(obWorld.conns) + 1
    BY <2>e DEF ObConnectsEffect, ObPart, ObWorldIs
  <2>b. <<j, Len(obWorld.conns) + 1>> \notin obMain.closes
    <3>1. Len(obWorld.conns) + 1 \notin ObConn BY <2>1, ObKeptMore
    <3> QED BY <3>1, <1>w DEF ObNames
  <2>g0. ObKnown(j)'
    <3>1. ASSUME NEW c \in obWorld.alive PROVE obWorld'.conns[c] = obWorld.conns[c]
      <4>1. c \in ObConn BY <1>z
      <4> QED BY <4>1, <1>e
    <3> QED BY <3>1, <2>a, <1>k DEF ObKnown
  <2>g1. ObServed(j)'
    BY <2>a, <2>b, <1>u, <1>k DEF ObServed
  <2>g2. ObRestarts(j)'
    BY <2>e, <2>h, <1>z, <1>k, <1>h, <1>n, <1>u, <1>d DEF ObConnectsEffect, ObPart, ObWorldIs,
       ObSameTodo, ObRestarts, ObServed
  <2>g3. ObAnswered(j)'
    BY <2>e, <2>h, <1>s, <1>f, <1>k, <1>h, <1>u, <1>d DEF ObConnectsEffect, ObPart, ObWorldIs,
       ObSameTodo, ObAnswered, ObServed
  <2> QED BY <2>g0, <2>g1, <2>g2, <2>g3
<1>o12. CASE \E c \in obWorld.alive : ObSessionEnds(c)
  <2>1. PICK c \in obWorld.alive : ObSessionEnds(c) BY <1>o12
  <2>2. c \in ObConn BY DEF ObNamed, ObNames
  <2>e. ObSessionEndsEffect(c) BY <2>1, ObSessionEndsDoes, <2>2
  <2>h. ObSameTodo BY <2>e, ObTodoSame DEF ObSessionEndsEffect
  <2>a. obWorld'.alive = obWorld.alive \ {c}
        /\ obMain'.closes = obMain.closes \cup {<<obWorld.conns[c].inst, c>>} /\ UNCHANGED ob
    BY <2>e DEF ObSessionEndsEffect, ObWorldIs, ObMainIs
  <2>b. obWorld.conns[c].inst = j => ob[j].session = c BY <2>1, <1>k DEF ObKnown
  <2>g0. ObKnown(j)'
    BY <2>e, <1>z, <1>e, <1>k, <1>h, <1>u, <1>v DEF ObSessionEndsEffect, ObMainIs, ObWorldIs,
       ObKnown, ObServed
  <2>g1. ObServed(j)'
    <3>1. <<j, ob[j].sock>> \in obMain'.closes =>
            <<j, ob[j].sock>> \in obMain.closes \/ (obWorld.conns[c].inst = j /\ ob[j].sock = c)
      BY <2>a
    <3> QED BY <3>1, <2>1, <2>a, <2>b, <1>k DEF ObServed
  <2>g2. ObRestarts(j)'
    BY <2>e, <2>h, <1>z, <1>k, <1>h, <1>n, <1>u, <1>d DEF ObSessionEndsEffect, ObMainIs, ObWorldIs,
       ObSameTodo, ObRestarts, ObServed
  <2>g3. ObAnswered(j)'
    BY <2>e, <2>h, <1>s, <1>f, <1>k, <1>h, <1>u, <1>d DEF ObSessionEndsEffect, ObMainIs, ObWorldIs,
       ObSameTodo, ObAnswered, ObServed
  <2> QED BY <2>g0, <2>g1, <2>g2, <2>g3
<1>q. QED
  BY <1>m, <1>a, <1>o1, <1>o2, <1>o3, <1>o4, <1>o5, <1>o6, <1>o7, <1>o8, <1>o9, <1>o10, <1>o11,
     <1>o12 DEF ObRuns, ObHandler, ObEnvironment

\* The connection of an instance has passed isAllowedConnection.
ObChecked(i) == ob[i].sock # 0 /\ ob[i].pc \notin {"remote", "check"}
ObDevOf(i) == ObDev(ob[i].sock)

\* Both message instances serve one device; a session that is linked is on
\* the connection of the moment.
ObOneSession(i) == ob[i].session \in obWorld.linked => ob[i].session = ob[i].sock
      /\ ob[i].pc \in ObQuiet
ObOneDev ==
  ~Ftp /\ ObCalm /\ "masked" \notin obPast =>
    /\ ObChecked(0) /\ ObChecked(1) => ObDevOf(0) = ObDevOf(1)
    /\ ob[1].pc = "check" /\ ob[1].sock # 0 /\ ObChecked(0) =>
       ObDevOf(1) \in {ObDevOf(0), ObDev(obMain.remote)}
    /\ \A i \in ObInsts : ObOneSession(i)

\* The answer admits whatever waits, and nothing else is in the list.
ObOnlyAdmits == \A n : ObHas("admit", n) => \A d, i : ObHas(d, i) =>
      d \in {"admit", "removeTimeouts"}

\* A device that is trusted or allowed stays so.
LEMMA ObAllowedGrows ==
  ASSUME ObTyped, ObNamed, ObRuns
  PROVE  obWorld.allowed \subseteq obWorld'.allowed
<1>m1. CASE ObMainStep /\ Head(obTodo).do = "closeListen"
  <2>e. ObClosesListenEffect BY <1>m1, ObClosesListen
  <2> QED BY <2>e DEF ObClosesListenEffect
<1>m2. CASE ObMainStep /\ Head(obTodo).do = "closeSock"
  <2>e. ObClosesSockEffect BY <1>m2, ObClosesSock
  <2> QED BY <2>e DEF ObClosesSockEffect, ObWorldIs
<1>m3. CASE ObMainStep /\ Head(obTodo).do = "closeSession"
  <2>e. ObClosesSessionEffect BY <1>m3, ObClosesSession
  <2> QED BY <2>e DEF ObClosesSessionEffect, ObWorldIs
<1>m4. CASE ObMainStep /\ Head(obTodo).do = "stop"
  <2>e. ObStopsThreadEffect BY <1>m4, ObStopsThread
  <2> QED BY <2>e DEF ObStopsThreadEffect
<1>m5. CASE ObMainStep /\ Head(obTodo).do = "join"
  <2>e. ObJoinsThreadEffect BY <1>m5, ObJoinsThread
  <2> QED BY <2>e DEF ObJoinsThreadEffect
<1>m6. CASE ObMainStep /\ Head(obTodo).do = "listen"
  <2>e. ObListensEffect BY <1>m6, ObListens
  <2> QED BY <2>e DEF ObListensEffect
<1>m7. CASE ObMainStep /\ Head(obTodo).do = "removeTimeouts"
  <2>e. ObRemovesTimeoutsEffect BY <1>m7, ObRemovesTimeouts
  <2> QED BY <2>e DEF ObRemovesTimeoutsEffect
<1>m8. CASE ObMainStep /\ Head(obTodo).do = "off"
  <2>e. ObTurnedOffEffect BY <1>m8, ObTurnedOff
  <2> QED BY <2>e DEF ObTurnedOffEffect, ObWorldIs
<1>m9. CASE ObMainStep /\ Head(obTodo).do = "admit"
  <2>e. ObAdmitsEffect BY <1>m9, ObAdmits
  <2> QED BY <2>e DEF ObAdmitsEffect, ObWorldIs
<1>m10. CASE ObMainStep /\ Head(obTodo).do = "refuse"
  <2>e. ObRefusesEffect BY <1>m10, ObRefuses
  <2> QED BY <2>e DEF ObRefusesEffect
<1>m. CASE ObMainStep
  BY <1>m, <1>m1, <1>m2, <1>m3, <1>m4, <1>m5, <1>m6, <1>m7, <1>m8, <1>m9, <1>m10, ObHead DEF ObDos
<1>a1. CASE \E i \in ObInsts : ObCreate(i)
  <2>1. PICK i \in ObInsts : ObCreate(i) BY <1>a1
  <2>e. ObCreateEffect(i) BY <2>1, ObCreateDoes
  <2> QED BY <2>e DEF ObCreateEffect
<1>a2. CASE \E i \in ObInsts : ObLoop(i)
  <2>1. PICK i \in ObInsts : ObLoop(i) BY <1>a2
  <2>e. ObLoopEffect(i) BY <2>1, ObLoopDoes
  <2> QED BY <2>e DEF ObLoopEffect
<1>a3. CASE \E i \in ObInsts : ObAcceptFails(i)
  <2>1. PICK i \in ObInsts : ObAcceptFails(i) BY <1>a3
  <2>e. ObAcceptFailsEffect(i) BY <2>1, ObAcceptFailsDoes
  <2> QED BY <2>e DEF ObAcceptFailsEffect
<1>a4. CASE \E i \in ObInsts : ObRemote(i)
  <2>1. PICK i \in ObInsts : ObRemote(i) BY <1>a4
  <2>e. ObRemoteEffect(i) BY <2>1, ObRemoteDoes
  <2> QED BY <2>e DEF ObRemoteEffect
<1>a5. CASE \E i \in ObInsts : ObCheck(i)
  <2>1. PICK i \in ObInsts : ObCheck(i) BY <1>a5
  <2>e. ObCheckEffect(i) BY <2>1, ObCheckDoes
  <2> QED BY <2>e DEF ObCheckEffect, ObWorldIs
<1>a6. CASE \E i \in ObInsts : ObTrust(i)
  <2>1. PICK i \in ObInsts : ObTrust(i) BY <1>a6
  <2>e. ObTrustEffect(i) BY <2>1, ObTrustDoes
  <2> QED BY <2>e DEF ObTrustEffect
<1>a7. CASE \E i \in ObInsts : ObJoins(i)
  <2>1. PICK i \in ObInsts : ObJoins(i) BY <1>a7
  <2>e. ObJoinsEffect(i) BY <2>1, ObJoinsDoes
  <2> QED BY <2>e DEF ObJoinsEffect
<1>a8. CASE \E i \in ObInsts : ObSession(i)
  <2>1. PICK i \in ObInsts : ObSession(i) BY <1>a8
  <2>e. ObSessionEffect(i) BY <2>1, ObSessionDoes
  <2> QED BY <2>e DEF ObSessionEffect, ObWorldIs
<1>a9. CASE \E i \in ObInsts : ObWait(i)
  <2>1. PICK i \in ObInsts : ObWait(i) BY <1>a9
  <2>e. ObWaitEffect(i) BY <2>1, ObWaitDoes
  <2> QED BY <2>e DEF ObWaitEffect, ObWorldIs
<1>a10. CASE \E i \in ObInsts : ObTimer(i)
  <2>1. PICK i \in ObInsts : ObTimer(i) BY <1>a10
  <2>e. ObTimerEffect(i) BY <2>1, ObTimerDoes
  <2> QED BY <2>e DEF ObTimerEffect
<1>a. CASE \E i \in ObInsts : ObAcceptThread(i)
  BY <1>a, <1>a1, <1>a2, <1>a3, <1>a4, <1>a5, <1>a6, <1>a7, <1>a8, <1>a9, <1>a10 DEF ObAcceptThread
<1>o1. CASE ObStartListener
  <2>e. ObStartListenerEffect BY <1>o1, ObStartListenerDoes
  <2> QED BY <2>e DEF ObStartListenerEffect
<1>o2. CASE \E t \in obMain.timeouts : ObUserTimeout(t)
  <2>1. PICK t \in obMain.timeouts : ObUserTimeout(t) BY <1>o2
  <2>e. ObUserTimeoutEffect(t) BY <2>1, ObUserTimeoutDoes
  <2> QED BY <2>e DEF ObUserTimeoutEffect
<1>o3. CASE \E t \in obMain.closes : ObServerSessionClose(t)
  <2>1. PICK t \in obMain.closes : ObServerSessionClose(t) BY <1>o3
  <2>e. ObServerSessionCloseEffect(t) BY <2>1, ObServerSessionCloseDoes
  <2> QED BY <2>e DEF ObServerSessionCloseEffect
<1>o4. CASE ObTurnOn
  <2>e. ObTurnOnEffect BY <1>o4, ObTurnOnDoes
  <2> QED BY <2>e DEF ObTurnOnEffect, ObWorldIs
<1>o5. CASE ObTurnOff
  <2>e. ObTurnOffEffect BY <1>o5, ObTurnOffDoes
  <2> QED BY <2>e DEF ObTurnOffEffect, ObWorldIs
<1>o6. CASE ObSessionGivenUp
  <2>e. ObGivenUpEffect BY <1>o6, ObGivenUpDoes
  <2> QED BY <2>e DEF ObGivenUpEffect
<1>o7. CASE \E d \in ObDevices : ObAclDisconnected(d)
  <2>1. PICK d \in ObDevices : ObAclDisconnected(d) BY <1>o7
  <2>e. ObAclEffect(d) BY <2>1, ObAclDoes
  <2> QED BY <2>e DEF ObAclEffect
<1>o8. CASE \E c \in ObConn : ObAllowed(c)
  <2>1. PICK c \in ObConn : ObAllowed(c) BY <1>o8
  <2>e. ObAllowedEffect(c) BY <2>1, ObAllowedDoes
  <2> QED BY <2>e DEF ObAllowedEffect, ObWorldIs
<1>o9. CASE \E c \in ObConn : ObDisallowed(c)
  <2>1. PICK c \in ObConn : ObDisallowed(c) BY <1>o9
  <2>e. ObDisallowedEffect(c) BY <2>1, ObDisallowedDoes
  <2> QED BY <2>e DEF ObDisallowedEffect, ObWorldIs
<1>o10. CASE \E c \in ObConn : ObLinkLost(c)
  <2>1. PICK c \in ObConn : ObLinkLost(c) BY <1>o10
  <2>e. ObLinkLostEffect(c) BY <2>1, ObLinkLostDoes
  <2> QED BY <2>e DEF ObLinkLostEffect, ObWorldIs
<1>o11. CASE \E i \in ObInsts, d \in ObDevices, trust \in BOOLEAN : ObConnects(i, d, trust)
  <2>1. PICK i \in ObInsts, d \in ObDevices, trust \in BOOLEAN : ObConnects(i, d, trust) BY <1>o11
  <2>e. ObConnectsEffect(i, d, trust) BY <2>1, ObConnectsDoes
  <2> QED BY <2>e DEF ObConnectsEffect, ObWorldIs
<1>o12. CASE \E c \in obWorld.alive : ObSessionEnds(c)
  <2>1. PICK c \in obWorld.alive : ObSessionEnds(c) BY <1>o12
  <2>2. c \in ObConn BY DEF ObNamed, ObNames
  <2>e. ObSessionEndsEffect(c) BY <2>1, ObSessionEndsDoes, <2>2
  <2> QED BY <2>e DEF ObSessionEndsEffect, ObWorldIs
<1>q. QED
  BY <1>m, <1>a, <1>o1, <1>o2, <1>o3, <1>o4, <1>o5, <1>o6, <1>o7, <1>o8, <1>o9, <1>o10, <1>o11,
     <1>o12 DEF ObRuns, ObHandler, ObEnvironment

\* Every step keeps the list of the user's answer free of other steps.
LEMMA ObOnlyAdmitsStep ==
  ASSUME ObTyped, ObNamed, ObShape(obTodo), ObOnlyAdmits, ObRuns
  PROVE  ObOnlyAdmits'
<1>i. 0 \in ObInsts /\ (~Ftp => 1 \in ObInsts) BY ObInstsAre
<1>d. /\ ObClosers = {"closeListen", "stop", "join", "closeSock", "closeSession"}
      /\ ObStoppers = {"closeSession", "stop", "join", "closeSock", "listen"}
  BY DEF ObClosers, ObStoppers
<1>m1. CASE ObMainStep /\ Head(obTodo).do = "closeListen"
  <2>e. ObClosesListenEffect BY <1>m1, ObClosesListen
  <2>h. ObPopped BY <1>m1, <2>e, ObPopsHas DEF ObClosesListenEffect
  <2> QED BY <2>e, <1>m1, <2>h, <1>d DEF ObPopped, ObOnlyAdmits
<1>m2. CASE ObMainStep /\ Head(obTodo).do = "closeSock"
  <2>e. ObClosesSockEffect BY <1>m2, ObClosesSock
  <2>h. ObPopped BY <1>m2, <2>e, ObPopsHas DEF ObClosesSockEffect
  <2> QED BY <2>e, <1>m2, <2>h, <1>d DEF ObPopped, ObOnlyAdmits
<1>m3. CASE ObMainStep /\ Head(obTodo).do = "closeSession"
  <2>e. ObClosesSessionEffect BY <1>m3, ObClosesSession
  <2>h. ObPopped BY <1>m3, <2>e, ObPopsHas DEF ObClosesSessionEffect
  <2> QED BY <2>e, <1>m3, <2>h, <1>d DEF ObPopped, ObOnlyAdmits
<1>m4. CASE ObMainStep /\ Head(obTodo).do = "stop"
  <2>e. ObStopsThreadEffect BY <1>m4, ObStopsThread
  <2>h. ObPopped BY <1>m4, <2>e, ObPopsHas DEF ObStopsThreadEffect
  <2> QED BY <2>e, <1>m4, <2>h, <1>d DEF ObPopped, ObOnlyAdmits
<1>m5. CASE ObMainStep /\ Head(obTodo).do = "join"
  <2>e. ObJoinsThreadEffect BY <1>m5, ObJoinsThread
  <2>h. ObPopped BY <1>m5, <2>e, ObPopsHas DEF ObJoinsThreadEffect
  <2> QED BY <2>e, <1>m5, <2>h, <1>d DEF ObPopped, ObOnlyAdmits
<1>m6. CASE ObMainStep /\ Head(obTodo).do = "listen"
  <2>e. ObListensEffect BY <1>m6, ObListens
  <2>h. ObPopped BY <1>m6, <2>e, ObPopsHas DEF ObListensEffect
  <2> QED BY <2>e, <1>m6, <2>h, <1>d DEF ObPopped, ObOnlyAdmits
<1>m7. CASE ObMainStep /\ Head(obTodo).do = "removeTimeouts"
  <2>e. ObRemovesTimeoutsEffect BY <1>m7, ObRemovesTimeouts
  <2>h. ObPopped BY <1>m7, <2>e, ObPopsHas DEF ObRemovesTimeoutsEffect
  <2> QED BY <2>e, <1>m7, <2>h, <1>d DEF ObPopped, ObOnlyAdmits
<1>m8. CASE ObMainStep /\ Head(obTodo).do = "off"
  <2>e. ObTurnedOffEffect BY <1>m8, ObTurnedOff
  <2>h. ObPopped BY <1>m8, <2>e, ObPopsHas DEF ObTurnedOffEffect
  <2> QED BY <2>e, <1>m8, <2>h, <1>d DEF ObPopped, ObOnlyAdmits
<1>m9. CASE ObMainStep /\ Head(obTodo).do = "admit"
  <2>e. ObAdmitsEffect BY <1>m9, ObAdmits
  <2>n. PICK n : n = ObAt OBVIOUS
  <2>p. ObPops => ObPopped BY <1>m9, ObPopsHas
  <2>s. ObStops(ObAt) /\ (Head(obTodo).do = "refuse" \/ Ftp) => ObStopped(n)
    BY <1>m9, <2>n, ObStopsHas
  <2>h. ObPopped \/ ObStopped(n) BY <2>e, <2>p, <2>s, <1>m9 DEF ObAdmitsEffect
  <2> QED BY <2>e, <1>m9, <2>h, <1>d DEF ObPopped, ObStopped, ObOnlyAdmits
<1>m10. CASE ObMainStep /\ Head(obTodo).do = "refuse"
  <2>e. ObRefusesEffect BY <1>m10, ObRefuses
  <2>n. PICK n : n = ObAt OBVIOUS
  <2>p. ObPops => ObPopped BY <1>m10, ObPopsHas
  <2>s. ObStops(ObAt) /\ (Head(obTodo).do = "refuse" \/ Ftp) => ObStopped(n)
    BY <1>m10, <2>n, ObStopsHas
  <2>h. ObPopped \/ ObStopped(n) BY <2>e, <2>p, <2>s, <1>m10 DEF ObRefusesEffect
  <2> QED BY <2>e, <1>m10, <2>h, <1>d DEF ObPopped, ObStopped, ObOnlyAdmits
<1>m. CASE ObMainStep
  BY <1>m, <1>m1, <1>m2, <1>m3, <1>m4, <1>m5, <1>m6, <1>m7, <1>m8, <1>m9, <1>m10, ObHead DEF ObDos
<1>a1. CASE \E i \in ObInsts : ObCreate(i)
  <2>1. PICK i \in ObInsts : ObCreate(i) BY <1>a1
  <2>e. ObCreateEffect(i) BY <2>1, ObCreateDoes
  <2>h. ObSameTodo BY <2>e, ObTodoSame DEF ObCreateEffect
  <2> QED BY <2>e, <2>h, <1>d DEF ObSameTodo, ObOnlyAdmits
<1>a2. CASE \E i \in ObInsts : ObLoop(i)
  <2>1. PICK i \in ObInsts : ObLoop(i) BY <1>a2
  <2>e. ObLoopEffect(i) BY <2>1, ObLoopDoes
  <2>h. ObSameTodo BY <2>e, ObTodoSame DEF ObLoopEffect
  <2> QED BY <2>e, <2>h, <1>d DEF ObSameTodo, ObOnlyAdmits
<1>a3. CASE \E i \in ObInsts : ObAcceptFails(i)
  <2>1. PICK i \in ObInsts : ObAcceptFails(i) BY <1>a3
  <2>e. ObAcceptFailsEffect(i) BY <2>1, ObAcceptFailsDoes
  <2>h. ObSameTodo BY <2>e, ObTodoSame DEF ObAcceptFailsEffect
  <2> QED BY <2>e, <2>h, <1>d DEF ObSameTodo, ObOnlyAdmits
<1>a4. CASE \E i \in ObInsts : ObRemote(i)
  <2>1. PICK i \in ObInsts : ObRemote(i) BY <1>a4
  <2>e. ObRemoteEffect(i) BY <2>1, ObRemoteDoes
  <2>h. ObSameTodo BY <2>e, ObTodoSame DEF ObRemoteEffect
  <2> QED BY <2>e, <2>h, <1>d DEF ObSameTodo, ObOnlyAdmits
<1>a5. CASE \E i \in ObInsts : ObCheck(i)
  <2>1. PICK i \in ObInsts : ObCheck(i) BY <1>a5
  <2>e. ObCheckEffect(i) BY <2>1, ObCheckDoes
  <2>h. ObSameTodo BY <2>e, ObTodoSame DEF ObCheckEffect
  <2> QED BY <2>e, <2>h, <1>d DEF ObSameTodo, ObOnlyAdmits
<1>a6. CASE \E i \in ObInsts : ObTrust(i)
  <2>1. PICK i \in ObInsts : ObTrust(i) BY <1>a6
  <2>e. ObTrustEffect(i) BY <2>1, ObTrustDoes
  <2>h. ObSameTodo BY <2>e, ObTodoSame DEF ObTrustEffect
  <2> QED BY <2>e, <2>h, <1>d DEF ObSameTodo, ObOnlyAdmits
<1>a7. CASE \E i \in ObInsts : ObJoins(i)
  <2>1. PICK i \in ObInsts : ObJoins(i) BY <1>a7
  <2>e. ObJoinsEffect(i) BY <2>1, ObJoinsDoes
  <2>h. ObSameTodo BY <2>e, ObTodoSame DEF ObJoinsEffect
  <2> QED BY <2>e, <2>h, <1>d DEF ObSameTodo, ObOnlyAdmits
<1>a8. CASE \E i \in ObInsts : ObSession(i)
  <2>1. PICK i \in ObInsts : ObSession(i) BY <1>a8
  <2>e. ObSessionEffect(i) BY <2>1, ObSessionDoes
  <2>h. ObSameTodo BY <2>e, ObTodoSame DEF ObSessionEffect
  <2> QED BY <2>e, <2>h, <1>d DEF ObSameTodo, ObOnlyAdmits
<1>a9. CASE \E i \in ObInsts : ObWait(i)
  <2>1. PICK i \in ObInsts : ObWait(i) BY <1>a9
  <2>e. ObWaitEffect(i) BY <2>1, ObWaitDoes
  <2>h. ObSameTodo BY <2>e, ObTodoSame DEF ObWaitEffect
  <2> QED BY <2>e, <2>h, <1>d DEF ObSameTodo, ObOnlyAdmits
<1>a10. CASE \E i \in ObInsts : ObTimer(i)
  <2>1. PICK i \in ObInsts : ObTimer(i) BY <1>a10
  <2>e. ObTimerEffect(i) BY <2>1, ObTimerDoes
  <2>h. ObSameTodo BY <2>e, ObTodoSame DEF ObTimerEffect
  <2> QED BY <2>e, <2>h, <1>d DEF ObSameTodo, ObOnlyAdmits
<1>a. CASE \E i \in ObInsts : ObAcceptThread(i)
  BY <1>a, <1>a1, <1>a2, <1>a3, <1>a4, <1>a5, <1>a6, <1>a7, <1>a8, <1>a9, <1>a10 DEF ObAcceptThread
<1>o1. CASE ObStartListener
  <2>e. ObStartListenerEffect BY <1>o1, ObStartListenerDoes
  <2>h. \/ obWorld.adapter = "on" /\ \A e, n : ObHas(e, n)' <=> e = "listen" /\ n \in ObInsts
        \/ obWorld.adapter # "on" /\ \A e, n : ObHas(e, n)' <=> e \in ObClosers /\ n \in ObInsts
    BY <2>e, ObHasEach, ObHasClosers DEF ObStartListenerEffect
  <2> QED BY <2>e, <2>h, <1>d DEF ObOnlyAdmits
<1>o2. CASE \E t \in obMain.timeouts : ObUserTimeout(t)
  <2>1. PICK t \in obMain.timeouts : ObUserTimeout(t) BY <1>o2
  <2>e. ObUserTimeoutEffect(t) BY <2>1, ObUserTimeoutDoes
  <2>h. \A e, n : ObHas(e, n)' <=> e = "refuse" /\ n \in ObInsts
    BY <2>e, ObHasEach DEF ObUserTimeoutEffect, ObRefuse
  <2> QED BY <2>e, <2>h, <1>d DEF ObOnlyAdmits
<1>o3. CASE \E t \in obMain.closes : ObServerSessionClose(t)
  <2>1. PICK t \in obMain.closes : ObServerSessionClose(t) BY <1>o3
  <2>e. ObServerSessionCloseEffect(t) BY <2>1, ObServerSessionCloseDoes
  <2>n. obTodo' = <<>> => \A e, n : ~ObHas(e, n)' BY ObHasList, ObNoSteps
  <2>h. \/ \A e, n : ObHas(e, n)' <=> e \in ObStoppers /\ n = t[1]
        \/ \A e, n : ~ObHas(e, n)'
    BY <2>e, <2>n, ObHasStopped DEF ObServerSessionCloseEffect
  <2> QED BY <2>e, <2>h, <1>d DEF ObOnlyAdmits
<1>o4. CASE ObTurnOn
  <2>e. ObTurnOnEffect BY <1>o4, ObTurnOnDoes
  <2>h. ObSameTodo BY <2>e, ObTodoSame DEF ObTurnOnEffect
  <2> QED BY <2>e, <2>h, <1>d DEF ObSameTodo, ObOnlyAdmits
<1>o5. CASE ObTurnOff
  <2>e. ObTurnOffEffect BY <1>o5, ObTurnOffDoes
  <2>h. /\ \A e, n : ObHas(e, n)' <=> (e \in ObClosers /\ n \in ObInsts) \/ (e = "off" /\ n = 0)
        /\ ObEnds(obTodo)'
    BY <2>e, ObHasClosers DEF ObTurnOffEffect
  <2> QED BY <2>e, <2>h, <1>d DEF ObOnlyAdmits
<1>o6. CASE ObSessionGivenUp
  <2>e. ObGivenUpEffect BY <1>o6, ObGivenUpDoes
  <2>h. ObSameTodo \/ \A e, n : ObHas(e, n)' <=> e \in ObStoppers /\ n = 0
    BY <2>e, <1>i, ObTodoSame, ObHasStopped DEF ObGivenUpEffect
  <2> QED BY <2>e, <2>h, <1>d DEF ObSameTodo, ObOnlyAdmits
<1>o7. CASE \E d \in ObDevices : ObAclDisconnected(d)
  <2>1. PICK d \in ObDevices : ObAclDisconnected(d) BY <1>o7
  <2>e. ObAclEffect(d) BY <2>1, ObAclDoes
  <2>h. ObSameTodo \/ \A e, n : ObHas(e, n)' <=> e \in {"refuse", "removeTimeouts"} /\ n = 0
    BY <2>e, ObTodoSame, ObHasRefused DEF ObAclEffect
  <2> QED BY <2>e, <2>h, <1>d DEF ObSameTodo, ObOnlyAdmits
<1>o8. CASE \E c \in ObConn : ObAllowed(c)
  <2>1. PICK c \in ObConn : ObAllowed(c) BY <1>o8
  <2>e. ObAllowedEffect(c) BY <2>1, ObAllowedDoes
  <2>n. obTodo' = <<>> => \A e, n : ~ObHas(e, n)' BY ObHasList, ObNoSteps
  <2>h. \/ \A e, n : ~ObHas(e, n)'
        \/ \A e, n : ObHas(e, n)' <=> (e = "admit" /\ n \in ObInsts) \/ (e = "removeTimeouts" /\ n = 0)
    BY <2>e, <2>n, ObHasEach DEF ObAllowedEffect
  <2> QED BY <2>e, <2>h, <1>d DEF ObOnlyAdmits
<1>o9. CASE \E c \in ObConn : ObDisallowed(c)
  <2>1. PICK c \in ObConn : ObDisallowed(c) BY <1>o9
  <2>e. ObDisallowedEffect(c) BY <2>1, ObDisallowedDoes
  <2>h. \A e, n : ObHas(e, n)' <=> (e = "refuse" /\ n \in ObInsts) \/ (e = "removeTimeouts" /\ n = 0)
    BY <2>e, ObHasEach DEF ObDisallowedEffect, ObRefuse
  <2> QED BY <2>e, <2>h, <1>d DEF ObOnlyAdmits
<1>o10. CASE \E c \in ObConn : ObLinkLost(c)
  <2>1. PICK c \in ObConn : ObLinkLost(c) BY <1>o10
  <2>e. ObLinkLostEffect(c) BY <2>1, ObLinkLostDoes
  <2>h. ObSameTodo BY <2>e, ObTodoSame DEF ObLinkLostEffect
  <2> QED BY <2>e, <2>h, <1>d DEF ObSameTodo, ObOnlyAdmits
<1>o11. CASE \E i \in ObInsts, d \in ObDevices, trust \in BOOLEAN : ObConnects(i, d, trust)
  <2>1. PICK i \in ObInsts, d \in ObDevices, trust \in BOOLEAN : ObConnects(i, d, trust) BY <1>o11
  <2>e. ObConnectsEffect(i, d, trust) BY <2>1, ObConnectsDoes
  <2>h. ObSameTodo BY <2>e, ObTodoSame DEF ObConnectsEffect
  <2> QED BY <2>e, <2>h, <1>d DEF ObSameTodo, ObOnlyAdmits
<1>o12. CASE \E c \in obWorld.alive : ObSessionEnds(c)
  <2>1. PICK c \in obWorld.alive : ObSessionEnds(c) BY <1>o12
  <2>2. c \in ObConn BY DEF ObNamed, ObNames
  <2>e. ObSessionEndsEffect(c) BY <2>1, ObSessionEndsDoes, <2>2
  <2>h. ObSameTodo BY <2>e, ObTodoSame DEF ObSessionEndsEffect
  <2> QED BY <2>e, <2>h, <1>d DEF ObSameTodo, ObOnlyAdmits
<1>q. QED
  BY <1>m, <1>a, <1>o1, <1>o2, <1>o3, <1>o4, <1>o5, <1>o6, <1>o7, <1>o8, <1>o9, <1>o10, <1>o11,
     <1>o12 DEF ObRuns, ObHandler, ObEnvironment

\* Which connections have passed the check: only the check itself and the
\* reading of mRemoteDevice bear on it.
LEMMA ObStaysStep ==
  ASSUME ObTyped, ObNamed, ObRuns, NEW j \in ObInsts, ~\E i \in ObInsts : ObCheck(i) \/ ObRemote(i)
  PROVE  /\ ObChecked(j)' => ObChecked(j) /\ ob'[j].sock = ob[j].sock
         /\ ob'[j].pc = "check" /\ ob'[j].sock # 0 =>
              ob[j].pc = "check" /\ ob'[j].sock = ob[j].sock /\ obMain'.remote = obMain.remote
<1>h. ObMainStep => ObAt \in ObInsts BY ObHead DEF ObAt
<1>m1. CASE ObMainStep /\ Head(obTodo).do = "closeListen"
  <2>e. ObClosesListenEffect BY <1>m1, ObClosesListen
  <2>g0. ObChecked(j)' => ObChecked(j) /\ ob'[j].sock = ob[j].sock
    BY <2>e, <1>m1, <1>h DEF ObClosesListenEffect, ObPart, ObChecked
  <2>g1. ob'[j].pc = "check" /\ ob'[j].sock # 0 => ob[j].pc = "check" /\ ob'[j].sock = ob[j].sock
        /\ obMain'.remote = obMain.remote
    BY <2>e, <1>m1, <1>h DEF ObClosesListenEffect, ObPart
  <2> QED BY <2>g0, <2>g1
<1>m2. CASE ObMainStep /\ Head(obTodo).do = "closeSock"
  <2>e. ObClosesSockEffect BY <1>m2, ObClosesSock
  <2>g0. ObChecked(j)' => ObChecked(j) /\ ob'[j].sock = ob[j].sock
    BY <2>e, <1>m2, <1>h DEF ObClosesSockEffect, ObPart, ObChecked
  <2>g1. ob'[j].pc = "check" /\ ob'[j].sock # 0 => ob[j].pc = "check" /\ ob'[j].sock = ob[j].sock
        /\ obMain'.remote = obMain.remote
    BY <2>e, <1>m2, <1>h DEF ObClosesSockEffect, ObPart
  <2> QED BY <2>g0, <2>g1
<1>m3. CASE ObMainStep /\ Head(obTodo).do = "closeSession"
  <2>e. ObClosesSessionEffect BY <1>m3, ObClosesSession
  <2>g0. ObChecked(j)' => ObChecked(j) /\ ob'[j].sock = ob[j].sock
    BY <2>e, <1>m3, <1>h DEF ObClosesSessionEffect, ObPart, ObMainIs, ObChecked
  <2>g1. ob'[j].pc = "check" /\ ob'[j].sock # 0 => ob[j].pc = "check" /\ ob'[j].sock = ob[j].sock
        /\ obMain'.remote = obMain.remote
    BY <2>e, <1>m3, <1>h DEF ObClosesSessionEffect, ObPart, ObMainIs
  <2> QED BY <2>g0, <2>g1
<1>m4. CASE ObMainStep /\ Head(obTodo).do = "stop"
  <2>e. ObStopsThreadEffect BY <1>m4, ObStopsThread
  <2>g0. ObChecked(j)' => ObChecked(j) /\ ob'[j].sock = ob[j].sock
    BY <2>e, <1>m4, <1>h DEF ObStopsThreadEffect, ObPart, ObChecked
  <2>g1. ob'[j].pc = "check" /\ ob'[j].sock # 0 => ob[j].pc = "check" /\ ob'[j].sock = ob[j].sock
        /\ obMain'.remote = obMain.remote
    BY <2>e, <1>m4, <1>h DEF ObStopsThreadEffect, ObPart
  <2> QED BY <2>g0, <2>g1
<1>m5. CASE ObMainStep /\ Head(obTodo).do = "join"
  <2>e. ObJoinsThreadEffect BY <1>m5, ObJoinsThread
  <2>g0. ObChecked(j)' => ObChecked(j) /\ ob'[j].sock = ob[j].sock
    BY <2>e, <1>m5, <1>h DEF ObJoinsThreadEffect, ObPart, ObChecked
  <2>g1. ob'[j].pc = "check" /\ ob'[j].sock # 0 => ob[j].pc = "check" /\ ob'[j].sock = ob[j].sock
        /\ obMain'.remote = obMain.remote
    BY <2>e, <1>m5, <1>h DEF ObJoinsThreadEffect, ObPart
  <2> QED BY <2>g0, <2>g1
<1>m6. CASE ObMainStep /\ Head(obTodo).do = "listen"
  <2>e. ObListensEffect BY <1>m6, ObListens
  <2>g0. ObChecked(j)' => ObChecked(j) /\ ob'[j].sock = ob[j].sock
    BY <2>e, <1>m6, <1>h DEF ObListensEffect, ObPart, ObChecked
  <2>g1. ob'[j].pc = "check" /\ ob'[j].sock # 0 => ob[j].pc = "check" /\ ob'[j].sock = ob[j].sock
        /\ obMain'.remote = obMain.remote
    BY <2>e, <1>m6, <1>h DEF ObListensEffect, ObPart
  <2> QED BY <2>g0, <2>g1
<1>m7. CASE ObMainStep /\ Head(obTodo).do = "removeTimeouts"
  <2>e. ObRemovesTimeoutsEffect BY <1>m7, ObRemovesTimeouts
  <2>g0. ObChecked(j)' => ObChecked(j) /\ ob'[j].sock = ob[j].sock
    BY <2>e, <1>m7, <1>h DEF ObRemovesTimeoutsEffect, ObMainIs, ObChecked
  <2>g1. ob'[j].pc = "check" /\ ob'[j].sock # 0 => ob[j].pc = "check" /\ ob'[j].sock = ob[j].sock
        /\ obMain'.remote = obMain.remote
    BY <2>e, <1>m7, <1>h DEF ObRemovesTimeoutsEffect, ObMainIs
  <2> QED BY <2>g0, <2>g1
<1>m8. CASE ObMainStep /\ Head(obTodo).do = "off"
  <2>e. ObTurnedOffEffect BY <1>m8, ObTurnedOff
  <2>g0. ObChecked(j)' => ObChecked(j) /\ ob'[j].sock = ob[j].sock
    BY <2>e, <1>m8, <1>h DEF ObTurnedOffEffect, ObChecked
  <2>g1. ob'[j].pc = "check" /\ ob'[j].sock # 0 => ob[j].pc = "check" /\ ob'[j].sock = ob[j].sock
        /\ obMain'.remote = obMain.remote
    BY <2>e, <1>m8, <1>h DEF ObTurnedOffEffect
  <2> QED BY <2>g0, <2>g1
<1>m9. CASE ObMainStep /\ Head(obTodo).do = "admit"
  <2>e. ObAdmitsEffect BY <1>m9, ObAdmits
  <2>g0. ObChecked(j)' => ObChecked(j) /\ ob'[j].sock = ob[j].sock
    BY <2>e, <1>m9, <1>h DEF ObAdmitsEffect, ObPart, ObChecked
  <2>g1. ob'[j].pc = "check" /\ ob'[j].sock # 0 => ob[j].pc = "check" /\ ob'[j].sock = ob[j].sock
        /\ obMain'.remote = obMain.remote
    BY <2>e, <1>m9, <1>h DEF ObAdmitsEffect, ObPart
  <2> QED BY <2>g0, <2>g1
<1>m10. CASE ObMainStep /\ Head(obTodo).do = "refuse"
  <2>e. ObRefusesEffect BY <1>m10, ObRefuses
  <2>g0. ObChecked(j)' => ObChecked(j) /\ ob'[j].sock = ob[j].sock
    BY <2>e, <1>m10, <1>h DEF ObRefusesEffect, ObPart, ObChecked
  <2>g1. ob'[j].pc = "check" /\ ob'[j].sock # 0 => ob[j].pc = "check" /\ ob'[j].sock = ob[j].sock
        /\ obMain'.remote = obMain.remote
    BY <2>e, <1>m10, <1>h DEF ObRefusesEffect, ObPart
  <2> QED BY <2>g0, <2>g1
<1>m. CASE ObMainStep
  BY <1>m, <1>m1, <1>m2, <1>m3, <1>m4, <1>m5, <1>m6, <1>m7, <1>m8, <1>m9, <1>m10, ObHead DEF ObDos
<1>a1. CASE \E i \in ObInsts : ObCreate(i)
  <2>1. PICK i \in ObInsts : ObCreate(i) BY <1>a1
  <2>e. ObCreateEffect(i) BY <2>1, ObCreateDoes
  <2>g0. ObChecked(j)' => ObChecked(j) /\ ob'[j].sock = ob[j].sock
    BY <2>e, <1>h DEF ObCreateEffect, ObPart, ObChecked
  <2>g1. ob'[j].pc = "check" /\ ob'[j].sock # 0 => ob[j].pc = "check" /\ ob'[j].sock = ob[j].sock
        /\ obMain'.remote = obMain.remote
    BY <2>e, <1>h DEF ObCreateEffect, ObPart
  <2> QED BY <2>g0, <2>g1
<1>a2. CASE \E i \in ObInsts : ObLoop(i)
  <2>1. PICK i \in ObInsts : ObLoop(i) BY <1>a2
  <2>e. ObLoopEffect(i) BY <2>1, ObLoopDoes
  <2>g0. ObChecked(j)' => ObChecked(j) /\ ob'[j].sock = ob[j].sock
    BY <2>e, <1>h DEF ObLoopEffect, ObPart, ObChecked
  <2>g1. ob'[j].pc = "check" /\ ob'[j].sock # 0 => ob[j].pc = "check" /\ ob'[j].sock = ob[j].sock
        /\ obMain'.remote = obMain.remote
    BY <2>e, <1>h DEF ObLoopEffect, ObPart
  <2> QED BY <2>g0, <2>g1
<1>a3. CASE \E i \in ObInsts : ObAcceptFails(i)
  <2>1. PICK i \in ObInsts : ObAcceptFails(i) BY <1>a3
  <2>e. ObAcceptFailsEffect(i) BY <2>1, ObAcceptFailsDoes
  <2>g0. ObChecked(j)' => ObChecked(j) /\ ob'[j].sock = ob[j].sock
    BY <2>e, <1>h DEF ObAcceptFailsEffect, ObPart, ObChecked
  <2>g1. ob'[j].pc = "check" /\ ob'[j].sock # 0 => ob[j].pc = "check" /\ ob'[j].sock = ob[j].sock
        /\ obMain'.remote = obMain.remote
    BY <2>e, <1>h DEF ObAcceptFailsEffect, ObPart
  <2> QED BY <2>g0, <2>g1
<1>a4. CASE \E i \in ObInsts : ObRemote(i)
  BY <1>a4
<1>a5. CASE \E i \in ObInsts : ObCheck(i)
  BY <1>a5
<1>a6. CASE \E i \in ObInsts : ObTrust(i)
  <2>1. PICK i \in ObInsts : ObTrust(i) BY <1>a6
  <2>e. ObTrustEffect(i) BY <2>1, ObTrustDoes
  <2>g0. ObChecked(j)' => ObChecked(j) /\ ob'[j].sock = ob[j].sock
    BY <2>e, <1>h DEF ObTrustEffect, ObPart, ObChecked
  <2>g1. ob'[j].pc = "check" /\ ob'[j].sock # 0 => ob[j].pc = "check" /\ ob'[j].sock = ob[j].sock
        /\ obMain'.remote = obMain.remote
    BY <2>e, <1>h DEF ObTrustEffect, ObPart
  <2> QED BY <2>g0, <2>g1
<1>a7. CASE \E i \in ObInsts : ObJoins(i)
  <2>1. PICK i \in ObInsts : ObJoins(i) BY <1>a7
  <2>e. ObJoinsEffect(i) BY <2>1, ObJoinsDoes
  <2>g0. ObChecked(j)' => ObChecked(j) /\ ob'[j].sock = ob[j].sock
    BY <2>e, <1>h DEF ObJoinsEffect, ObPart, ObChecked
  <2>g1. ob'[j].pc = "check" /\ ob'[j].sock # 0 => ob[j].pc = "check" /\ ob'[j].sock = ob[j].sock
        /\ obMain'.remote = obMain.remote
    BY <2>e, <1>h DEF ObJoinsEffect, ObPart
  <2> QED BY <2>g0, <2>g1
<1>a8. CASE \E i \in ObInsts : ObSession(i)
  <2>1. PICK i \in ObInsts : ObSession(i) BY <1>a8
  <2>e. ObSessionEffect(i) BY <2>1, ObSessionDoes
  <2>g0. ObChecked(j)' => ObChecked(j) /\ ob'[j].sock = ob[j].sock
    BY <2>e, <1>h DEF ObSessionEffect, ObPart, ObChecked
  <2>g1. ob'[j].pc = "check" /\ ob'[j].sock # 0 => ob[j].pc = "check" /\ ob'[j].sock = ob[j].sock
        /\ obMain'.remote = obMain.remote
    BY <2>e, <1>h DEF ObSessionEffect, ObPart
  <2> QED BY <2>g0, <2>g1
<1>a9. CASE \E i \in ObInsts : ObWait(i)
  <2>1. PICK i \in ObInsts : ObWait(i) BY <1>a9
  <2>e. ObWaitEffect(i) BY <2>1, ObWaitDoes
  <2>g0. ObChecked(j)' => ObChecked(j) /\ ob'[j].sock = ob[j].sock
    BY <2>e, <1>h DEF ObWaitEffect, ObPart, ObMainIs, ObChecked
  <2>g1. ob'[j].pc = "check" /\ ob'[j].sock # 0 => ob[j].pc = "check" /\ ob'[j].sock = ob[j].sock
        /\ obMain'.remote = obMain.remote
    BY <2>e, <1>h DEF ObWaitEffect, ObPart, ObMainIs
  <2> QED BY <2>g0, <2>g1
<1>a10. CASE \E i \in ObInsts : ObTimer(i)
  <2>1. PICK i \in ObInsts : ObTimer(i) BY <1>a10
  <2>e. ObTimerEffect(i) BY <2>1, ObTimerDoes
  <2>g0. ObChecked(j)' => ObChecked(j) /\ ob'[j].sock = ob[j].sock
    BY <2>e, <1>h DEF ObTimerEffect, ObPart, ObMainIs, ObChecked
  <2>g1. ob'[j].pc = "check" /\ ob'[j].sock # 0 => ob[j].pc = "check" /\ ob'[j].sock = ob[j].sock
        /\ obMain'.remote = obMain.remote
    BY <2>e, <1>h DEF ObTimerEffect, ObPart, ObMainIs
  <2> QED BY <2>g0, <2>g1
<1>a. CASE \E i \in ObInsts : ObAcceptThread(i)
  BY <1>a, <1>a1, <1>a2, <1>a3, <1>a4, <1>a5, <1>a6, <1>a7, <1>a8, <1>a9, <1>a10 DEF ObAcceptThread
<1>o1. CASE ObStartListener
  <2>e. ObStartListenerEffect BY <1>o1, ObStartListenerDoes
  <2>g0. ObChecked(j)' => ObChecked(j) /\ ob'[j].sock = ob[j].sock
    BY <2>e, <1>h DEF ObStartListenerEffect, ObMainIs, ObChecked
  <2>g1. ob'[j].pc = "check" /\ ob'[j].sock # 0 => ob[j].pc = "check" /\ ob'[j].sock = ob[j].sock
        /\ obMain'.remote = obMain.remote
    BY <2>e, <1>h DEF ObStartListenerEffect, ObMainIs
  <2> QED BY <2>g0, <2>g1
<1>o2. CASE \E t \in obMain.timeouts : ObUserTimeout(t)
  <2>1. PICK t \in obMain.timeouts : ObUserTimeout(t) BY <1>o2
  <2>e. ObUserTimeoutEffect(t) BY <2>1, ObUserTimeoutDoes
  <2>g0. ObChecked(j)' => ObChecked(j) /\ ob'[j].sock = ob[j].sock
    BY <2>e, <1>h DEF ObUserTimeoutEffect, ObMainIs, ObChecked
  <2>g1. ob'[j].pc = "check" /\ ob'[j].sock # 0 => ob[j].pc = "check" /\ ob'[j].sock = ob[j].sock
        /\ obMain'.remote = obMain.remote
    BY <2>e, <1>h DEF ObUserTimeoutEffect, ObMainIs
  <2> QED BY <2>g0, <2>g1
<1>o3. CASE \E t \in obMain.closes : ObServerSessionClose(t)
  <2>1. PICK t \in obMain.closes : ObServerSessionClose(t) BY <1>o3
  <2>e. ObServerSessionCloseEffect(t) BY <2>1, ObServerSessionCloseDoes
  <2>g0. ObChecked(j)' => ObChecked(j) /\ ob'[j].sock = ob[j].sock
    BY <2>e, <1>h DEF ObServerSessionCloseEffect, ObMainIs, ObChecked
  <2>g1. ob'[j].pc = "check" /\ ob'[j].sock # 0 => ob[j].pc = "check" /\ ob'[j].sock = ob[j].sock
        /\ obMain'.remote = obMain.remote
    BY <2>e, <1>h DEF ObServerSessionCloseEffect, ObMainIs
  <2> QED BY <2>g0, <2>g1
<1>o4. CASE ObTurnOn
  <2>e. ObTurnOnEffect BY <1>o4, ObTurnOnDoes
  <2>g0. ObChecked(j)' => ObChecked(j) /\ ob'[j].sock = ob[j].sock
    BY <2>e, <1>h DEF ObTurnOnEffect, ObMainIs, ObChecked
  <2>g1. ob'[j].pc = "check" /\ ob'[j].sock # 0 => ob[j].pc = "check" /\ ob'[j].sock = ob[j].sock
        /\ obMain'.remote = obMain.remote
    BY <2>e, <1>h DEF ObTurnOnEffect, ObMainIs
  <2> QED BY <2>g0, <2>g1
<1>o5. CASE ObTurnOff
  <2>e. ObTurnOffEffect BY <1>o5, ObTurnOffDoes
  <2>g0. ObChecked(j)' => ObChecked(j) /\ ob'[j].sock = ob[j].sock
    BY <2>e, <1>h DEF ObTurnOffEffect, ObChecked
  <2>g1. ob'[j].pc = "check" /\ ob'[j].sock # 0 => ob[j].pc = "check" /\ ob'[j].sock = ob[j].sock
        /\ obMain'.remote = obMain.remote
    BY <2>e, <1>h DEF ObTurnOffEffect
  <2> QED BY <2>g0, <2>g1
<1>o6. CASE ObSessionGivenUp
  <2>e. ObGivenUpEffect BY <1>o6, ObGivenUpDoes
  <2>g0. ObChecked(j)' => ObChecked(j) /\ ob'[j].sock = ob[j].sock
    BY <2>e, <1>h DEF ObGivenUpEffect, ObMainIs, ObChecked
  <2>g1. ob'[j].pc = "check" /\ ob'[j].sock # 0 => ob[j].pc = "check" /\ ob'[j].sock = ob[j].sock
        /\ obMain'.remote = obMain.remote
    BY <2>e, <1>h DEF ObGivenUpEffect, ObMainIs
  <2> QED BY <2>g0, <2>g1
<1>o7. CASE \E d \in ObDevices : ObAclDisconnected(d)
  <2>1. PICK d \in ObDevices : ObAclDisconnected(d) BY <1>o7
  <2>e. ObAclEffect(d) BY <2>1, ObAclDoes
  <2>g0. ObChecked(j)' => ObChecked(j) /\ ob'[j].sock = ob[j].sock
    BY <2>e, <1>h DEF ObAclEffect, ObMainIs, ObChecked
  <2>g1. ob'[j].pc = "check" /\ ob'[j].sock # 0 => ob[j].pc = "check" /\ ob'[j].sock = ob[j].sock
        /\ obMain'.remote = obMain.remote
    BY <2>e, <1>h DEF ObAclEffect, ObMainIs
  <2> QED BY <2>g0, <2>g1
<1>o8. CASE \E c \in ObConn : ObAllowed(c)
  <2>1. PICK c \in ObConn : ObAllowed(c) BY <1>o8
  <2>e. ObAllowedEffect(c) BY <2>1, ObAllowedDoes
  <2>g0. ObChecked(j)' => ObChecked(j) /\ ob'[j].sock = ob[j].sock
    BY <2>e, <1>h DEF ObAllowedEffect, ObChecked
  <2>g1. ob'[j].pc = "check" /\ ob'[j].sock # 0 => ob[j].pc = "check" /\ ob'[j].sock = ob[j].sock
        /\ obMain'.remote = obMain.remote
    BY <2>e, <1>h DEF ObAllowedEffect
  <2> QED BY <2>g0, <2>g1
<1>o9. CASE \E c \in ObConn : ObDisallowed(c)
  <2>1. PICK c \in ObConn : ObDisallowed(c) BY <1>o9
  <2>e. ObDisallowedEffect(c) BY <2>1, ObDisallowedDoes
  <2>g0. ObChecked(j)' => ObChecked(j) /\ ob'[j].sock = ob[j].sock
    BY <2>e, <1>h DEF ObDisallowedEffect, ObMainIs, ObChecked
  <2>g1. ob'[j].pc = "check" /\ ob'[j].sock # 0 => ob[j].pc = "check" /\ ob'[j].sock = ob[j].sock
        /\ obMain'.remote = obMain.remote
    BY <2>e, <1>h DEF ObDisallowedEffect, ObMainIs
  <2> QED BY <2>g0, <2>g1
<1>o10. CASE \E c \in ObConn : ObLinkLost(c)
  <2>1. PICK c \in ObConn : ObLinkLost(c) BY <1>o10
  <2>e. ObLinkLostEffect(c) BY <2>1, ObLinkLostDoes
  <2>g0. ObChecked(j)' => ObChecked(j) /\ ob'[j].sock = ob[j].sock
    BY <2>e, <1>h DEF ObLinkLostEffect, ObChecked
  <2>g1. ob'[j].pc = "check" /\ ob'[j].sock # 0 => ob[j].pc = "check" /\ ob'[j].sock = ob[j].sock
        /\ obMain'.remote = obMain.remote
    BY <2>e, <1>h DEF ObLinkLostEffect
  <2> QED BY <2>g0, <2>g1
<1>o11. CASE \E i \in ObInsts, d \in ObDevices, trust \in BOOLEAN : ObConnects(i, d, trust)
  <2>1. PICK i \in ObInsts, d \in ObDevices, trust \in BOOLEAN : ObConnects(i, d, trust) BY <1>o11
  <2>e. ObConnectsEffect(i, d, trust) BY <2>1, ObConnectsDoes
  <2>g0. ObChecked(j)' => ObChecked(j) /\ ob'[j].sock = ob[j].sock
    BY <2>e, <1>h DEF ObConnectsEffect, ObPart, ObChecked
  <2>g1. ob'[j].pc = "check" /\ ob'[j].sock # 0 => ob[j].pc = "check" /\ ob'[j].sock = ob[j].sock
        /\ obMain'.remote = obMain.remote
    BY <2>e, <1>h DEF ObConnectsEffect, ObPart
  <2> QED BY <2>g0, <2>g1
<1>o12. CASE \E c \in obWorld.alive : ObSessionEnds(c)
  <2>1. PICK c \in obWorld.alive : ObSessionEnds(c) BY <1>o12
  <2>2. c \in ObConn BY DEF ObNamed, ObNames
  <2>e. ObSessionEndsEffect(c) BY <2>1, ObSessionEndsDoes, <2>2
  <2>g0. ObChecked(j)' => ObChecked(j) /\ ob'[j].sock = ob[j].sock
    BY <2>e, <1>h DEF ObSessionEndsEffect, ObMainIs, ObChecked
  <2>g1. ob'[j].pc = "check" /\ ob'[j].sock # 0 => ob[j].pc = "check" /\ ob'[j].sock = ob[j].sock
        /\ obMain'.remote = obMain.remote
    BY <2>e, <1>h DEF ObSessionEndsEffect, ObMainIs
  <2> QED BY <2>g0, <2>g1
<1>q. QED
  BY <1>m, <1>a, <1>o1, <1>o2, <1>o3, <1>o4, <1>o5, <1>o6, <1>o7, <1>o8, <1>o9, <1>o10, <1>o11,
     <1>o12 DEF ObRuns, ObHandler, ObEnvironment

\* A linked session stays on the connection of the moment.
LEMMA ObOneSessionStep ==
  ASSUME ObTyped, ObNamed, ObShape(obTodo), ObStarts, ObRuns, ~Ftp, NEW j \in ObInsts,
         ObServed(j), ObRestarts(j), ObOneSession(j)
  PROVE  ObOneSession(j)'
<1>h. ObMainStep => ObAt \in ObInsts BY ObHead DEF ObAt
<1>w. ObNames /\ \A n \in ObInsts : ObNamedAt(n) BY DEF ObNamed
<1>0. 0 \notin ObConn BY ObConnTyped
<1>u. ObQuiet = {"none", "timer", "done"} BY DEF ObQuiet
<1>l. 0 \notin obWorld.linked BY <1>0, <1>w DEF ObNames
<1>k. ObServed(j) /\ ObOneSession(j) OBVIOUS
<1>m1. CASE ObMainStep /\ Head(obTodo).do = "closeListen"
  <2>e. ObClosesListenEffect BY <1>m1, ObClosesListen
  <2> QED
    BY <2>e, <1>m1, <1>k, <1>h, <1>l, <1>u DEF ObClosesListenEffect, ObPart, ObOneSession, ObServed
<1>m2. CASE ObMainStep /\ Head(obTodo).do = "closeSock"
  <2>e. ObClosesSockEffect BY <1>m2, ObClosesSock
  <2> QED
    BY <2>e, <1>m2, <1>k, <1>h, <1>l, <1>u DEF ObClosesSockEffect, ObPart, ObWorldIs, ObOneSession,
       ObServed
<1>m3. CASE ObMainStep /\ Head(obTodo).do = "closeSession"
  <2>e. ObClosesSessionEffect BY <1>m3, ObClosesSession
  <2> QED
    BY <2>e, <1>m3, <1>k, <1>h, <1>l, <1>u DEF ObClosesSessionEffect, ObPart, ObMainIs, ObWorldIs,
       ObOneSession, ObServed
<1>m4. CASE ObMainStep /\ Head(obTodo).do = "stop"
  <2>e. ObStopsThreadEffect BY <1>m4, ObStopsThread
  <2> QED
    BY <2>e, <1>m4, <1>k, <1>h, <1>l, <1>u DEF ObStopsThreadEffect, ObPart, ObOneSession, ObServed
<1>m5. CASE ObMainStep /\ Head(obTodo).do = "join"
  <2>e. ObJoinsThreadEffect BY <1>m5, ObJoinsThread
  <2> QED
    BY <2>e, <1>m5, <1>k, <1>h, <1>l, <1>u DEF ObJoinsThreadEffect, ObPart, ObOneSession, ObServed
<1>m6. CASE ObMainStep /\ Head(obTodo).do = "listen"
  <2>e. ObListensEffect BY <1>m6, ObListens
  <2>h. ObPopped BY <1>m6, <2>e, ObPopsHas DEF ObListensEffect
  <2>a. ASSUME j = ObAt PROVE ob[j].sock = 0
    <3>1. ObHas("listen", j) BY <2>a, <2>h, <1>m6 DEF ObPopped
    <3>2. ASSUME ObHas("closeSock", j) PROVE FALSE
      <4>1. ObHas("closeSock", j)' BY <3>2, <2>h, <1>m6 DEF ObPopped
      <4>2. ObAfter(Head(obTodo), ObTask("closeSock", j)) BY <4>1, <2>h DEF ObPopped
      <4> QED BY <4>2, <1>m6, ObTaskIs DEF ObAfter
    <3> QED BY <3>1, <3>2 DEF ObRestarts
  <2> QED BY <2>e, <2>a, <1>k, <1>h, <1>l DEF ObListensEffect, ObPart, ObOneSession
<1>m7. CASE ObMainStep /\ Head(obTodo).do = "removeTimeouts"
  <2>e. ObRemovesTimeoutsEffect BY <1>m7, ObRemovesTimeouts
  <2> QED
    BY <2>e, <1>m7, <1>k, <1>h, <1>l, <1>u DEF ObRemovesTimeoutsEffect, ObMainIs, ObOneSession,
       ObServed
<1>m8. CASE ObMainStep /\ Head(obTodo).do = "off"
  <2>e. ObTurnedOffEffect BY <1>m8, ObTurnedOff
  <2> QED
    BY <2>e, <1>m8, <1>k, <1>h, <1>l, <1>u DEF ObTurnedOffEffect, ObWorldIs, ObOneSession, ObServed
<1>m9. CASE ObMainStep /\ Head(obTodo).do = "admit"
  <2>e. ObAdmitsEffect BY <1>m9, ObAdmits
  <2> QED
    BY <2>e, <1>m9, <1>k, <1>h, <1>l, <1>u DEF ObAdmitsEffect, ObPart, ObWorldIs, ObOneSession,
       ObServed
<1>m10. CASE ObMainStep /\ Head(obTodo).do = "refuse"
  <2>e. ObRefusesEffect BY <1>m10, ObRefuses
  <2> QED
    BY <2>e, <1>m10, <1>k, <1>h, <1>l, <1>u DEF ObRefusesEffect, ObPart, ObOneSession, ObServed
<1>m. CASE ObMainStep
  BY <1>m, <1>m1, <1>m2, <1>m3, <1>m4, <1>m5, <1>m6, <1>m7, <1>m8, <1>m9, <1>m10, ObHead DEF ObDos
<1>a1. CASE \E i \in ObInsts : ObCreate(i)
  <2>1. PICK i \in ObInsts : ObCreate(i) BY <1>a1
  <2>e. ObCreateEffect(i) BY <2>1, ObCreateDoes
  <2> QED BY <2>e, <1>k, <1>h, <1>l, <1>u DEF ObCreateEffect, ObPart, ObOneSession, ObServed
<1>a2. CASE \E i \in ObInsts : ObLoop(i)
  <2>1. PICK i \in ObInsts : ObLoop(i) BY <1>a2
  <2>e. ObLoopEffect(i) BY <2>1, ObLoopDoes
  <2> QED BY <2>e, <1>k, <1>h, <1>l, <1>u DEF ObLoopEffect, ObPart, ObOneSession, ObServed
<1>a3. CASE \E i \in ObInsts : ObAcceptFails(i)
  <2>1. PICK i \in ObInsts : ObAcceptFails(i) BY <1>a3
  <2>e. ObAcceptFailsEffect(i) BY <2>1, ObAcceptFailsDoes
  <2> QED BY <2>e, <1>k, <1>h, <1>l, <1>u DEF ObAcceptFailsEffect, ObPart, ObOneSession, ObServed
<1>a4. CASE \E i \in ObInsts : ObRemote(i)
  <2>1. PICK i \in ObInsts : ObRemote(i) BY <1>a4
  <2>e. ObRemoteEffect(i) BY <2>1, ObRemoteDoes
  <2> QED
    BY <2>e, <1>k, <1>h, <1>l, <1>u DEF ObRemoteEffect, ObPart, ObMainIs, ObOneSession, ObServed
<1>a5. CASE \E i \in ObInsts : ObCheck(i)
  <2>1. PICK i \in ObInsts : ObCheck(i) BY <1>a5
  <2>e. ObCheckEffect(i) BY <2>1, ObCheckDoes
  <2> QED
    BY <2>e, <1>k, <1>h, <1>l, <1>u DEF ObCheckEffect, ObPart, ObWorldIs, ObOneSession, ObServed
<1>a6. CASE \E i \in ObInsts : ObTrust(i)
  <2>1. PICK i \in ObInsts : ObTrust(i) BY <1>a6
  <2>e. ObTrustEffect(i) BY <2>1, ObTrustDoes
  <2> QED BY <2>e, <1>k, <1>h, <1>l, <1>u DEF ObTrustEffect, ObPart, ObOneSession, ObServed
<1>a7. CASE \E i \in ObInsts : ObJoins(i)
  <2>1. PICK i \in ObInsts : ObJoins(i) BY <1>a7
  <2>e. ObJoinsEffect(i) BY <2>1, ObJoinsDoes
  <2> QED BY <2>e, <1>k, <1>h, <1>l, <1>u DEF ObJoinsEffect, ObPart, ObOneSession, ObServed
<1>a8. CASE \E i \in ObInsts : ObSession(i)
  <2>1. PICK i \in ObInsts : ObSession(i) BY <1>a8
  <2>e. ObSessionEffect(i) BY <2>1, ObSessionDoes
  <2> QED
    BY <2>e, <1>k, <1>h, <1>l, <1>u DEF ObSessionEffect, ObPart, ObWorldIs, ObOneSession, ObServed
<1>a9. CASE \E i \in ObInsts : ObWait(i)
  <2>1. PICK i \in ObInsts : ObWait(i) BY <1>a9
  <2>e. ObWaitEffect(i) BY <2>1, ObWaitDoes
  <2> QED
    BY <2>e, <1>k, <1>h, <1>l, <1>u DEF ObWaitEffect, ObPart, ObMainIs, ObWorldIs, ObOneSession,
       ObServed
<1>a10. CASE \E i \in ObInsts : ObTimer(i)
  <2>1. PICK i \in ObInsts : ObTimer(i) BY <1>a10
  <2>e. ObTimerEffect(i) BY <2>1, ObTimerDoes
  <2> QED
    BY <2>e, <1>k, <1>h, <1>l, <1>u DEF ObTimerEffect, ObPart, ObMainIs, ObOneSession, ObServed
<1>a. CASE \E i \in ObInsts : ObAcceptThread(i)
  BY <1>a, <1>a1, <1>a2, <1>a3, <1>a4, <1>a5, <1>a6, <1>a7, <1>a8, <1>a9, <1>a10 DEF ObAcceptThread
<1>o1. CASE ObStartListener
  <2>e. ObStartListenerEffect BY <1>o1, ObStartListenerDoes
  <2> QED
    BY <2>e, <1>k, <1>h, <1>l, <1>u DEF ObStartListenerEffect, ObMainIs, ObOneSession, ObServed
<1>o2. CASE \E t \in obMain.timeouts : ObUserTimeout(t)
  <2>1. PICK t \in obMain.timeouts : ObUserTimeout(t) BY <1>o2
  <2>e. ObUserTimeoutEffect(t) BY <2>1, ObUserTimeoutDoes
  <2> QED BY <2>e, <1>k, <1>h, <1>l, <1>u DEF ObUserTimeoutEffect, ObMainIs, ObOneSession, ObServed
<1>o3. CASE \E t \in obMain.closes : ObServerSessionClose(t)
  <2>1. PICK t \in obMain.closes : ObServerSessionClose(t) BY <1>o3
  <2>e. ObServerSessionCloseEffect(t) BY <2>1, ObServerSessionCloseDoes
  <2> QED
    BY <2>e, <1>k, <1>h, <1>l, <1>u DEF ObServerSessionCloseEffect, ObMainIs, ObOneSession, ObServed
<1>o4. CASE ObTurnOn
  <2>e. ObTurnOnEffect BY <1>o4, ObTurnOnDoes
  <2> QED
    BY <2>e, <1>k, <1>h, <1>l, <1>u DEF ObTurnOnEffect, ObMainIs, ObWorldIs, ObOneSession, ObServed
<1>o5. CASE ObTurnOff
  <2>e. ObTurnOffEffect BY <1>o5, ObTurnOffDoes
  <2> QED BY <2>e, <1>k, <1>h, <1>l, <1>u DEF ObTurnOffEffect, ObWorldIs, ObOneSession, ObServed
<1>o6. CASE ObSessionGivenUp
  <2>e. ObGivenUpEffect BY <1>o6, ObGivenUpDoes
  <2> QED BY <2>e, <1>k, <1>h, <1>l, <1>u DEF ObGivenUpEffect, ObMainIs, ObOneSession, ObServed
<1>o7. CASE \E d \in ObDevices : ObAclDisconnected(d)
  <2>1. PICK d \in ObDevices : ObAclDisconnected(d) BY <1>o7
  <2>e. ObAclEffect(d) BY <2>1, ObAclDoes
  <2> QED BY <2>e, <1>k, <1>h, <1>l, <1>u DEF ObAclEffect, ObMainIs, ObOneSession, ObServed
<1>o8. CASE \E c \in ObConn : ObAllowed(c)
  <2>1. PICK c \in ObConn : ObAllowed(c) BY <1>o8
  <2>e. ObAllowedEffect(c) BY <2>1, ObAllowedDoes
  <2> QED BY <2>e, <1>k, <1>h, <1>l, <1>u DEF ObAllowedEffect, ObWorldIs, ObOneSession, ObServed
<1>o9. CASE \E c \in ObConn : ObDisallowed(c)
  <2>1. PICK c \in ObConn : ObDisallowed(c) BY <1>o9
  <2>e. ObDisallowedEffect(c) BY <2>1, ObDisallowedDoes
  <2> QED
    BY <2>e, <1>k, <1>h, <1>l, <1>u DEF ObDisallowedEffect, ObMainIs, ObWorldIs, ObOneSession,
       ObServed
<1>o10. CASE \E c \in ObConn : ObLinkLost(c)
  <2>1. PICK c \in ObConn : ObLinkLost(c) BY <1>o10
  <2>e. ObLinkLostEffect(c) BY <2>1, ObLinkLostDoes
  <2> QED BY <2>e, <1>k, <1>h, <1>l, <1>u DEF ObLinkLostEffect, ObWorldIs, ObOneSession, ObServed
<1>o11. CASE \E i \in ObInsts, d \in ObDevices, trust \in BOOLEAN : ObConnects(i, d, trust)
  <2>1. PICK i \in ObInsts, d \in ObDevices, trust \in BOOLEAN : ObConnects(i, d, trust) BY <1>o11
  <2>e. ObConnectsEffect(i, d, trust) BY <2>1, ObConnectsDoes
  <2>3. Len(obWorld.conns) + 1 \notin ObConn /\ Len(obWorld.conns) + 1 # 0 BY <2>1, ObKeptMore
  <2>4. ob[j].session # Len(obWorld.conns) + 1 BY <2>3, <1>w DEF ObNamedAt
  <2> QED
    BY <2>e, <1>k, <1>h, <1>l, <1>u, <2>4 DEF ObConnectsEffect, ObPart, ObWorldIs, ObOneSession,
       ObServed
<1>o12. CASE \E c \in obWorld.alive : ObSessionEnds(c)
  <2>1. PICK c \in obWorld.alive : ObSessionEnds(c) BY <1>o12
  <2>2. c \in ObConn BY DEF ObNamed, ObNames
  <2>e. ObSessionEndsEffect(c) BY <2>1, ObSessionEndsDoes, <2>2
  <2> QED
    BY <2>e, <1>k, <1>h, <1>l, <1>u DEF ObSessionEndsEffect, ObMainIs, ObWorldIs, ObOneSession,
       ObServed
<1>q. QED
  BY <1>m, <1>a, <1>o1, <1>o2, <1>o3, <1>o4, <1>o5, <1>o6, <1>o7, <1>o8, <1>o9, <1>o10, <1>o11,
     <1>o12 DEF ObRuns, ObHandler, ObEnvironment

\* Two message instances that serve connections serve one device.
LEMMA ObOneDevStep ==
  ASSUME ObTyped, ObNamed, ObShape(obTodo), ObStarts, ObCalmInv, ObOneDev, ObRuns
  PROVE  ObOneDev'
<1>c. UNCHANGED obConfig BY ObTodoStep
<1>s. ObInsts' = ObInsts /\ Ftp' = Ftp BY <1>c, ObSets
<1> SUFFICES ASSUME ~Ftp, ObCalm', "masked" \notin obPast'
             PROVE  /\ ObChecked(0)' /\ ObChecked(1)' => ObDevOf(0)' = ObDevOf(1)'
                    /\ ob'[1].pc = "check" /\ ob'[1].sock # 0 /\ ObChecked(0)' =>
                         ObDevOf(1)' \in {ObDevOf(0)', ObDev(obMain.remote)'}
                    /\ \A j \in ObInsts : ObOneSession(j)'
  BY <1>s DEF ObOneDev
<1>i. ObInsts = {0, 1} BY ObInstsAre
<1>g. obPast \subseteq obPast' BY ObPastGrows
<1>p. ObCalm /\ "masked" \notin obPast BY <1>g, <1>s DEF ObCalm, Odd
<1>o. /\ ObChecked(0) /\ ObChecked(1) => ObDevOf(0) = ObDevOf(1)
      /\ ob[1].pc = "check" /\ ob[1].sock # 0 /\ ObChecked(0) =>
         ObDevOf(1) \in {ObDevOf(0), ObDev(obMain.remote)}
      /\ \A i \in ObInsts : ObOneSession(i)
  BY <1>p DEF ObOneDev
<1>w. ObNames /\ ObNamedAt(0) /\ ObNamedAt(1) BY <1>i DEF ObNamed
<1>k. \A c \in ObConn : obWorld'.conns[c] = obWorld.conns[c] BY ObKeptStep DEF ObKept
<1>v. \A j \in ObInsts : ob[j].sock # 0 => obWorld'.conns[ob[j].sock].dev = ObDevOf(j)
  BY <1>k, <1>i, <1>w DEF ObNamedAt, ObDevOf, ObDev
<1>1. ASSUME NEW j \in ObInsts PROVE ObOneSession(j)'
  <2>1. ObServed(j) /\ ObRestarts(j) BY <1>p DEF ObCalmInv
  <2> QED BY <2>1, <1>o, ObOneSessionStep
<1>2. CASE ~\E i \in ObInsts : ObCheck(i) \/ ObRemote(i)
  <2>1. /\ ObChecked(0)' => ObChecked(0) /\ ob'[0].sock = ob[0].sock
        /\ ObChecked(1)' => ObChecked(1) /\ ob'[1].sock = ob[1].sock
        /\ ob'[1].pc = "check" /\ ob'[1].sock # 0 =>
              ob[1].pc = "check" /\ ob'[1].sock = ob[1].sock /\ obMain'.remote = obMain.remote
    BY <1>2, <1>i, ObStaysStep
  <2>2. ObChecked(0)' => ObDevOf(0)' = ObDevOf(0) BY <2>1, <1>v, <1>i DEF ObDevOf, ObDev, ObChecked
  <2>3. ObChecked(1)' => ObDevOf(1)' = ObDevOf(1) BY <2>1, <1>v, <1>i DEF ObDevOf, ObDev, ObChecked
  <2>4. ASSUME ob'[1].pc = "check", ob'[1].sock # 0, ObChecked(0)'
        PROVE ObDevOf(1)' \in {ObDevOf(0)', ObDev(obMain.remote)'}
    <3>1. ObDevOf(1)' = ObDevOf(1) BY <2>1, <2>4, <1>v, <1>i DEF ObDevOf, ObDev
    <3>2. obMain.remote \in ObConn BY <2>1, <2>4, <1>w DEF ObNames, ObNamedAt, ObTaking
    <3>3. ObDev(obMain.remote)' = ObDev(obMain.remote) BY <2>1, <2>4, <3>2, <1>k DEF ObDev
    <3> QED BY <2>1, <2>2, <2>4, <3>1, <3>3, <1>o
  <2> QED BY <2>1, <2>2, <2>3, <2>4, <1>o, <1>1
<1>3. CASE \E i \in ObInsts : ObRemote(i)
  <2>1. PICK i \in ObInsts : ObRemote(i) BY <1>3
  <2>e. ObRemoteEffect(i) BY <2>1, ObRemoteDoes
  <2>w. UNCHANGED obWorld BY <2>e DEF ObRemoteEffect
  <2>2. ~ObChecked(i)' /\ \A n \in ObInsts \ {i} : ob'[n] = ob[n]
    BY <2>e DEF ObRemoteEffect, ObPart, ObChecked
  <2>3. CASE i = 0
    <3>1. ~ObChecked(0)' BY <2>2, <2>3
    <3> QED BY <3>1, <1>1
  <2>4. CASE i = 1
    <3>1. ~ObChecked(1)' BY <2>2, <2>4
    <3>2. ob'[1].pc = "check" => ob'[1].sock = obMain'.remote
      BY <2>e, <2>4 DEF ObRemoteEffect, ObPart, ObMainIs
    <3>3. ob'[1].pc = "check" => ObDevOf(1)' = ObDev(obMain.remote)' BY <3>2 DEF ObDevOf, ObDev
    <3> QED BY <3>1, <3>3, <1>1
  <2> QED BY <2>3, <2>4, <1>i
<1>4. CASE \E i \in ObInsts : ObCheck(i)
  <2>1. PICK i \in ObInsts : ObCheck(i) BY <1>4
  <2>e. ObCheckEffect(i) BY <2>1, ObCheckDoes
  <2>w. obWorld'.conns = obWorld.conns /\ UNCHANGED obMain BY <2>e DEF ObCheckEffect, ObWorldIs
  <2>2. \A n \in ObInsts \ {i} : ob'[n] = ob[n] BY <2>e DEF ObCheckEffect, ObPart
  <2>3. ob[i].pc = "check" BY <2>e DEF ObCheckEffect
  <2>5. ob'[i].pc # "check" /\ (ob'[i].sock # 0 => /\ isAllowedConnection(ObDev(obMain.remote)) /\ ob'[i].sock = ob[i].sock)
    BY <2>e DEF ObCheckEffect, ObPart
  <2>6. CASE i = 0
    <3>1. ob'[1] = ob[1] BY <2>2, <2>6, <1>i
    <3>2. ASSUME ob'[0].sock # 0, ob[1].sock # 0 PROVE ObDevOf(1)' = ObDevOf(0)'
      <4>1. ob'[0].sock = ob[0].sock BY <2>5, <2>6, <3>2
      <4>2. ob[0].sock = ob[0].conn BY <4>1, <3>2, <2>3, <2>6, <1>w DEF ObNamedAt, ObTaking
      <4>3. ObDev(ob[1].sock) = ObDev(ob[0].conn) BY <2>e, <2>6, <3>2 DEF ObCheckEffect
      <4> QED BY <4>1, <4>2, <4>3, <3>1, <2>w DEF ObDevOf, ObDev
    <3> QED BY <3>1, <3>2, <1>1 DEF ObChecked
  <2>7. CASE i = 1
    <3>1. ob'[0] = ob[0] /\ ob'[1].pc # "check" BY <2>2, <2>5, <2>7, <1>i
    <3>2. ASSUME ob'[1].sock # 0, ObChecked(0)' PROVE ObDevOf(0)' = ObDevOf(1)'
      <4>1. ob'[1].sock = ob[1].sock /\ ob[1].sock # 0 /\ isAllowedConnection(ObDev(obMain.remote))
        BY <2>5, <2>7, <3>2
      <4>2. ObChecked(0) /\ ob[0].sock # 0 BY <3>1, <3>2 DEF ObChecked
      <4>3. ObDev(obMain.remote) = ObDevOf(0)
        <5> DEFINE taken == {n \in ObInsts : ob[n].sock # 0}
        <5>1. 0 \in taken /\ taken \subseteq {0, 1} BY <4>2, <1>i
        <5>2. \A n \in taken : 0 <= n BY <5>1
        <5>3. \A n \in taken : (\A m \in taken : n <= m) => n = 0 BY <5>1
        <5> DEFINE first == CHOOSE n \in taken : \A m \in taken : n <= m
        <5>4. first = 0 BY <5>1, <5>2, <5>3
        <5>5. ObDev(ob[first].sock) = ObDev(obMain.remote) BY <4>1, <5>1 DEF isAllowedConnection
        <5> QED BY <5>4, <5>5 DEF ObDevOf
      <4>4. ObDevOf(0) = ObDevOf(1) BY <4>1, <4>2, <4>3, <2>3, <2>7, <1>o
      <4> QED BY <4>1, <4>4, <3>1, <2>w DEF ObDevOf, ObDev
    <3> QED BY <3>1, <3>2, <1>1 DEF ObChecked
  <2> QED BY <2>6, <2>7, <1>i
<1> QED BY <1>2, <1>3, <1>4

\* The device of a connection that is let in is allowed.
ObLets(i) ==
  /\ ob[i].pc = "session" /\ ob[i].sock # 0 => ObDevOf(i) \in obWorld.allowed
  /\ ob[i].session # 0 => ObDev(ob[i].session) \in obWorld.allowed
ObOwed(i) == ob[i].sock # 0 /\ ObDevOf(i) \in obWorld.allowed /\ (~Ftp => ob[i].pc \in ObQuiet)
ObLet ==
  ~Odd({"answer", "swapped", "masked"}) /\ (Ftp \/ ObCalm) =>
    /\ \A i \in ObInsts : ObLets(i)
    /\ \A n : ObHas("admit", n) => \E i \in ObInsts : ObOwed(i)

\* What the user has allowed is still there when it is admitted.
LEMMA ObOwedStays ==
  ASSUME ObTyped, ObNamed, ObShape(obTodo), ObOnlyAdmits, Ftp => ObFtp, ObRuns,
         NEW n, ObHas("admit", n), NEW k \in ObInsts, ob[k].sock # 0, ~Ftp => ob[k].pc \in ObQuiet
  PROVE  (ob'[k].sock = ob[k].sock /\ (~Ftp => ob'[k].pc \in ObQuiet)) \/ (\A m : ~ObHas("admit", m)')
<1>1. obTodo # <<>> BY ObHasNothing
<1>2. ASSUME ObMainStep PROVE ObHas(Head(obTodo).do, ObAt)
  <2>1. obTodo \in Seq(ObStepSet) /\ obTodo # <<>> /\ Head(obTodo) = ObTask(Head(obTodo).do, ObAt)
    BY <1>2, ObHead DEF ObTyped, ObAt
  <2> QED BY <2>1, ObInTail DEF ObHas
<1>h. ObMainStep => Head(obTodo).do \in {"admit", "removeTimeouts"} /\ ObAt \in ObInsts
  BY <1>2, ObHead DEF ObOnlyAdmits, ObAt
<1>u. ObQuiet = {"none", "timer", "done"} BY DEF ObQuiet
<1>f. Ftp => k = 0 /\ ob[k].pc \notin {"create", "loop", "blocked"} BY ObInstsAre DEF ObFtp
<1>c. ob[k].pc = "check" => ~Ftp BY DEF ObNamed, ObNamedAt
<1>d. ObStoppers = {"closeSession", "stop", "join", "closeSock", "listen"} BY DEF ObStoppers
<1>m1. CASE ObMainStep /\ Head(obTodo).do = "closeListen"
  BY <1>m1, <1>h
<1>m2. CASE ObMainStep /\ Head(obTodo).do = "closeSock"
  BY <1>m2, <1>h
<1>m3. CASE ObMainStep /\ Head(obTodo).do = "closeSession"
  BY <1>m3, <1>h
<1>m4. CASE ObMainStep /\ Head(obTodo).do = "stop"
  BY <1>m4, <1>h
<1>m5. CASE ObMainStep /\ Head(obTodo).do = "join"
  BY <1>m5, <1>h
<1>m6. CASE ObMainStep /\ Head(obTodo).do = "listen"
  BY <1>m6, <1>h
<1>m7. CASE ObMainStep /\ Head(obTodo).do = "removeTimeouts"
  <2>e. ObRemovesTimeoutsEffect BY <1>m7, ObRemovesTimeouts
  <2> QED BY <2>e, <1>m7, <1>h, <1>u, <1>f, <1>c DEF ObRemovesTimeoutsEffect
<1>m8. CASE ObMainStep /\ Head(obTodo).do = "off"
  BY <1>m8, <1>h
<1>m9. CASE ObMainStep /\ Head(obTodo).do = "admit"
  <2>e. ObAdmitsEffect BY <1>m9, ObAdmits
  <2>n. PICK i : i = ObAt OBVIOUS
  <2>s. ObStops(ObAt) /\ Ftp => ObStopped(i) BY <1>m9, <2>n, ObStopsHas
  <2>t. ObStops(ObAt) /\ Ftp => \A m : ~ObHas("admit", m)' BY <2>s, <1>d DEF ObStopped
  <2> QED BY <2>e, <2>t, <1>h DEF ObAdmitsEffect, ObPart
<1>m10. CASE ObMainStep /\ Head(obTodo).do = "refuse"
  BY <1>m10, <1>h
<1>m. CASE ObMainStep
  BY <1>m, <1>m1, <1>m2, <1>m3, <1>m4, <1>m5, <1>m6, <1>m7, <1>m8, <1>m9, <1>m10, ObHead DEF ObDos
<1>a1. CASE \E i \in ObInsts : ObCreate(i)
  <2>1. PICK i \in ObInsts : ObCreate(i) BY <1>a1
  <2>e. ObCreateEffect(i) BY <2>1, ObCreateDoes
  <2> QED BY <2>e, <1>h, <1>u, <1>f, <1>c DEF ObCreateEffect, ObPart
<1>a2. CASE \E i \in ObInsts : ObLoop(i)
  <2>1. PICK i \in ObInsts : ObLoop(i) BY <1>a2
  <2>e. ObLoopEffect(i) BY <2>1, ObLoopDoes
  <2> QED BY <2>e, <1>h, <1>u, <1>f, <1>c DEF ObLoopEffect, ObPart
<1>a3. CASE \E i \in ObInsts : ObAcceptFails(i)
  <2>1. PICK i \in ObInsts : ObAcceptFails(i) BY <1>a3
  <2>e. ObAcceptFailsEffect(i) BY <2>1, ObAcceptFailsDoes
  <2> QED BY <2>e, <1>h, <1>u, <1>f, <1>c DEF ObAcceptFailsEffect, ObPart
<1>a4. CASE \E i \in ObInsts : ObRemote(i)
  <2>1. PICK i \in ObInsts : ObRemote(i) BY <1>a4
  <2>e. ObRemoteEffect(i) BY <2>1, ObRemoteDoes
  <2> QED BY <2>e, <1>h, <1>u, <1>f, <1>c DEF ObRemoteEffect, ObPart
<1>a5. CASE \E i \in ObInsts : ObCheck(i)
  <2>1. PICK i \in ObInsts : ObCheck(i) BY <1>a5
  <2>e. ObCheckEffect(i) BY <2>1, ObCheckDoes
  <2> QED BY <2>e, <1>h, <1>u, <1>f, <1>c DEF ObCheckEffect, ObPart
<1>a6. CASE \E i \in ObInsts : ObTrust(i)
  <2>1. PICK i \in ObInsts : ObTrust(i) BY <1>a6
  <2>e. ObTrustEffect(i) BY <2>1, ObTrustDoes
  <2> QED BY <2>e, <1>h, <1>u, <1>f, <1>c DEF ObTrustEffect, ObPart
<1>a7. CASE \E i \in ObInsts : ObJoins(i)
  <2>1. PICK i \in ObInsts : ObJoins(i) BY <1>a7
  <2>e. ObJoinsEffect(i) BY <2>1, ObJoinsDoes
  <2> QED BY <2>e, <1>h, <1>u, <1>f, <1>c DEF ObJoinsEffect, ObPart
<1>a8. CASE \E i \in ObInsts : ObSession(i)
  <2>1. PICK i \in ObInsts : ObSession(i) BY <1>a8
  <2>e. ObSessionEffect(i) BY <2>1, ObSessionDoes
  <2> QED BY <2>e, <1>h, <1>u, <1>f, <1>c DEF ObSessionEffect, ObPart
<1>a9. CASE \E i \in ObInsts : ObWait(i)
  <2>1. PICK i \in ObInsts : ObWait(i) BY <1>a9
  <2>e. ObWaitEffect(i) BY <2>1, ObWaitDoes
  <2> QED BY <2>e, <1>h, <1>u, <1>f, <1>c DEF ObWaitEffect, ObPart
<1>a10. CASE \E i \in ObInsts : ObTimer(i)
  <2>1. PICK i \in ObInsts : ObTimer(i) BY <1>a10
  <2>e. ObTimerEffect(i) BY <2>1, ObTimerDoes
  <2> QED BY <2>e, <1>h, <1>u, <1>f, <1>c DEF ObTimerEffect, ObPart
<1>a. CASE \E i \in ObInsts : ObAcceptThread(i)
  BY <1>a, <1>a1, <1>a2, <1>a3, <1>a4, <1>a5, <1>a6, <1>a7, <1>a8, <1>a9, <1>a10 DEF ObAcceptThread
<1>o1. CASE ObStartListener
  BY <1>o1, <1>1 DEF ObStartListener, ObIdle
<1>o2. CASE \E t \in obMain.timeouts : ObUserTimeout(t)
  BY <1>o2, <1>1 DEF ObUserTimeout, ObIdle
<1>o3. CASE \E t \in obMain.closes : ObServerSessionClose(t)
  BY <1>o3, <1>1 DEF ObServerSessionClose, ObIdle
<1>o4. CASE ObTurnOn
  BY <1>o4, <1>1 DEF ObTurnOn, ObIdle
<1>o5. CASE ObTurnOff
  BY <1>o5, <1>1 DEF ObTurnOff, ObIdle
<1>o6. CASE ObSessionGivenUp
  BY <1>o6, <1>1 DEF ObSessionGivenUp, ObIdle
<1>o7. CASE \E d \in ObDevices : ObAclDisconnected(d)
  BY <1>o7, <1>1 DEF ObAclDisconnected, ObIdle
<1>o8. CASE \E c \in ObConn : ObAllowed(c)
  BY <1>o8, <1>1 DEF ObAllowed, ObIdle, ObAnswers
<1>o9. CASE \E c \in ObConn : ObDisallowed(c)
  BY <1>o9, <1>1 DEF ObDisallowed, ObIdle, ObAnswers
<1>o10. CASE \E c \in ObConn : ObLinkLost(c)
  <2>1. PICK c \in ObConn : ObLinkLost(c) BY <1>o10
  <2>e. ObLinkLostEffect(c) BY <2>1, ObLinkLostDoes
  <2> QED BY <2>e, <1>h, <1>u, <1>f, <1>c DEF ObLinkLostEffect
<1>o11. CASE \E i \in ObInsts, d \in ObDevices, trust \in BOOLEAN : ObConnects(i, d, trust)
  <2>1. PICK i \in ObInsts, d \in ObDevices, trust \in BOOLEAN : ObConnects(i, d, trust) BY <1>o11
  <2>e. ObConnectsEffect(i, d, trust) BY <2>1, ObConnectsDoes
  <2> QED BY <2>e, <1>h, <1>u, <1>f, <1>c DEF ObConnectsEffect, ObPart
<1>o12. CASE \E c \in obWorld.alive : ObSessionEnds(c)
  <2>1. PICK c \in obWorld.alive : ObSessionEnds(c) BY <1>o12
  <2>2. c \in ObConn BY DEF ObNamed, ObNames
  <2>e. ObSessionEndsEffect(c) BY <2>1, ObSessionEndsDoes, <2>2
  <2> QED BY <2>e, <1>h, <1>u, <1>f, <1>c DEF ObSessionEndsEffect
<1>q. QED
  BY <1>m, <1>a, <1>o1, <1>o2, <1>o3, <1>o4, <1>o5, <1>o6, <1>o7, <1>o8, <1>o9, <1>o10, <1>o11,
     <1>o12 DEF ObRuns, ObHandler, ObEnvironment

\* Only the user's answer lets in what waits.
LEMMA ObAdmitNew ==
  ASSUME ObTyped, ObNamed, ObShape(obTodo), ObRuns, NEW n, ObHas("admit", n)', ~\E c \in ObConn : ObAllowed(c)
  PROVE  ObHas("admit", n)
<1>i. 0 \in ObInsts /\ (~Ftp => 1 \in ObInsts) BY ObInstsAre
<1>d. /\ ObClosers = {"closeListen", "stop", "join", "closeSock", "closeSession"}
      /\ ObStoppers = {"closeSession", "stop", "join", "closeSock", "listen"}
  BY DEF ObClosers, ObStoppers
<1>b. ObHas("admit", n)' OBVIOUS
<1>m1. CASE ObMainStep /\ Head(obTodo).do = "closeListen"
  <2>e. ObClosesListenEffect BY <1>m1, ObClosesListen
  <2>h. ObPopped BY <1>m1, <2>e, ObPopsHas DEF ObClosesListenEffect
  <2> QED BY <2>e, <1>m1, <2>h, <1>b, <1>d DEF ObPopped
<1>m2. CASE ObMainStep /\ Head(obTodo).do = "closeSock"
  <2>e. ObClosesSockEffect BY <1>m2, ObClosesSock
  <2>h. ObPopped BY <1>m2, <2>e, ObPopsHas DEF ObClosesSockEffect
  <2> QED BY <2>e, <1>m2, <2>h, <1>b, <1>d DEF ObPopped
<1>m3. CASE ObMainStep /\ Head(obTodo).do = "closeSession"
  <2>e. ObClosesSessionEffect BY <1>m3, ObClosesSession
  <2>h. ObPopped BY <1>m3, <2>e, ObPopsHas DEF ObClosesSessionEffect
  <2> QED BY <2>e, <1>m3, <2>h, <1>b, <1>d DEF ObPopped
<1>m4. CASE ObMainStep /\ Head(obTodo).do = "stop"
  <2>e. ObStopsThreadEffect BY <1>m4, ObStopsThread
  <2>h. ObPopped BY <1>m4, <2>e, ObPopsHas DEF ObStopsThreadEffect
  <2> QED BY <2>e, <1>m4, <2>h, <1>b, <1>d DEF ObPopped
<1>m5. CASE ObMainStep /\ Head(obTodo).do = "join"
  <2>e. ObJoinsThreadEffect BY <1>m5, ObJoinsThread
  <2>h. ObPopped BY <1>m5, <2>e, ObPopsHas DEF ObJoinsThreadEffect
  <2> QED BY <2>e, <1>m5, <2>h, <1>b, <1>d DEF ObPopped
<1>m6. CASE ObMainStep /\ Head(obTodo).do = "listen"
  <2>e. ObListensEffect BY <1>m6, ObListens
  <2>h. ObPopped BY <1>m6, <2>e, ObPopsHas DEF ObListensEffect
  <2> QED BY <2>e, <1>m6, <2>h, <1>b, <1>d DEF ObPopped
<1>m7. CASE ObMainStep /\ Head(obTodo).do = "removeTimeouts"
  <2>e. ObRemovesTimeoutsEffect BY <1>m7, ObRemovesTimeouts
  <2>h. ObPopped BY <1>m7, <2>e, ObPopsHas DEF ObRemovesTimeoutsEffect
  <2> QED BY <2>e, <1>m7, <2>h, <1>b, <1>d DEF ObPopped
<1>m8. CASE ObMainStep /\ Head(obTodo).do = "off"
  <2>e. ObTurnedOffEffect BY <1>m8, ObTurnedOff
  <2>h. ObPopped BY <1>m8, <2>e, ObPopsHas DEF ObTurnedOffEffect
  <2> QED BY <2>e, <1>m8, <2>h, <1>b, <1>d DEF ObPopped
<1>m9. CASE ObMainStep /\ Head(obTodo).do = "admit"
  <2>e. ObAdmitsEffect BY <1>m9, ObAdmits
  <2>n. PICK i : i = ObAt OBVIOUS
  <2>p. ObPops => ObPopped BY <1>m9, ObPopsHas
  <2>s. ObStops(ObAt) /\ (Head(obTodo).do = "refuse" \/ Ftp) => ObStopped(i)
    BY <1>m9, <2>n, ObStopsHas
  <2>h. ObPopped \/ ObStopped(i) BY <2>e, <2>p, <2>s, <1>m9 DEF ObAdmitsEffect
  <2> QED BY <2>e, <1>m9, <2>h, <1>b, <1>d DEF ObPopped, ObStopped
<1>m10. CASE ObMainStep /\ Head(obTodo).do = "refuse"
  <2>e. ObRefusesEffect BY <1>m10, ObRefuses
  <2>n. PICK i : i = ObAt OBVIOUS
  <2>p. ObPops => ObPopped BY <1>m10, ObPopsHas
  <2>s. ObStops(ObAt) /\ (Head(obTodo).do = "refuse" \/ Ftp) => ObStopped(i)
    BY <1>m10, <2>n, ObStopsHas
  <2>h. ObPopped \/ ObStopped(i) BY <2>e, <2>p, <2>s, <1>m10 DEF ObRefusesEffect
  <2> QED BY <2>e, <1>m10, <2>h, <1>b, <1>d DEF ObPopped, ObStopped
<1>m. CASE ObMainStep
  BY <1>m, <1>m1, <1>m2, <1>m3, <1>m4, <1>m5, <1>m6, <1>m7, <1>m8, <1>m9, <1>m10, ObHead DEF ObDos
<1>a1. CASE \E i \in ObInsts : ObCreate(i)
  <2>1. PICK i \in ObInsts : ObCreate(i) BY <1>a1
  <2>e. ObCreateEffect(i) BY <2>1, ObCreateDoes
  <2>h. ObSameTodo BY <2>e, ObTodoSame DEF ObCreateEffect
  <2> QED BY <2>e, <2>h, <1>b, <1>d DEF ObSameTodo
<1>a2. CASE \E i \in ObInsts : ObLoop(i)
  <2>1. PICK i \in ObInsts : ObLoop(i) BY <1>a2
  <2>e. ObLoopEffect(i) BY <2>1, ObLoopDoes
  <2>h. ObSameTodo BY <2>e, ObTodoSame DEF ObLoopEffect
  <2> QED BY <2>e, <2>h, <1>b, <1>d DEF ObSameTodo
<1>a3. CASE \E i \in ObInsts : ObAcceptFails(i)
  <2>1. PICK i \in ObInsts : ObAcceptFails(i) BY <1>a3
  <2>e. ObAcceptFailsEffect(i) BY <2>1, ObAcceptFailsDoes
  <2>h. ObSameTodo BY <2>e, ObTodoSame DEF ObAcceptFailsEffect
  <2> QED BY <2>e, <2>h, <1>b, <1>d DEF ObSameTodo
<1>a4. CASE \E i \in ObInsts : ObRemote(i)
  <2>1. PICK i \in ObInsts : ObRemote(i) BY <1>a4
  <2>e. ObRemoteEffect(i) BY <2>1, ObRemoteDoes
  <2>h. ObSameTodo BY <2>e, ObTodoSame DEF ObRemoteEffect
  <2> QED BY <2>e, <2>h, <1>b, <1>d DEF ObSameTodo
<1>a5. CASE \E i \in ObInsts : ObCheck(i)
  <2>1. PICK i \in ObInsts : ObCheck(i) BY <1>a5
  <2>e. ObCheckEffect(i) BY <2>1, ObCheckDoes
  <2>h. ObSameTodo BY <2>e, ObTodoSame DEF ObCheckEffect
  <2> QED BY <2>e, <2>h, <1>b, <1>d DEF ObSameTodo
<1>a6. CASE \E i \in ObInsts : ObTrust(i)
  <2>1. PICK i \in ObInsts : ObTrust(i) BY <1>a6
  <2>e. ObTrustEffect(i) BY <2>1, ObTrustDoes
  <2>h. ObSameTodo BY <2>e, ObTodoSame DEF ObTrustEffect
  <2> QED BY <2>e, <2>h, <1>b, <1>d DEF ObSameTodo
<1>a7. CASE \E i \in ObInsts : ObJoins(i)
  <2>1. PICK i \in ObInsts : ObJoins(i) BY <1>a7
  <2>e. ObJoinsEffect(i) BY <2>1, ObJoinsDoes
  <2>h. ObSameTodo BY <2>e, ObTodoSame DEF ObJoinsEffect
  <2> QED BY <2>e, <2>h, <1>b, <1>d DEF ObSameTodo
<1>a8. CASE \E i \in ObInsts : ObSession(i)
  <2>1. PICK i \in ObInsts : ObSession(i) BY <1>a8
  <2>e. ObSessionEffect(i) BY <2>1, ObSessionDoes
  <2>h. ObSameTodo BY <2>e, ObTodoSame DEF ObSessionEffect
  <2> QED BY <2>e, <2>h, <1>b, <1>d DEF ObSameTodo
<1>a9. CASE \E i \in ObInsts : ObWait(i)
  <2>1. PICK i \in ObInsts : ObWait(i) BY <1>a9
  <2>e. ObWaitEffect(i) BY <2>1, ObWaitDoes
  <2>h. ObSameTodo BY <2>e, ObTodoSame DEF ObWaitEffect
  <2> QED BY <2>e, <2>h, <1>b, <1>d DEF ObSameTodo
<1>a10. CASE \E i \in ObInsts : ObTimer(i)
  <2>1. PICK i \in ObInsts : ObTimer(i) BY <1>a10
  <2>e. ObTimerEffect(i) BY <2>1, ObTimerDoes
  <2>h. ObSameTodo BY <2>e, ObTodoSame DEF ObTimerEffect
  <2> QED BY <2>e, <2>h, <1>b, <1>d DEF ObSameTodo
<1>a. CASE \E i \in ObInsts : ObAcceptThread(i)
  BY <1>a, <1>a1, <1>a2, <1>a3, <1>a4, <1>a5, <1>a6, <1>a7, <1>a8, <1>a9, <1>a10 DEF ObAcceptThread
<1>o1. CASE ObStartListener
  <2>e. ObStartListenerEffect BY <1>o1, ObStartListenerDoes
  <2>h. \/ obWorld.adapter = "on" /\ \A e, z : ObHas(e, z)' <=> e = "listen" /\ z \in ObInsts
        \/ obWorld.adapter # "on" /\ \A e, z : ObHas(e, z)' <=> e \in ObClosers /\ z \in ObInsts
    BY <2>e, ObHasEach, ObHasClosers DEF ObStartListenerEffect
  <2> QED BY <2>e, <2>h, <1>b, <1>d
<1>o2. CASE \E t \in obMain.timeouts : ObUserTimeout(t)
  <2>1. PICK t \in obMain.timeouts : ObUserTimeout(t) BY <1>o2
  <2>e. ObUserTimeoutEffect(t) BY <2>1, ObUserTimeoutDoes
  <2>h. \A e, z : ObHas(e, z)' <=> e = "refuse" /\ z \in ObInsts
    BY <2>e, ObHasEach DEF ObUserTimeoutEffect, ObRefuse
  <2> QED BY <2>e, <2>h, <1>b, <1>d
<1>o3. CASE \E t \in obMain.closes : ObServerSessionClose(t)
  <2>1. PICK t \in obMain.closes : ObServerSessionClose(t) BY <1>o3
  <2>e. ObServerSessionCloseEffect(t) BY <2>1, ObServerSessionCloseDoes
  <2>n. obTodo' = <<>> => \A e, z : ~ObHas(e, z)' BY ObHasList, ObNoSteps
  <2>h. \/ \A e, z : ObHas(e, z)' <=> e \in ObStoppers /\ z = t[1]
        \/ \A e, z : ~ObHas(e, z)'
    BY <2>e, <2>n, ObHasStopped DEF ObServerSessionCloseEffect
  <2> QED BY <2>e, <2>h, <1>b, <1>d
<1>o4. CASE ObTurnOn
  <2>e. ObTurnOnEffect BY <1>o4, ObTurnOnDoes
  <2>h. ObSameTodo BY <2>e, ObTodoSame DEF ObTurnOnEffect
  <2> QED BY <2>e, <2>h, <1>b, <1>d DEF ObSameTodo
<1>o5. CASE ObTurnOff
  <2>e. ObTurnOffEffect BY <1>o5, ObTurnOffDoes
  <2>h. /\ \A e, z : ObHas(e, z)' <=> (e \in ObClosers /\ z \in ObInsts) \/ (e = "off" /\ z = 0)
        /\ ObEnds(obTodo)'
    BY <2>e, ObHasClosers DEF ObTurnOffEffect
  <2> QED BY <2>e, <2>h, <1>b, <1>d
<1>o6. CASE ObSessionGivenUp
  <2>e. ObGivenUpEffect BY <1>o6, ObGivenUpDoes
  <2>h. ObSameTodo \/ \A e, z : ObHas(e, z)' <=> e \in ObStoppers /\ z = 0
    BY <2>e, <1>i, ObTodoSame, ObHasStopped DEF ObGivenUpEffect
  <2> QED BY <2>e, <2>h, <1>b, <1>d DEF ObSameTodo
<1>o7. CASE \E d \in ObDevices : ObAclDisconnected(d)
  <2>1. PICK d \in ObDevices : ObAclDisconnected(d) BY <1>o7
  <2>e. ObAclEffect(d) BY <2>1, ObAclDoes
  <2>h. ObSameTodo \/ \A e, z : ObHas(e, z)' <=> e \in {"refuse", "removeTimeouts"} /\ z = 0
    BY <2>e, ObTodoSame, ObHasRefused DEF ObAclEffect
  <2> QED BY <2>e, <2>h, <1>b, <1>d DEF ObSameTodo
<1>o8. CASE \E c \in ObConn : ObAllowed(c)
  BY <1>o8
<1>o9. CASE \E c \in ObConn : ObDisallowed(c)
  <2>1. PICK c \in ObConn : ObDisallowed(c) BY <1>o9
  <2>e. ObDisallowedEffect(c) BY <2>1, ObDisallowedDoes
  <2>h. \A e, z : ObHas(e, z)' <=> (e = "refuse" /\ z \in ObInsts) \/ (e = "removeTimeouts" /\ z = 0)
    BY <2>e, ObHasEach DEF ObDisallowedEffect, ObRefuse
  <2> QED BY <2>e, <2>h, <1>b, <1>d
<1>o10. CASE \E c \in ObConn : ObLinkLost(c)
  <2>1. PICK c \in ObConn : ObLinkLost(c) BY <1>o10
  <2>e. ObLinkLostEffect(c) BY <2>1, ObLinkLostDoes
  <2>h. ObSameTodo BY <2>e, ObTodoSame DEF ObLinkLostEffect
  <2> QED BY <2>e, <2>h, <1>b, <1>d DEF ObSameTodo
<1>o11. CASE \E i \in ObInsts, d \in ObDevices, trust \in BOOLEAN : ObConnects(i, d, trust)
  <2>1. PICK i \in ObInsts, d \in ObDevices, trust \in BOOLEAN : ObConnects(i, d, trust) BY <1>o11
  <2>e. ObConnectsEffect(i, d, trust) BY <2>1, ObConnectsDoes
  <2>h. ObSameTodo BY <2>e, ObTodoSame DEF ObConnectsEffect
  <2> QED BY <2>e, <2>h, <1>b, <1>d DEF ObSameTodo
<1>o12. CASE \E c \in obWorld.alive : ObSessionEnds(c)
  <2>1. PICK c \in obWorld.alive : ObSessionEnds(c) BY <1>o12
  <2>2. c \in ObConn BY DEF ObNamed, ObNames
  <2>e. ObSessionEndsEffect(c) BY <2>1, ObSessionEndsDoes, <2>2
  <2>h. ObSameTodo BY <2>e, ObTodoSame DEF ObSessionEndsEffect
  <2> QED BY <2>e, <2>h, <1>b, <1>d DEF ObSameTodo
<1>q. QED
  BY <1>m, <1>a, <1>o1, <1>o2, <1>o3, <1>o4, <1>o5, <1>o6, <1>o7, <1>o8, <1>o9, <1>o10, <1>o11,
     <1>o12 DEF ObRuns, ObHandler, ObEnvironment

\* How a connection comes to a session: by trust, or by the answer.
ObComes(j) ==
  \/ ob'[j].session \in {0, ob[j].session}
  \/ ob[j].pc = "session" /\ ob'[j].session = ob[j].sock /\ ob[j].sock # 0
  \/ /\ ObMainStep /\ Head(obTodo).do = "admit" /\ ObAt = j
     /\ ob[j].waiting /\ ob[j].sock # 0 /\ ob'[j].session = ob[j].sock

\* Every step that opens a session does so by trust or by the answer.
LEMMA ObLetStays ==
  ASSUME ObTyped, ObNamed, ObRuns, NEW j \in ObInsts
  PROVE  /\ ob'[j].pc = "session" /\ ob'[j].sock # 0 =>
            (ob[j].pc = "session" /\ ob'[j].sock = ob[j].sock) \/ ObTrust(j)
         /\ ObComes(j)
<1>h. ObMainStep => ObAt \in ObInsts BY ObHead DEF ObAt
<1>m1. CASE ObMainStep /\ Head(obTodo).do = "closeListen"
  <2>e. ObClosesListenEffect BY <1>m1, ObClosesListen
  <2>g0. ob'[j].pc = "session" /\ ob'[j].sock # 0 =>
        (ob[j].pc = "session" /\ ob'[j].sock = ob[j].sock) \/ ObTrust(j)
    BY <2>e, <1>m1, <1>h DEF ObClosesListenEffect, ObPart
  <2>g1. ObComes(j)
    BY <2>e, <1>m1, <1>h DEF ObClosesListenEffect, ObPart, ObComes
  <2> QED BY <2>g0, <2>g1
<1>m2. CASE ObMainStep /\ Head(obTodo).do = "closeSock"
  <2>e. ObClosesSockEffect BY <1>m2, ObClosesSock
  <2>g0. ob'[j].pc = "session" /\ ob'[j].sock # 0 =>
        (ob[j].pc = "session" /\ ob'[j].sock = ob[j].sock) \/ ObTrust(j)
    BY <2>e, <1>m2, <1>h DEF ObClosesSockEffect, ObPart
  <2>g1. ObComes(j)
    BY <2>e, <1>m2, <1>h DEF ObClosesSockEffect, ObPart, ObComes
  <2> QED BY <2>g0, <2>g1
<1>m3. CASE ObMainStep /\ Head(obTodo).do = "closeSession"
  <2>e. ObClosesSessionEffect BY <1>m3, ObClosesSession
  <2>g0. ob'[j].pc = "session" /\ ob'[j].sock # 0 =>
        (ob[j].pc = "session" /\ ob'[j].sock = ob[j].sock) \/ ObTrust(j)
    BY <2>e, <1>m3, <1>h DEF ObClosesSessionEffect, ObPart
  <2>g1. ObComes(j)
    BY <2>e, <1>m3, <1>h DEF ObClosesSessionEffect, ObPart, ObComes
  <2> QED BY <2>g0, <2>g1
<1>m4. CASE ObMainStep /\ Head(obTodo).do = "stop"
  <2>e. ObStopsThreadEffect BY <1>m4, ObStopsThread
  <2>g0. ob'[j].pc = "session" /\ ob'[j].sock # 0 =>
        (ob[j].pc = "session" /\ ob'[j].sock = ob[j].sock) \/ ObTrust(j)
    BY <2>e, <1>m4, <1>h DEF ObStopsThreadEffect, ObPart
  <2>g1. ObComes(j)
    BY <2>e, <1>m4, <1>h DEF ObStopsThreadEffect, ObPart, ObComes
  <2> QED BY <2>g0, <2>g1
<1>m5. CASE ObMainStep /\ Head(obTodo).do = "join"
  <2>e. ObJoinsThreadEffect BY <1>m5, ObJoinsThread
  <2>g0. ob'[j].pc = "session" /\ ob'[j].sock # 0 =>
        (ob[j].pc = "session" /\ ob'[j].sock = ob[j].sock) \/ ObTrust(j)
    BY <2>e, <1>m5, <1>h DEF ObJoinsThreadEffect, ObPart
  <2>g1. ObComes(j)
    BY <2>e, <1>m5, <1>h DEF ObJoinsThreadEffect, ObPart, ObComes
  <2> QED BY <2>g0, <2>g1
<1>m6. CASE ObMainStep /\ Head(obTodo).do = "listen"
  <2>e. ObListensEffect BY <1>m6, ObListens
  <2>g0. ob'[j].pc = "session" /\ ob'[j].sock # 0 =>
        (ob[j].pc = "session" /\ ob'[j].sock = ob[j].sock) \/ ObTrust(j)
    BY <2>e, <1>m6, <1>h DEF ObListensEffect, ObPart
  <2>g1. ObComes(j)
    BY <2>e, <1>m6, <1>h DEF ObListensEffect, ObPart, ObComes
  <2> QED BY <2>g0, <2>g1
<1>m7. CASE ObMainStep /\ Head(obTodo).do = "removeTimeouts"
  <2>e. ObRemovesTimeoutsEffect BY <1>m7, ObRemovesTimeouts
  <2>g0. ob'[j].pc = "session" /\ ob'[j].sock # 0 =>
        (ob[j].pc = "session" /\ ob'[j].sock = ob[j].sock) \/ ObTrust(j)
    BY <2>e, <1>m7, <1>h DEF ObRemovesTimeoutsEffect
  <2>g1. ObComes(j)
    BY <2>e, <1>m7, <1>h DEF ObRemovesTimeoutsEffect, ObComes
  <2> QED BY <2>g0, <2>g1
<1>m8. CASE ObMainStep /\ Head(obTodo).do = "off"
  <2>e. ObTurnedOffEffect BY <1>m8, ObTurnedOff
  <2>g0. ob'[j].pc = "session" /\ ob'[j].sock # 0 =>
        (ob[j].pc = "session" /\ ob'[j].sock = ob[j].sock) \/ ObTrust(j)
    BY <2>e, <1>m8, <1>h DEF ObTurnedOffEffect
  <2>g1. ObComes(j)
    BY <2>e, <1>m8, <1>h DEF ObTurnedOffEffect, ObComes
  <2> QED BY <2>g0, <2>g1
<1>m9. CASE ObMainStep /\ Head(obTodo).do = "admit"
  <2>e. ObAdmitsEffect BY <1>m9, ObAdmits
  <2>g0. ob'[j].pc = "session" /\ ob'[j].sock # 0 =>
        (ob[j].pc = "session" /\ ob'[j].sock = ob[j].sock) \/ ObTrust(j)
    BY <2>e, <1>m9, <1>h DEF ObAdmitsEffect, ObPart
  <2>g1. ObComes(j)
    BY <2>e, <1>m9, <1>h DEF ObAdmitsEffect, ObPart, ObComes
  <2> QED BY <2>g0, <2>g1
<1>m10. CASE ObMainStep /\ Head(obTodo).do = "refuse"
  <2>e. ObRefusesEffect BY <1>m10, ObRefuses
  <2>g0. ob'[j].pc = "session" /\ ob'[j].sock # 0 =>
        (ob[j].pc = "session" /\ ob'[j].sock = ob[j].sock) \/ ObTrust(j)
    BY <2>e, <1>m10, <1>h DEF ObRefusesEffect, ObPart
  <2>g1. ObComes(j)
    BY <2>e, <1>m10, <1>h DEF ObRefusesEffect, ObPart, ObComes
  <2> QED BY <2>g0, <2>g1
<1>m. CASE ObMainStep
  BY <1>m, <1>m1, <1>m2, <1>m3, <1>m4, <1>m5, <1>m6, <1>m7, <1>m8, <1>m9, <1>m10, ObHead DEF ObDos
<1>a1. CASE \E i \in ObInsts : ObCreate(i)
  <2>1. PICK i \in ObInsts : ObCreate(i) BY <1>a1
  <2>e. ObCreateEffect(i) BY <2>1, ObCreateDoes
  <2>g0. ob'[j].pc = "session" /\ ob'[j].sock # 0 =>
        (ob[j].pc = "session" /\ ob'[j].sock = ob[j].sock) \/ ObTrust(j)
    BY <2>e, <1>h DEF ObCreateEffect, ObPart
  <2>g1. ObComes(j)
    BY <2>e, <1>h DEF ObCreateEffect, ObPart, ObComes
  <2> QED BY <2>g0, <2>g1
<1>a2. CASE \E i \in ObInsts : ObLoop(i)
  <2>1. PICK i \in ObInsts : ObLoop(i) BY <1>a2
  <2>e. ObLoopEffect(i) BY <2>1, ObLoopDoes
  <2>g0. ob'[j].pc = "session" /\ ob'[j].sock # 0 =>
        (ob[j].pc = "session" /\ ob'[j].sock = ob[j].sock) \/ ObTrust(j)
    BY <2>e, <1>h DEF ObLoopEffect, ObPart
  <2>g1. ObComes(j)
    BY <2>e, <1>h DEF ObLoopEffect, ObPart, ObComes
  <2> QED BY <2>g0, <2>g1
<1>a3. CASE \E i \in ObInsts : ObAcceptFails(i)
  <2>1. PICK i \in ObInsts : ObAcceptFails(i) BY <1>a3
  <2>e. ObAcceptFailsEffect(i) BY <2>1, ObAcceptFailsDoes
  <2>g0. ob'[j].pc = "session" /\ ob'[j].sock # 0 =>
        (ob[j].pc = "session" /\ ob'[j].sock = ob[j].sock) \/ ObTrust(j)
    BY <2>e, <1>h DEF ObAcceptFailsEffect, ObPart
  <2>g1. ObComes(j)
    BY <2>e, <1>h DEF ObAcceptFailsEffect, ObPart, ObComes
  <2> QED BY <2>g0, <2>g1
<1>a4. CASE \E i \in ObInsts : ObRemote(i)
  <2>1. PICK i \in ObInsts : ObRemote(i) BY <1>a4
  <2>e. ObRemoteEffect(i) BY <2>1, ObRemoteDoes
  <2>g0. ob'[j].pc = "session" /\ ob'[j].sock # 0 =>
        (ob[j].pc = "session" /\ ob'[j].sock = ob[j].sock) \/ ObTrust(j)
    BY <2>e, <1>h DEF ObRemoteEffect, ObPart
  <2>g1. ObComes(j)
    BY <2>e, <1>h DEF ObRemoteEffect, ObPart, ObComes
  <2> QED BY <2>g0, <2>g1
<1>a5. CASE \E i \in ObInsts : ObCheck(i)
  <2>1. PICK i \in ObInsts : ObCheck(i) BY <1>a5
  <2>e. ObCheckEffect(i) BY <2>1, ObCheckDoes
  <2>g0. ob'[j].pc = "session" /\ ob'[j].sock # 0 =>
        (ob[j].pc = "session" /\ ob'[j].sock = ob[j].sock) \/ ObTrust(j)
    BY <2>e, <1>h DEF ObCheckEffect, ObPart
  <2>g1. ObComes(j)
    BY <2>e, <1>h DEF ObCheckEffect, ObPart, ObComes
  <2> QED BY <2>g0, <2>g1
<1>a6. CASE \E i \in ObInsts : ObTrust(i)
  <2>1. PICK i \in ObInsts : ObTrust(i) BY <1>a6
  <2>e. ObTrustEffect(i) BY <2>1, ObTrustDoes
  <2>g0. ob'[j].pc = "session" /\ ob'[j].sock # 0 =>
        (ob[j].pc = "session" /\ ob'[j].sock = ob[j].sock) \/ ObTrust(j)
    BY <2>e, <1>h, <2>1 DEF ObTrustEffect, ObPart
  <2>g1. ObComes(j)
    BY <2>e, <1>h DEF ObTrustEffect, ObPart, ObComes
  <2> QED BY <2>g0, <2>g1
<1>a7. CASE \E i \in ObInsts : ObJoins(i)
  <2>1. PICK i \in ObInsts : ObJoins(i) BY <1>a7
  <2>e. ObJoinsEffect(i) BY <2>1, ObJoinsDoes
  <2>g0. ob'[j].pc = "session" /\ ob'[j].sock # 0 =>
        (ob[j].pc = "session" /\ ob'[j].sock = ob[j].sock) \/ ObTrust(j)
    BY <2>e, <1>h DEF ObJoinsEffect, ObPart
  <2>g1. ObComes(j)
    BY <2>e, <1>h DEF ObJoinsEffect, ObPart, ObComes
  <2> QED BY <2>g0, <2>g1
<1>a8. CASE \E i \in ObInsts : ObSession(i)
  <2>1. PICK i \in ObInsts : ObSession(i) BY <1>a8
  <2>e. ObSessionEffect(i) BY <2>1, ObSessionDoes
  <2>g0. ob'[j].pc = "session" /\ ob'[j].sock # 0 =>
        (ob[j].pc = "session" /\ ob'[j].sock = ob[j].sock) \/ ObTrust(j)
    BY <2>e, <1>h DEF ObSessionEffect, ObPart
  <2>g1. ObComes(j)
    BY <2>e, <1>h DEF ObSessionEffect, ObPart, ObComes
  <2> QED BY <2>g0, <2>g1
<1>a9. CASE \E i \in ObInsts : ObWait(i)
  <2>1. PICK i \in ObInsts : ObWait(i) BY <1>a9
  <2>e. ObWaitEffect(i) BY <2>1, ObWaitDoes
  <2>g0. ob'[j].pc = "session" /\ ob'[j].sock # 0 =>
        (ob[j].pc = "session" /\ ob'[j].sock = ob[j].sock) \/ ObTrust(j)
    BY <2>e, <1>h DEF ObWaitEffect, ObPart
  <2>g1. ObComes(j)
    BY <2>e, <1>h DEF ObWaitEffect, ObPart, ObComes
  <2> QED BY <2>g0, <2>g1
<1>a10. CASE \E i \in ObInsts : ObTimer(i)
  <2>1. PICK i \in ObInsts : ObTimer(i) BY <1>a10
  <2>e. ObTimerEffect(i) BY <2>1, ObTimerDoes
  <2>g0. ob'[j].pc = "session" /\ ob'[j].sock # 0 =>
        (ob[j].pc = "session" /\ ob'[j].sock = ob[j].sock) \/ ObTrust(j)
    BY <2>e, <1>h DEF ObTimerEffect, ObPart
  <2>g1. ObComes(j)
    BY <2>e, <1>h DEF ObTimerEffect, ObPart, ObComes
  <2> QED BY <2>g0, <2>g1
<1>a. CASE \E i \in ObInsts : ObAcceptThread(i)
  BY <1>a, <1>a1, <1>a2, <1>a3, <1>a4, <1>a5, <1>a6, <1>a7, <1>a8, <1>a9, <1>a10 DEF ObAcceptThread
<1>o1. CASE ObStartListener
  <2>e. ObStartListenerEffect BY <1>o1, ObStartListenerDoes
  <2>g0. ob'[j].pc = "session" /\ ob'[j].sock # 0 =>
        (ob[j].pc = "session" /\ ob'[j].sock = ob[j].sock) \/ ObTrust(j)
    BY <2>e, <1>h DEF ObStartListenerEffect
  <2>g1. ObComes(j)
    BY <2>e, <1>h DEF ObStartListenerEffect, ObComes
  <2> QED BY <2>g0, <2>g1
<1>o2. CASE \E t \in obMain.timeouts : ObUserTimeout(t)
  <2>1. PICK t \in obMain.timeouts : ObUserTimeout(t) BY <1>o2
  <2>e. ObUserTimeoutEffect(t) BY <2>1, ObUserTimeoutDoes
  <2>g0. ob'[j].pc = "session" /\ ob'[j].sock # 0 =>
        (ob[j].pc = "session" /\ ob'[j].sock = ob[j].sock) \/ ObTrust(j)
    BY <2>e, <1>h DEF ObUserTimeoutEffect
  <2>g1. ObComes(j)
    BY <2>e, <1>h DEF ObUserTimeoutEffect, ObComes
  <2> QED BY <2>g0, <2>g1
<1>o3. CASE \E t \in obMain.closes : ObServerSessionClose(t)
  <2>1. PICK t \in obMain.closes : ObServerSessionClose(t) BY <1>o3
  <2>e. ObServerSessionCloseEffect(t) BY <2>1, ObServerSessionCloseDoes
  <2>g0. ob'[j].pc = "session" /\ ob'[j].sock # 0 =>
        (ob[j].pc = "session" /\ ob'[j].sock = ob[j].sock) \/ ObTrust(j)
    BY <2>e, <1>h DEF ObServerSessionCloseEffect
  <2>g1. ObComes(j)
    BY <2>e, <1>h DEF ObServerSessionCloseEffect, ObComes
  <2> QED BY <2>g0, <2>g1
<1>o4. CASE ObTurnOn
  <2>e. ObTurnOnEffect BY <1>o4, ObTurnOnDoes
  <2>g0. ob'[j].pc = "session" /\ ob'[j].sock # 0 =>
        (ob[j].pc = "session" /\ ob'[j].sock = ob[j].sock) \/ ObTrust(j)
    BY <2>e, <1>h DEF ObTurnOnEffect
  <2>g1. ObComes(j)
    BY <2>e, <1>h DEF ObTurnOnEffect, ObComes
  <2> QED BY <2>g0, <2>g1
<1>o5. CASE ObTurnOff
  <2>e. ObTurnOffEffect BY <1>o5, ObTurnOffDoes
  <2>g0. ob'[j].pc = "session" /\ ob'[j].sock # 0 =>
        (ob[j].pc = "session" /\ ob'[j].sock = ob[j].sock) \/ ObTrust(j)
    BY <2>e, <1>h DEF ObTurnOffEffect
  <2>g1. ObComes(j)
    BY <2>e, <1>h DEF ObTurnOffEffect, ObComes
  <2> QED BY <2>g0, <2>g1
<1>o6. CASE ObSessionGivenUp
  <2>e. ObGivenUpEffect BY <1>o6, ObGivenUpDoes
  <2>g0. ob'[j].pc = "session" /\ ob'[j].sock # 0 =>
        (ob[j].pc = "session" /\ ob'[j].sock = ob[j].sock) \/ ObTrust(j)
    BY <2>e, <1>h DEF ObGivenUpEffect
  <2>g1. ObComes(j)
    BY <2>e, <1>h DEF ObGivenUpEffect, ObComes
  <2> QED BY <2>g0, <2>g1
<1>o7. CASE \E d \in ObDevices : ObAclDisconnected(d)
  <2>1. PICK d \in ObDevices : ObAclDisconnected(d) BY <1>o7
  <2>e. ObAclEffect(d) BY <2>1, ObAclDoes
  <2>g0. ob'[j].pc = "session" /\ ob'[j].sock # 0 =>
        (ob[j].pc = "session" /\ ob'[j].sock = ob[j].sock) \/ ObTrust(j)
    BY <2>e, <1>h DEF ObAclEffect
  <2>g1. ObComes(j)
    BY <2>e, <1>h DEF ObAclEffect, ObComes
  <2> QED BY <2>g0, <2>g1
<1>o8. CASE \E c \in ObConn : ObAllowed(c)
  <2>1. PICK c \in ObConn : ObAllowed(c) BY <1>o8
  <2>e. ObAllowedEffect(c) BY <2>1, ObAllowedDoes
  <2>g0. ob'[j].pc = "session" /\ ob'[j].sock # 0 =>
        (ob[j].pc = "session" /\ ob'[j].sock = ob[j].sock) \/ ObTrust(j)
    BY <2>e, <1>h DEF ObAllowedEffect
  <2>g1. ObComes(j)
    BY <2>e, <1>h DEF ObAllowedEffect, ObComes
  <2> QED BY <2>g0, <2>g1
<1>o9. CASE \E c \in ObConn : ObDisallowed(c)
  <2>1. PICK c \in ObConn : ObDisallowed(c) BY <1>o9
  <2>e. ObDisallowedEffect(c) BY <2>1, ObDisallowedDoes
  <2>g0. ob'[j].pc = "session" /\ ob'[j].sock # 0 =>
        (ob[j].pc = "session" /\ ob'[j].sock = ob[j].sock) \/ ObTrust(j)
    BY <2>e, <1>h DEF ObDisallowedEffect
  <2>g1. ObComes(j)
    BY <2>e, <1>h DEF ObDisallowedEffect, ObComes
  <2> QED BY <2>g0, <2>g1
<1>o10. CASE \E c \in ObConn : ObLinkLost(c)
  <2>1. PICK c \in ObConn : ObLinkLost(c) BY <1>o10
  <2>e. ObLinkLostEffect(c) BY <2>1, ObLinkLostDoes
  <2>g0. ob'[j].pc = "session" /\ ob'[j].sock # 0 =>
        (ob[j].pc = "session" /\ ob'[j].sock = ob[j].sock) \/ ObTrust(j)
    BY <2>e, <1>h DEF ObLinkLostEffect
  <2>g1. ObComes(j)
    BY <2>e, <1>h DEF ObLinkLostEffect, ObComes
  <2> QED BY <2>g0, <2>g1
<1>o11. CASE \E i \in ObInsts, d \in ObDevices, trust \in BOOLEAN : ObConnects(i, d, trust)
  <2>1. PICK i \in ObInsts, d \in ObDevices, trust \in BOOLEAN : ObConnects(i, d, trust) BY <1>o11
  <2>e. ObConnectsEffect(i, d, trust) BY <2>1, ObConnectsDoes
  <2>g0. ob'[j].pc = "session" /\ ob'[j].sock # 0 =>
        (ob[j].pc = "session" /\ ob'[j].sock = ob[j].sock) \/ ObTrust(j)
    BY <2>e, <1>h DEF ObConnectsEffect, ObPart
  <2>g1. ObComes(j)
    BY <2>e, <1>h DEF ObConnectsEffect, ObPart, ObComes
  <2> QED BY <2>g0, <2>g1
<1>o12. CASE \E c \in obWorld.alive : ObSessionEnds(c)
  <2>1. PICK c \in obWorld.alive : ObSessionEnds(c) BY <1>o12
  <2>2. c \in ObConn BY DEF ObNamed, ObNames
  <2>e. ObSessionEndsEffect(c) BY <2>1, ObSessionEndsDoes, <2>2
  <2>g0. ob'[j].pc = "session" /\ ob'[j].sock # 0 =>
        (ob[j].pc = "session" /\ ob'[j].sock = ob[j].sock) \/ ObTrust(j)
    BY <2>e, <1>h DEF ObSessionEndsEffect
  <2>g1. ObComes(j)
    BY <2>e, <1>h DEF ObSessionEndsEffect, ObComes
  <2> QED BY <2>g0, <2>g1
<1>q. QED
  BY <1>m, <1>a, <1>o1, <1>o2, <1>o3, <1>o4, <1>o5, <1>o6, <1>o7, <1>o8, <1>o9, <1>o10, <1>o11,
     <1>o12 DEF ObRuns, ObHandler, ObEnvironment

\* Every step lets in devices that are trusted or allowed.
LEMMA ObLetStep ==
  ASSUME ObTyped, ObNamed, ObShape(obTodo), ObStarts, Ftp =>
        ObFtp, ObCalmInv, ObOneDev, ObOnlyAdmits, ObLet, ObRuns
  PROVE  ObLet'
<1>c. UNCHANGED obConfig BY ObTodoStep
<1>s. ObInsts' = ObInsts /\ Ftp' = Ftp BY <1>c, ObSets
<1> DEFINE Odds == {"answer", "swapped", "masked"}
<1> SUFFICES ASSUME ~Odd(Odds)', Ftp \/ ObCalm'
             PROVE  /\ \A j \in ObInsts : ObLets(j)'
                    /\ \A n : ObHas("admit", n)' => \E i \in ObInsts : ObOwed(i)'
  BY <1>s DEF ObLet
<1>g. obPast \subseteq obPast' BY ObPastGrows
<1>r. "answer" \notin obPast' /\ "swapped" \notin obPast' /\ "masked" \notin obPast' BY DEF Odd
<1>p. ~Odd(Odds) /\ (Ftp \/ ObCalm) BY <1>g, <1>r, <1>s DEF ObCalm, Odd
<1>o. /\ \A i \in ObInsts : ObLets(i)
      /\ \A n : ObHas("admit", n) => \E i \in ObInsts : ObOwed(i)
  BY <1>p DEF ObLet
<1>w. \A i \in ObInsts : ObNamedAt(i) BY DEF ObNamed
<1>k. \A c \in ObConn : obWorld'.conns[c] = obWorld.conns[c] BY ObKeptStep DEF ObKept
<1>a. obWorld.allowed \subseteq obWorld'.allowed BY ObAllowedGrows
<1>v. \A c \in ObConn : ObDev(c) \in obWorld.allowed => obWorld'.conns[c].dev \in obWorld'.allowed
  BY <1>k, <1>a DEF ObDev
<1>1. ASSUME NEW j \in ObInsts PROVE ObLets(j)'
  <2>l. ObLets(j) /\ ObNamedAt(j) BY <1>o, <1>w
  <2>s. ob[j].sock # 0 => ob[j].sock \in ObConn BY <2>l DEF ObNamedAt
  <2>1. /\ ob'[j].pc = "session" /\ ob'[j].sock # 0 =>
           (ob[j].pc = "session" /\ ob'[j].sock = ob[j].sock) \/ ObTrust(j)
        /\ ObComes(j)
    BY ObLetStays
  <2>2. ASSUME ob'[j].pc = "session", ob'[j].sock # 0
        PROVE obWorld'.conns[ob'[j].sock].dev \in obWorld'.allowed
    <3>1. CASE ob[j].pc = "session" /\ ob'[j].sock = ob[j].sock
      BY <3>1, <2>2, <2>l, <2>s, <1>v DEF ObLets, ObDevOf
    <3>2. CASE ObTrust(j)
      <4>e. ObTrustEffect(j) BY <3>2, ObTrustDoes
      <4>1. /\ ob[j].pc = "trust" /\ ob'[j].sock = ob[j].sock /\ ob[j].sock # 0
            /\ ObDev(obMain.remote) \in obWorld.allowed /\ ObSwapped(j) \subseteq obPast'
        BY <4>e, <2>2 DEF ObTrustEffect, ObPart
      <4>2. ob[j].sock = ob[j].conn BY <4>1, <2>l DEF ObNamedAt, ObTaking
      <4>3. ObDev(obMain.remote) = ObDev(ob[j].conn) BY <4>1, <1>r DEF ObSwapped
      <4> QED BY <4>1, <4>2, <4>3, <2>s, <1>v
    <3> QED BY <2>1, <2>2, <3>1, <3>2
  <2>3. ASSUME ob'[j].session # 0 PROVE obWorld'.conns[ob'[j].session].dev \in obWorld'.allowed
    <3>1. CASE ob'[j].session = ob[j].session BY <3>1, <2>3, <2>l, <1>v DEF ObLets, ObNamedAt
    <3>2. CASE ob[j].pc = "session" /\ ob'[j].session = ob[j].sock /\ ob[j].sock # 0
      BY <3>2, <2>l, <2>s, <1>v DEF ObLets, ObDevOf
    <3>3. CASE /\ ObMainStep /\ Head(obTodo).do = "admit" /\ ObAt = j
               /\ ob[j].waiting /\ ob[j].sock # 0 /\ ob'[j].session = ob[j].sock
      <4>1. ObHas("admit", j)
        <5>1. obTodo \in Seq(ObStepSet) /\ obTodo # <<>> /\ Head(obTodo) = ObTask("admit", j)
          BY <3>3, ObHead DEF ObTyped, ObAt
        <5> QED BY <5>1, ObInTail DEF ObHas
      <4>2. PICK i \in ObInsts : ObOwed(i) BY <4>1, <1>o
      <4>3. ObDevOf(j) \in obWorld.allowed
        <5>1. CASE i = j BY <5>1, <4>2 DEF ObOwed
        <5>2. CASE i # j
          <6>1. ~Ftp /\ ObInsts = {0, 1} BY <5>2, ObInstsAre
          <6>2. ObCalm /\ "masked" \notin obPast BY <6>1, <1>p, <1>r, <1>g
          <6>3. ob[j].pc \in ObQuiet BY <6>2, <3>3 DEF ObCalmInv, ObServed
          <6>4. ObChecked(i) /\ ObChecked(j)
            BY <6>1, <6>3, <4>2, <3>3 DEF ObOwed, ObChecked, ObQuiet
          <6>5. ObDevOf(0) = ObDevOf(1) BY <6>1, <6>2, <6>4, <5>2 DEF ObOneDev
          <6>6. ObDevOf(j) = ObDevOf(i) BY <6>1, <6>5
          <6> QED BY <6>6, <4>2 DEF ObOwed
        <5> QED BY <5>1, <5>2
      <4> QED BY <4>3, <3>3, <2>s, <1>v DEF ObDevOf
    <3> QED BY <2>1, <2>3, <3>1, <3>2, <3>3 DEF ObComes
  <2> QED BY <2>2, <2>3 DEF ObLets, ObDevOf, ObDev
<1>2. ASSUME NEW n, ObHas("admit", n)' PROVE \E i \in ObInsts : ObOwed(i)'
  <2>1. CASE ObHas("admit", n)
    <3>1. PICK k \in ObInsts : ObOwed(k) BY <2>1, <1>o
    <3>2. ob[k].sock # 0 /\ (~Ftp => ob[k].pc \in ObQuiet) /\ ObDev(ob[k].sock) \in obWorld.allowed
          /\ ob[k].sock \in ObConn
      BY <3>1, <1>w DEF ObOwed, ObDevOf, ObNamedAt
    <3>3. ob'[k].sock = ob[k].sock /\ (~Ftp => ob'[k].pc \in ObQuiet)
      BY <3>2, <2>1, <1>2, ObOwedStays
    <3>4. ObOwed(k)' BY <3>2, <3>3, <1>v, <1>s DEF ObOwed, ObDevOf, ObDev
    <3> QED BY <3>4
  <2>2. CASE ~ObHas("admit", n)
    <3>1. \E c \in ObConn : ObAllowed(c) BY <2>2, <1>2, ObAdmitNew
    <3>2. PICK c \in ObConn : ObAllowed(c) BY <3>1
    <3>e. ObAllowedEffect(c) BY <3>2, ObAllowedDoes
    <3>3. /\ UNCHANGED ob /\ ObDev(c) \in obWorld'.allowed
          /\ \E i \in ObInsts : ob[i].waiting /\ ob[i].sock = c
      BY <3>e, <1>r DEF ObAllowedEffect, ObWorldIs
    <3>4. PICK i \in ObInsts : ob[i].waiting /\ ob[i].sock = c BY <3>3
    <3>5. ~Ftp => ob[i].pc \in ObQuiet BY <3>4, <1>p DEF ObCalmInv, ObServed
    <3>6. c # 0 BY ObConnTyped
    <3>7. obWorld'.conns[c].dev \in obWorld'.allowed BY <3>3, <1>k DEF ObDev
    <3>8. ObOwed(i)' BY <3>3, <3>4, <3>5, <3>6, <3>7, <1>s DEF ObOwed, ObDevOf, ObDev
    <3> QED BY <3>8
  <2> QED BY <2>1, <2>2
<1> QED BY <1>1, <1>2

\* The inductive invariant.
ObInv ==
  /\ ObTyped /\ ObShape(obTodo) /\ ObNamed /\ ObClosing /\ ObStarts /\ (Ftp => ObFtp) /\ ObCalmInv
  /\ ObOnlyAdmits /\ ObOneDev /\ ObLet

\* The invariant holds when the service is created.
LEMMA ObInvInit == ObInit => ObInv
<1> SUFFICES ASSUME ObInit PROVE ObInv OBVIOUS
<1>0. obTodo = <<>> /\ obPast = {} /\ obConfig \in ObConfigs BY DEF ObInit
<1>1. /\ ob \in [ObInsts -> ObLocal]
      /\ \A i \in ObInsts : /\ ob[i].listen = FALSE /\ ob[i].sock = 0 /\ ob[i].session = 0
         /\ ob[i].waiting = FALSE
                            /\ ob[i].pc = "none" /\ ob[i].conn = 0
  BY DEF ObInit, ObLocal, ObLabels
<1>2. /\ obMain \in ObMainSet
      /\ obMain.remote = 0 /\ obMain.notified = FALSE /\ obMain.start = FALSE
      /\ obMain.timeouts = {} /\ obMain.closes = {}
  BY DEF ObInit, ObMainSet
<1>3. <<>> \in Seq([dev : ObDevices, inst : ObInsts]) /\ Len(<<>>) = 0 OBVIOUS
<1>4. /\ obWorld \in ObWorldSet /\ obWorld.adapter = "off" /\ obWorld.conns = <<>>
         /\ obWorld.alive = {}
      /\ obWorld.linked = {} /\ obWorld.asked = {}
  BY <1>3 DEF ObInit, ObWorldSet
<1>5. obTodo \in Seq(ObStepSet) BY <1>0
<1>6. ObTyped BY <1>0, <1>1, <1>2, <1>4, <1>5, ObexAssumption DEF ObTyped
<1>7. ObShape(obTodo) BY <1>0, ObNoSteps
<1>8. ObConn = {} BY <1>3, <1>4 DEF ObConn
<1>9. ObNamed BY <1>1, <1>2, <1>4, <1>8 DEF ObNamed, ObNames, ObNamedAt, ObTaking
<1>10. \A d, i : ~ObHas(d, i) BY <1>0, ObHasNothing
<1>11. ObClosing BY <1>1, <1>4, <1>10 DEF ObClosing, ObClosingList, ObOffAt
<1>12. ObStarts BY <1>2 DEF ObStarts
<1>13. Ftp => ObFtp BY <1>0, <1>1, ObInstsAre DEF ObFtp
<1>14. ObCalmInv
  BY <1>1, <1>2, <1>4, <1>10 DEF ObCalmInv, ObKnown, ObServed, ObRestarts, ObAnswered, ObQuiet
<1>15. ObOnlyAdmits BY <1>10 DEF ObOnlyAdmits
<1>16. ObOneDev BY <1>1, <1>4, ObInstsAre DEF ObOneDev, ObChecked, ObOneSession
<1>17. ObLet BY <1>1, <1>10 DEF ObLet, ObLets
<1> QED BY <1>6, <1>7, <1>9, <1>11, <1>12, <1>13, <1>14, <1>15, <1>16, <1>17 DEF ObInv

\* The order of the list after a step, of the same profile.
LEMMA ObShapeNext == ASSUME UNCHANGED obConfig, ObShape(obTodo') PROVE ObShape(obTodo)'
BY ObSets DEF ObShape

\* The invariant speaks of the state alone.
LEMMA ObStutter == ASSUME ObInv, UNCHANGED obVars PROVE ObInv'
<1>1. UNCHANGED <<obConfig, ob, obMain, obTodo, obWorld, obPast>> BY DEF obVars
<1>2. /\ Ftp' = Ftp /\ ObInsts' = ObInsts /\ ObMainSet' = ObMainSet /\ ObWorldSet' = ObWorldSet
         /\ ObStepSet' = ObStepSet
      /\ ObConn' = ObConn
  BY <1>1, ObSets DEF ObConn
<1>3. ObTyped' BY <1>1, <1>2 DEF ObInv, ObTyped
<1>4. ObShape(obTodo)' BY <1>1, <1>2 DEF ObInv, ObShape
<1>5. ObNamed' BY <1>1, <1>2 DEF ObInv, ObNamed, ObNames, ObNamedAt
<1>6. ObSameTodo /\ (ObEnds(obTodo)' <=> ObEnds(obTodo)) BY <1>1, ObTodoSame DEF ObEnds
<1>7. ObClosing'
  BY <1>1, <1>2, <1>6 DEF ObInv, ObClosing, ObClosingList, ObClosingAt, ObOffAt, ObSameTodo
<1>8. ObStarts' BY <1>1, <1>2, <1>6 DEF ObInv, ObStarts, ObSameTodo
<1>9. (Ftp => ObFtp)' BY <1>1, <1>2 DEF ObInv, ObFtp
<1>10. ObCalmInv'
  BY <1>1, <1>2, <1>6 DEF ObInv, ObCalmInv, ObCalm, Odd, ObKnown, ObServed, ObRestarts, ObAnswered,
     ObSameTodo
<1>11. ObOnlyAdmits' BY <1>6 DEF ObInv, ObOnlyAdmits, ObSameTodo
<1>12. ObOneDev'
  BY <1>1, <1>2 DEF ObInv, ObOneDev, ObCalm, Odd, ObChecked, ObDevOf, ObDev, ObOneSession
<1>13. ObLet'
  BY <1>1, <1>2, <1>6 DEF ObInv, ObLet, ObLets, ObOwed, ObCalm, Odd, ObDevOf, ObDev, ObSameTodo
<1> QED BY <1>3, <1>4, <1>5, <1>7, <1>8, <1>9, <1>10, <1>11, <1>12, <1>13 DEF ObInv

\* The timeouts of the waits are no part of it but for what they name.
LEMMA ObDrops == ASSUME ObInv, ObTimeoutsDropped PROVE ObInv'
<1>0. obMain \in ObMainSet /\ ObNames BY DEF ObInv, ObTyped, ObNamed
<1>1. /\ UNCHANGED <<obConfig, ob, obTodo, obWorld>> /\ obTodo = <<>>
      /\ obMain' = [obMain EXCEPT !.timeouts = {}, !.notified = FALSE]
      /\ obPast' = obPast \/ obPast' = obPast \cup {"untimed"}
  BY DEF ObTimeoutsDropped, ObIdle
<1>a. ObMainIs(obMain.remote, FALSE, obMain.start, {}, obMain.closes) BY <1>0, <1>1 DEF ObMainIs, ObMainSet
<1>b. /\ obMain' \in ObMainSet /\ obMain'.remote = obMain.remote /\ obMain'.start = obMain.start
      /\ obMain'.timeouts = {} /\ obMain'.closes = obMain.closes /\ obMain'.notified = FALSE
  BY <1>a DEF ObMainIs
<1>c. \A kinds : "untimed" \notin kinds => (Odd(kinds)' <=> Odd(kinds)) BY <1>1 DEF Odd
<1>d. (ObCalm' <=> ObCalm) /\ ("masked" \in obPast' <=> "masked" \in obPast)
  <2>1. Ftp' = Ftp BY <1>1 DEF Ftp
  <2>2. CASE Ftp BY <1>1, <2>1, <2>2 DEF ObCalm, Odd
  <2>3. CASE ~Ftp BY <1>1, <2>1, <2>3 DEF ObCalm, Odd
  <2> QED BY <2>2, <2>3
<1>2. /\ Ftp' = Ftp /\ ObInsts' = ObInsts /\ ObMainSet' = ObMainSet /\ ObWorldSet' = ObWorldSet
         /\ ObStepSet' = ObStepSet
      /\ ObConn' = ObConn
  BY <1>1, ObSets DEF ObConn
<1>3. ObTyped' BY <1>1, <1>b, <1>c, <1>d, <1>2 DEF ObInv, ObTyped
<1>4. ObShape(obTodo)' BY <1>1, <1>b, <1>c, <1>d, <1>2 DEF ObInv, ObShape
<1>5. ObNamed' BY <1>1, <1>b, <1>c, <1>d, <1>2 DEF ObInv, ObNamed, ObNames, ObNamedAt
<1>6. ObSameTodo /\ (ObEnds(obTodo)' <=> ObEnds(obTodo)) BY <1>1, ObTodoSame DEF ObEnds
<1>7. ObClosing'
  BY <1>1, <1>b, <1>c, <1>d, <1>2, <1>6 DEF ObInv, ObClosing, ObClosingList, ObClosingAt, ObOffAt, ObSameTodo
<1>8. ObStarts' BY <1>1, <1>b, <1>c, <1>d, <1>2, <1>6 DEF ObInv, ObStarts, ObSameTodo
<1>9. (Ftp => ObFtp)' BY <1>1, <1>b, <1>c, <1>d, <1>2 DEF ObInv, ObFtp
<1>10. ObCalmInv'
  BY <1>1, <1>b, <1>c, <1>d, <1>2, <1>6 DEF ObInv, ObCalmInv, ObCalm, Odd, ObKnown, ObServed, ObRestarts, ObAnswered,
     ObSameTodo
<1>11. ObOnlyAdmits' BY <1>6, SMTT(60) DEF ObInv, ObOnlyAdmits, ObSameTodo
<1>12. ObOneDev'
  BY <1>1, <1>b, <1>c, <1>d, <1>2 DEF ObInv, ObOneDev, ObCalm, Odd, ObChecked, ObDevOf, ObDev, ObOneSession
<1>13. ObLet'
  BY <1>1, <1>b, <1>c, <1>d, <1>2, <1>6 DEF ObInv, ObLet, ObLets, ObOwed, ObCalm, Odd, ObDevOf, ObDev, ObSameTodo
<1> QED BY <1>3, <1>4, <1>5, <1>7, <1>8, <1>9, <1>10, <1>11, <1>12, <1>13 DEF ObInv

\* Every step keeps the invariant.
LEMMA ObInvStep == ObInv /\ [ObNext]_obVars => ObInv'
<1>1. CASE ObInv /\ UNCHANGED obVars BY <1>1, ObStutter
<1>2. CASE ObInv /\ ObRuns
  <2>a. /\ ObTyped /\ ObShape(obTodo) /\ ObNamed /\ ObClosing /\ ObStarts /\ (Ftp => ObFtp)
           /\ ObCalmInv
        /\ ObOnlyAdmits /\ ObOneDev /\ ObLet
    BY <1>2 DEF ObInv
  <2>1. UNCHANGED obConfig /\ ObShape(obTodo') BY <1>2, <2>a, ObTodoStep
  <2>2. ObShape(obTodo)' BY <2>1, ObShapeNext
  <2>3. ObTyped' BY <1>2, <2>a, ObKeptStep
  <2>4. ObNamed' BY <1>2, <2>a, ObNamedStep
  <2>5. ObClosing' BY <1>2, <2>a, ObClosingStep
  <2>6. ObStarts' BY <1>2, <2>a, ObStartsStep
  <2>7. (Ftp => ObFtp)' BY <1>2, <2>1, <2>a, ObFtpStep, ObSets
  <2>8. ObCalmInv' BY <1>2, <2>a, ObCalmStep
  <2>9. ObOnlyAdmits' BY <1>2, <2>a, ObOnlyAdmitsStep
  <2>10. ObOneDev' BY <1>2, <2>a, ObOneDevStep
  <2>11. ObLet' BY <1>2, <2>a, ObLetStep
  <2> QED BY <2>2, <2>3, <2>4, <2>5, <2>6, <2>7, <2>8, <2>9, <2>10, <2>11 DEF ObInv
<1>3. CASE ObInv /\ ObTimeoutsDropped BY <1>3, ObDrops
<1> QED BY <1>1, <1>2, <1>3 DEF ObNext

\* The inductive invariant holds of every behaviour of the OBEX services.
THEOREM ObInvariant == ObSpec => []ObInv
BY ObInvInit, ObInvStep, PTL DEF ObSpec

\* ObTypeOK: sockets, sessions, messages and timeouts name connections that were
\* accepted, for every number of devices and connections.
THEOREM ObTypes == ObSpec => []ObTypeOK
<1>1. ObInv => ObTypeOK
  <2> SUFFICES ASSUME ObInv PROVE ObTypeOK OBVIOUS
  <2>1. \A c \in ObConn : obWorld.conns[c].inst \in ObInsts BY ObConnTyped DEF ObInv
  <2> QED BY <2>1 DEF ObTypeOK, ObInv, ObNamed, ObNames, ObNamedAt
<1>2. QED BY <1>1, ObInvariant, PTL

\* ObClosed: after closeService or closeConnection no thread is left, nothing listens
\* and no session runs, unless a late answer, an old timeout or a CLOSE of an earlier
\* session restarted a listener meanwhile.
THEOREM ObClosedHolds == ObSpec => []ObClosed
<1>1. ObInv => ObClosed
  <2> SUFFICES ASSUME ObInv, obWorld.adapter = "off"
               PROVE  /\ obWorld.alive = {} \/ Odd({"answer", "timeout", "stolen"})
                      /\ \A i \in ObInsts : ob[i].pc = "none" /\ ~ob[i].listen /\ ob[i].session = 0
    BY DEF ObClosed
  <2>1. \A i \in ObInsts : ob[i].pc = "none" /\ ~ob[i].listen /\ ob[i].session = 0
    BY DEF ObInv, ObClosing, ObOffAt
  <2>2. ASSUME ~Odd({"answer", "timeout", "stolen"}), NEW c \in obWorld.alive PROVE FALSE
    <3>1. ObCalm BY <2>2 DEF ObCalm, Odd
    <3>2. c \in ObConn /\ c # 0 BY ObConnTyped DEF ObInv, ObNamed, ObNames
    <3>3. obWorld.conns[c].inst \in ObInsts BY <3>2, ObConnTyped DEF ObInv
    <3>4. ob[obWorld.conns[c].inst].session = c BY <3>1, <3>3 DEF ObInv, ObCalmInv, ObKnown
    <3> QED BY <2>1, <3>2, <3>3, <3>4
  <2> QED BY <2>1, <2>2
<1>2. QED BY <1>1, ObInvariant, PTL

\* ObServesOne: a session is opened for a trusted or allowed device only, and both
\* message instances serve one device, except in the ways the property names.
THEOREM ObServesOneHolds == ObSpec => []ObServesOne
<1>1. ObInv => ObServesOne
  <2> SUFFICES ASSUME ObInv PROVE ObServesOne OBVIOUS
  <2>0. ObCalmInv /\ ObOneDev /\ ObLet /\ ObNamed BY DEF ObInv
  <2>1. ASSUME NEW i \in ObInsts, ob[i].session # 0, ~Odd({"answer", "swapped", "masked", "stolen"})
        PROVE  ObDev(ob[i].session) \in obWorld.allowed
    <3>1. ~Odd({"answer", "swapped", "masked"}) /\ (Ftp \/ ObCalm) BY <2>1 DEF Odd, ObCalm
    <3> QED BY <3>1, <2>0, <2>1 DEF ObLet, ObLets
  <2>2. ASSUME NEW i \in ObInsts, NEW j \in ObInsts, {ob[i].session, ob[j].session} \subseteq obWorld.linked,
               ~Odd({"masked", "stolen"})
        PROVE  ObDev(ob[i].session) = ObDev(ob[j].session)
    <3>1. CASE i = j BY <3>1
    <3>2. CASE i # j
      <4>1. ~Ftp /\ ObInsts = {0, 1} BY <3>2, ObInstsAre
      <4>2. ObCalm /\ "masked" \notin obPast BY <2>2, <4>1 DEF Odd, ObCalm
      <4>3. ObOneSession(i) /\ ObOneSession(j) BY <2>0, <4>1, <4>2 DEF ObOneDev
      <4>4. ob[i].session = ob[i].sock /\ ob[j].session = ob[j].sock /\ ob[i].pc \in ObQuiet
            /\ ob[j].pc \in ObQuiet
        BY <4>3, <2>2 DEF ObOneSession
      <4>5. ob[i].session \in ObConn /\ ob[j].session \in ObConn BY <2>0, <2>2 DEF ObNamed, ObNames
      <4>6. ob[i].session # 0 /\ ob[j].session # 0 BY <4>5, ObConnTyped DEF ObInv
      <4>7. ObChecked(i) /\ ObChecked(j) BY <4>4, <4>6 DEF ObChecked, ObQuiet
      <4>8. ObDevOf(0) = ObDevOf(1) BY <2>0, <4>1, <4>2, <4>7, <3>2 DEF ObOneDev
      <4>9. ObDevOf(i) = ObDevOf(j) BY <4>1, <4>8
      <4> QED BY <4>4, <4>9 DEF ObDevOf
    <3> QED BY <3>1, <3>2
  <2> QED BY <2>1, <2>2 DEF ObServesOne
<1>2. QED BY <1>1, ObInvariant, PTL
=============================================================================
