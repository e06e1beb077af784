--------------------------- MODULE BtMessageProofs ---------------------------
(***************************************************************************)
(* Theorems about the message notification client: BtMns for any number of *)
(* requests and events.                                                    *)
(***************************************************************************)
EXTENDS BtMns, FiniteSetTheorems, SequenceTheorems, TLAPS

MnsFields  == [registered : SUBSET MnsClients, waiting : SUBSET MnsClients, session : Nat,
               sending : BOOLEAN, events : Seq(Nat)]
MnsEndingAt == {"deregister", "check", "stop", "off", "offstop", "cleanup"}
MnsThread  == [of : Nat, at : MnsEndingAt, nr : Nat]
MnsSendAt  == {"timeout", "read", "enter", "put", "finish"}
MnsTaskSet == [event : Nat, at : MnsSendAt, session : Nat]
MnsObex    == [cs : BOOLEAN, open : BOOLEAN, connected : BOOLEAN, id : BOOLEAN, lock : BOOLEAN]

\* Requests name an instance.
MnsWhat == {"MNS_CONNECT", "MNS_DISCONNECT", "MNS_BLUETOOTH_OFF", "MNS_SEND_EVENT",
            "MNS_SEND_EVENT_DONE", "RFCOMM_CONNECTED", "RFCOMM_ERROR"}
MnsMessage ==
  {msg \in [what : MnsWhat, of : Nat] :
     msg.what \in {"MNS_CONNECT", "MNS_DISCONNECT"} => msg.of \in MnsClients}

MnsTypes ==
  /\ mns \in MnsFields /\ mns.session \in 0..Len(mnsSessions)
  /\ mnsQueue \in Seq(MnsMessage) /\ mnsSessions \in Seq(MnsObex)
  /\ mnsEnding \subseteq MnsThread /\ IsFiniteSet(mnsEnding)
  /\ mnsTasks \subseteq MnsTaskSet
  /\ \A t \in mnsTasks : /\ t.session \in 0..Len(mnsSessions)
                         /\ t.at \in {"enter", "put"} => t.session # 0
  /\ mnsTodo \in {"none", "connect", "register"} /\ (mnsTodo = "connect" => mnsSessions # <<>>)
  /\ mnsConnecting \in BOOLEAN /\ mnsLate \in BOOLEAN
  /\ mnsWanted \subseteq MnsClients /\ mnsLeft \in [requests : Nat, events : Nat]
-----------------------------------------------------------------------------
(***************************************************************************)
(* The queue.  A message is about an instance, or part of an attempt to    *)
(* connect, or neither.                                                    *)
(***************************************************************************)
AboutInst(msg, m) == msg.what \in {"MNS_CONNECT", "MNS_DISCONNECT"} /\ msg.of = m
IsAttempt(msg)    == msg.what \in {"RFCOMM_CONNECTED", "RFCOMM_ERROR"}

\* The last message about m asks for what.
Asked(q, m, what) ==
  \E k \in 1..Len(q) : /\ q[k].what = what /\ AboutInst(q[k], m)
                       /\ \A j \in (k + 1)..Len(q) : ~AboutInst(q[j], m)
Unasked(q, m)  == \A k \in 1..Len(q) : ~AboutInst(q[k], m)
NoAttempt(q)   == \A k \in 1..Len(q) : ~IsAttempt(q[k])
OneAttempt(q)  == \A j, k \in 1..Len(q) : IsAttempt(q[j]) /\ IsAttempt(q[k]) => j = k
Queued(q, what) == \E k \in 1..Len(q) : q[k].what = what

\* A change of the queue that concerns neither.
QueueKeeps(q, r) ==
  /\ \A m, what : Asked(q, m, what) => Asked(r, m, what)
  /\ \A m : Unasked(q, m) => Unasked(r, m)
  /\ NoAttempt(r) <=> NoAttempt(q)
  /\ OneAttempt(q) => OneAttempt(r)
  /\ \A what \in {"MNS_BLUETOOTH_OFF", "RFCOMM_ERROR"} : Queued(r, what) => Queued(q, what)

\* A queue left alone.
LEMMA QueueSame == \A q : QueueKeeps(q, q)
  BY DEF QueueKeeps

\* What a message at the end of the queue does.
LEMMA Appended ==
  ASSUME NEW q \in Seq(MnsMessage), NEW msg \in MnsMessage
  PROVE  /\ Append(q, msg) \in Seq(MnsMessage)
         /\ \A m : AboutInst(msg, m) => Asked(Append(q, msg), m, msg.what)
         /\ \A m, what : ~AboutInst(msg, m) /\ Asked(q, m, what) => Asked(Append(q, msg), m, what)
         /\ \A m : ~AboutInst(msg, m) /\ Unasked(q, m) => Unasked(Append(q, msg), m)
         /\ NoAttempt(Append(q, msg)) <=> NoAttempt(q) /\ ~IsAttempt(msg)
         /\ OneAttempt(q) /\ (~IsAttempt(msg) \/ NoAttempt(q)) => OneAttempt(Append(q, msg))
         /\ \A what : Queued(Append(q, msg), what) => Queued(q, what) \/ msg.what = what
<1> DEFINE r == Append(q, msg)
           n == Len(q)
<1>1. /\ r \in Seq(MnsMessage) /\ Len(r) = n + 1 /\ n \in Nat
      /\ \A i \in 1..n : r[i] = q[i]
      /\ r[n + 1] = msg
  BY AppendProperties
<1> HIDE DEF r, n
<1>2. \A k \in 1..Len(r) : k \in 1..n \/ k = n + 1
  BY <1>1
<1>3. \A k \in 1..n : k \in 1..Len(r)
  BY <1>1
<1>4. n + 1 \in 1..Len(r) /\ \A j : j \in (n + 1 + 1)..Len(r) => FALSE
  BY <1>1
<1>5. ASSUME NEW m, AboutInst(msg, m) PROVE Asked(r, m, msg.what)
  BY <1>1, <1>4, <1>5 DEF Asked
<1>6. ASSUME NEW m, NEW what, ~AboutInst(msg, m), Asked(q, m, what) PROVE Asked(r, m, what)
  <2>1. PICK k \in 1..n : /\ q[k].what = what /\ AboutInst(q[k], m)
                          /\ \A j \in (k + 1)..n : ~AboutInst(q[j], m)
    BY <1>6 DEF Asked, n
  <2>2. ASSUME NEW j \in (k + 1)..Len(r) PROVE ~AboutInst(r[j], m)
    <3>1. CASE j \in (k + 1)..n
      <4>1. j \in 1..n
        BY <1>1, <3>1
      <4> QED
        BY <1>1, <2>1, <3>1, <4>1
    <3>2. CASE j = n + 1
      BY <1>1, <1>6, <3>2
    <3> QED
      BY <1>1, <3>1, <3>2
  <2> QED
    BY <1>1, <1>3, <2>1, <2>2 DEF Asked
<1>7. ASSUME NEW m, ~AboutInst(msg, m), Unasked(q, m) PROVE Unasked(r, m)
  BY <1>1, <1>2, <1>7 DEF Unasked, n
<1>8. NoAttempt(r) <=> NoAttempt(q) /\ ~IsAttempt(msg)
  BY <1>1, <1>2, <1>3, <1>4 DEF NoAttempt, n
<1>9. ASSUME OneAttempt(q), ~IsAttempt(msg) \/ NoAttempt(q) PROVE OneAttempt(r)
  BY <1>1, <1>2, <1>3, <1>9 DEF OneAttempt, NoAttempt, n
<1>10. \A what : Queued(r, what) => Queued(q, what) \/ msg.what = what
  BY <1>1, <1>2 DEF Queued, n
<1> QED
  BY <1>1, <1>5, <1>6, <1>7, <1>8, <1>9, <1>10 DEF r

\* What taking the first message does.
LEMMA Taken ==
  ASSUME NEW q \in Seq(MnsMessage), q # <<>>
  PROVE  /\ Tail(q) \in Seq(MnsMessage) /\ Head(q) \in MnsMessage
         /\ \A m : Unasked(q, m) => Unasked(Tail(q), m) /\ ~AboutInst(Head(q), m)
         /\ \A m, what : Asked(q, m, what) =>
              \/ Asked(Tail(q), m, what)
              \/ Unasked(Tail(q), m) /\ Head(q).what = what /\ Head(q).of = m
         /\ NoAttempt(q) => NoAttempt(Tail(q)) /\ ~IsAttempt(Head(q))
         /\ ~IsAttempt(Head(q)) /\ NoAttempt(Tail(q)) => NoAttempt(q)
         /\ OneAttempt(q) => OneAttempt(Tail(q)) /\ (IsAttempt(Head(q)) => NoAttempt(Tail(q)))
         /\ \A what : Queued(Tail(q), what) => Queued(q, what)
         /\ Queued(q, Head(q).what)
<1> DEFINE r == Tail(q)
<1>1. /\ r \in Seq(MnsMessage) /\ Len(r) = Len(q) - 1 /\ Len(q) \in Nat \ {0}
      /\ \A i \in 1..Len(r) : r[i] = q[i + 1]
      /\ Head(q) \in MnsMessage /\ Head(q) = q[1]
  BY HeadTailProperties, EmptySeq
<1> HIDE DEF r
<1>2. \A i \in 1..Len(r) : i + 1 \in 1..Len(q) /\ i + 1 # 1 /\ r[i] = q[i + 1]
  BY <1>1
<1>3. 1 \in 1..Len(q) /\ \A k \in 1..Len(q) : k = 1 \/ (k - 1 \in 1..Len(r) /\ q[k] = r[k - 1])
  BY <1>1
<1>4. ASSUME NEW m, Unasked(q, m) PROVE Unasked(r, m) /\ ~AboutInst(Head(q), m)
  BY <1>1, <1>2, <1>3, <1>4 DEF Unasked
<1>5. ASSUME NEW m, NEW what, Asked(q, m, what)
      PROVE  Asked(r, m, what) \/ (Unasked(r, m) /\ Head(q).what = what /\ Head(q).of = m)
  <2>1. PICK k \in 1..Len(q) : /\ q[k].what = what /\ AboutInst(q[k], m)
                               /\ \A j \in (k + 1)..Len(q) : ~AboutInst(q[j], m)
    BY <1>5 DEF Asked
  <2>2. ASSUME NEW i \in 1..Len(r), i >= k PROVE ~AboutInst(r[i], m)
    <3>1. i + 1 \in (k + 1)..Len(q)
      BY <1>1, <2>2
    <3> QED
      BY <1>2, <2>1, <3>1
  <2>3. CASE k = 1
    <3>1. \A i \in 1..Len(r) : i >= k
      BY <1>1, <2>3
    <3> QED
      BY <1>1, <2>1, <2>2, <2>3, <3>1 DEF Unasked, AboutInst
  <2>4. CASE k # 1
    <3>1. k - 1 \in 1..Len(r) /\ q[k] = r[k - 1]
      BY <1>3, <2>4
    <3>2. \A i \in (k - 1 + 1)..Len(r) : i \in 1..Len(r) /\ i >= k
      BY <1>1
    <3> QED
      BY <2>1, <2>2, <3>1, <3>2 DEF Asked
  <2> QED
    BY <2>3, <2>4
<1>6. NoAttempt(q) => NoAttempt(r) /\ ~IsAttempt(Head(q))
  BY <1>1, <1>2, <1>3 DEF NoAttempt
<1>7. ~IsAttempt(Head(q)) /\ NoAttempt(r) => NoAttempt(q)
  BY <1>1, <1>3 DEF NoAttempt
<1>8. ASSUME OneAttempt(q) PROVE OneAttempt(r) /\ (IsAttempt(Head(q)) => NoAttempt(r))
  <2>1. ASSUME NEW j \in 1..Len(r), NEW k \in 1..Len(r), IsAttempt(r[j]), IsAttempt(r[k])
        PROVE  j = k
    <3>1. j + 1 = k + 1
      BY <1>2, <1>8, <2>1 DEF OneAttempt
    <3> QED
      BY <1>1, <3>1
  <2>2. ASSUME IsAttempt(Head(q)), NEW k \in 1..Len(r) PROVE ~IsAttempt(r[k])
    BY <1>1, <1>2, <1>3, <1>8, <2>2 DEF OneAttempt
  <2> QED
    BY <2>1, <2>2 DEF OneAttempt, NoAttempt
<1>9. \A what : Queued(r, what) => Queued(q, what)
  BY <1>2 DEF Queued
<1>10. Queued(q, Head(q).what)
  BY <1>1, <1>3 DEF Queued
<1> QED
  BY <1>1, <1>4, <1>5, <1>6, <1>7, <1>8, <1>9, <1>10 DEF r

\* What the messages that are neither about an instance nor part of an attempt do.
MnsNeutral(msg) ==
  msg.what \in {"MNS_SEND_EVENT", "MNS_SEND_EVENT_DONE", "MNS_BLUETOOTH_OFF"}

\* A neutral message comes or goes without a trace.
LEMMA NeutralKeeps ==
  ASSUME NEW q \in Seq(MnsMessage), NEW msg \in MnsMessage,
         MnsNeutral(msg)
  PROVE  /\ msg.what # "MNS_BLUETOOTH_OFF" => QueueKeeps(q, Append(q, msg))
         /\ q # <<>> /\ Head(q) = msg => QueueKeeps(q, Tail(q))
<1>1. ~IsAttempt(msg) /\ \A m : ~AboutInst(msg, m)
  BY DEF MnsNeutral, IsAttempt, AboutInst
<1>2. ASSUME msg.what # "MNS_BLUETOOTH_OFF" PROVE QueueKeeps(q, Append(q, msg))
  <2>1. msg.what \notin {"MNS_BLUETOOTH_OFF", "RFCOMM_ERROR"}
    BY <1>2 DEF MnsNeutral
  <2> QED
    BY <1>1, <2>1, Appended DEF QueueKeeps
<1>3. ASSUME q # <<>>, Head(q) = msg PROVE QueueKeeps(q, Tail(q))
  <2>1. \A m, what : Head(q).what = what /\ Head(q).of = m =>
                       what \notin {"MNS_CONNECT", "MNS_DISCONNECT"}
    BY <1>3 DEF MnsNeutral
  <2>2. \A m, what : Asked(q, m, what) => what \in {"MNS_CONNECT", "MNS_DISCONNECT"}
    BY DEF Asked, AboutInst
  <2> QED
    BY <1>1, <1>3, <2>1, <2>2, Taken DEF QueueKeeps
<1> QED
  BY <1>2, <1>3
-----------------------------------------------------------------------------
\* Instances are numbers.
LEMMA ClientsAreNat == MnsClients \subseteq Nat
  BY MnsAssumption

\* A message is made of what and of.
LEMMA MessageIs ==
  ASSUME NEW what \in MnsWhat, NEW n \in Nat,
         what \in {"MNS_CONNECT", "MNS_DISCONNECT"} => n \in MnsClients
  PROVE  /\ MnsMsg(what, n) \in MnsMessage
         /\ MnsMsg(what, n).what = what /\ MnsMsg(what, n).of = n
  BY DEF MnsMsg, MnsMessage

LEMMA MessageHas ==
  ASSUME NEW msg \in MnsMessage
  PROVE  /\ msg.what \in MnsWhat /\ msg.of \in Nat
         /\ msg.what \in {"MNS_CONNECT", "MNS_DISCONNECT"} => msg.of \in MnsClients
  BY DEF MnsMessage

\* sendMessage.
LEMMA PostEffect ==
  ASSUME mnsQueue \in Seq(MnsMessage), NEW what \in MnsWhat, NEW n \in Nat, MnsPost(what, n),
         what \in {"MNS_CONNECT", "MNS_DISCONNECT"} => n \in MnsClients
  PROVE  /\ mnsQueue' = Append(mnsQueue, MnsMsg(what, n)) /\ mnsQueue' \in Seq(MnsMessage)
         /\ MnsMsg(what, n) \in MnsMessage
         /\ MnsMsg(what, n).what = what /\ MnsMsg(what, n).of = n
  BY MessageIs, Appended DEF MnsPost

\* handleMessage.
LEMMA TakeEffect ==
  ASSUME mnsQueue \in Seq(MnsMessage), NEW what, MnsTakes(what), MnsTaken
  PROVE  /\ mnsQueue # <<>> /\ mnsTodo = "none" /\ mnsQueue' = Tail(mnsQueue)
         /\ mnsQueue' \in Seq(MnsMessage) /\ Head(mnsQueue) \in MnsMessage
         /\ Head(mnsQueue).what = what /\ Head(mnsQueue).of = MnsArg /\ MnsArg \in Nat
         /\ what \in {"MNS_CONNECT", "MNS_DISCONNECT"} => MnsArg \in MnsClients
  BY Taken, MessageHas DEF MnsTakes, MnsTaken, MnsArg

\* A session is changed in place.
LEMMA SessionEffect ==
  ASSUME mnsSessions \in Seq(MnsObex), NEW s \in 1..Len(mnsSessions), NEW x \in MnsObex,
         mnsSessions' = [mnsSessions EXCEPT ![s] = x]
  PROVE  /\ mnsSessions' \in Seq(MnsObex) /\ Len(mnsSessions') = Len(mnsSessions)
         /\ mnsSessions'[s] = x
         /\ \A i \in 1..Len(mnsSessions) : i # s => mnsSessions'[i] = mnsSessions[i]
  BY ExceptSeq

\* A session's fields are Booleans.
LEMMA SessionHas ==
  ASSUME mnsSessions \in Seq(MnsObex), NEW s \in 1..Len(mnsSessions)
  PROVE  /\ mnsSessions[s] \in MnsObex /\ mnsSessions[s].lock \in BOOLEAN
         /\ mnsSessions[s].cs \in BOOLEAN /\ mnsSessions[s].id \in BOOLEAN
         /\ mnsSessions[s].open \in BOOLEAN
<1>1. mnsSessions[s] \in MnsObex
  BY ElementOfSeq
<1>2. \A x \in MnsObex : /\ x.lock \in BOOLEAN /\ x.cs \in BOOLEAN
                         /\ x.id \in BOOLEAN /\ x.open \in BOOLEAN
  BY DEF MnsObex
<1> QED
  BY <1>1, <1>2

\* stop().
LEMMA StopEffect ==
  ASSUME MnsTypes, NEW fields \in MnsFields, NEW amiss, MnsStop(fields, amiss)
  PROVE  /\ mns' \in MnsFields /\ mns'.session = 0
         /\ mns'.registered = fields.registered /\ mns'.waiting = fields.waiting
         /\ mnsSessions' \in Seq(MnsObex) /\ Len(mnsSessions') = Len(mnsSessions)
         /\ \A s \in 1..Len(mnsSessions) :
              /\ s # mns.session => mnsSessions'[s] = mnsSessions[s]
              /\ s = mns.session => /\ ~mnsSessions'[s].lock /\ ~mnsSessions'[s].open
                                    /\ mnsSessions'[s].id = mnsSessions[s].id
         /\ mnsPast \cup amiss \subseteq mnsPast'
         /\ (\E t \in mnsTasks : t.at = "enter" /\ t.session = mns.session) => "late" \in mnsPast'
<1>1. /\ mns' \in MnsFields /\ mns'.session = 0
      /\ mns'.registered = fields.registered /\ mns'.waiting = fields.waiting
  BY DEF MnsStop, MnsFields
<1>2. /\ mnsPast \cup amiss \subseteq mnsPast'
      /\ (\E t \in mnsTasks : t.at = "enter" /\ t.session = mns.session) => "late" \in mnsPast'
  BY DEF MnsStop
<1>3. CASE mns.session = 0
  <2>1. mnsSessions' = mnsSessions /\ \A s \in 1..Len(mnsSessions) : s # 0
    BY <1>3 DEF MnsStop, MnsTypes
  <2> QED
    BY <1>1, <1>2, <1>3, <2>1 DEF MnsTypes
<1>4. CASE mns.session # 0
  <2>1. mns.session \in 1..Len(mnsSessions) /\ mnsSessions \in Seq(MnsObex)
    BY <1>4 DEF MnsTypes
  <2>2. PICK fails \in BOOLEAN : mnsSessions' = MnsDisconnected(mns.session, fails)
    BY <1>4 DEF MnsStop
  <2> DEFINE x == [mnsSessions[mns.session] EXCEPT
                     !.cs = fails /\ mnsSessions[mns.session].cs, !.open = FALSE, !.lock = FALSE]
  <2>3. x \in MnsObex /\ ~x.lock /\ ~x.open /\ x.id = mnsSessions[mns.session].id
    BY <2>1, SessionHas DEF MnsObex
  <2>4. mnsSessions' = [mnsSessions EXCEPT ![mns.session] = x]
    BY <2>2 DEF MnsDisconnected
  <2> HIDE DEF x
  <2>5. /\ mnsSessions' \in Seq(MnsObex) /\ Len(mnsSessions') = Len(mnsSessions)
        /\ mnsSessions'[mns.session] = x
        /\ \A i \in 1..Len(mnsSessions) : i # mns.session => mnsSessions'[i] = mnsSessions[i]
    BY <2>1, <2>3, <2>4, SessionEffect
  <2> QED
    BY <1>1, <1>2, <2>3, <2>5
<1> QED
  BY <1>3, <1>4

\* A thread starts.
LEMMA ThreadAdded ==
  ASSUME MnsTypes, NEW n \in Nat, NEW label \in MnsEndingAt,
         mnsEnding' = mnsEnding \cup {[of |-> n, at |-> label, nr |-> Cardinality(mnsEnding)]}
  PROVE  /\ mnsEnding' \subseteq MnsThread /\ IsFiniteSet(mnsEnding')
         /\ \A t \in mnsEnding' : t \in mnsEnding \/ (t.of = n /\ t.at = label)
         /\ \E t \in mnsEnding' : t.of = n /\ t.at = label
<1>1. Cardinality(mnsEnding) \in Nat
  BY FS_CardinalityType DEF MnsTypes
<1>2. IsFiniteSet(mnsEnding')
  BY FS_AddElement DEF MnsTypes
<1> DEFINE v == [of |-> n, at |-> label, nr |-> Cardinality(mnsEnding)]
<1>3. v \in MnsThread /\ v.of = n /\ v.at = label
  BY <1>1 DEF MnsThread
<1>4. mnsEnding' = mnsEnding \cup {v}
  OBVIOUS
<1> HIDE DEF v
<1> QED
  BY <1>2, <1>3, <1>4 DEF MnsTypes

\* A thread goes on, or ends.
LEMMA ThreadGone ==
  ASSUME MnsTypes, NEW t \in mnsEnding, NEW label \in MnsEndingAt,
         MnsThreadGoes(t, label) \/ MnsThreadEnds(t)
  PROVE  /\ mnsEnding' \subseteq MnsThread /\ IsFiniteSet(mnsEnding')
         /\ \A u \in mnsEnding' : u \in mnsEnding \/ (u.of = t.of /\ u.at = label)
         /\ \A u \in mnsEnding : u # t => u \in mnsEnding'
         /\ MnsThreadGoes(t, label) => \E u \in mnsEnding' : u.of = t.of /\ u.at = label
<1>1. IsFiniteSet(mnsEnding \ {t})
  BY FS_RemoveElement DEF MnsTypes
<1>2. IsFiniteSet(mnsEnding')
  <2>1. IsFiniteSet((mnsEnding \ {t}) \cup {[t EXCEPT !.at = label]})
    BY <1>1, FS_AddElement
  <2> QED
    BY <1>1, <2>1 DEF MnsThreadGoes, MnsThreadEnds
<1>3. t \in MnsThread
  BY DEF MnsTypes
<1> DEFINE v == [t EXCEPT !.at = label]
<1>4. v \in MnsThread /\ v.of = t.of /\ v.at = label
  BY <1>3 DEF MnsThread
<1>5. mnsEnding' = (mnsEnding \ {t}) \cup {v} \/ mnsEnding' = mnsEnding \ {t}
  BY DEF MnsThreadGoes, MnsThreadEnds
<1>6. MnsThreadGoes(t, label) => v \in mnsEnding'
  BY DEF MnsThreadGoes
<1> HIDE DEF v
<1> QED
  BY <1>2, <1>4, <1>5, <1>6 DEF MnsTypes

\* A send task goes on, or ends.
LEMMA TaskGone ==
  ASSUME MnsTypes, NEW t \in mnsTasks, NEW label \in MnsSendAt, NEW s \in 0..Len(mnsSessions),
         MnsTaskAt(t, label, s) \/ mnsTasks' = mnsTasks \ {t}
  PROVE  /\ mnsTasks' \subseteq MnsTaskSet
         /\ \A u \in mnsTasks' : u \in mnsTasks \/ (u.at = label /\ u.session = s)
         /\ \A u \in mnsTasks : u # t => u \in mnsTasks'
         /\ MnsTaskAt(t, label, s) => \E u \in mnsTasks' : u.at = label /\ u.session = s
<1>1. t \in MnsTaskSet /\ s \in Nat
  BY DEF MnsTypes
<1> DEFINE v == [t EXCEPT !.at = label, !.session = s]
<1>2. v \in MnsTaskSet /\ v.at = label /\ v.session = s
  BY <1>1 DEF MnsTaskSet
<1>3. mnsTasks' = (mnsTasks \ {t}) \cup {v} \/ mnsTasks' = mnsTasks \ {t}
  BY DEF MnsTaskAt
<1>4. MnsTaskAt(t, label, s) => v \in mnsTasks'
  BY DEF MnsTaskAt
<1> HIDE DEF v
<1> QED
  BY <1>2, <1>3, <1>4 DEF MnsTypes

\* A new SendEventTask.
LEMMA TaskIs ==
  ASSUME NEW e \in Nat
  PROVE  MnsTask(e) \in MnsTaskSet /\ MnsTask(e).at = "timeout" /\ MnsTask(e).session = 0
<1>1. ASSUME NEW x \in MnsSendAt, NEW n \in Nat
      PROVE  [event |-> e, at |-> x, session |-> n] \in MnsTaskSet
  BY DEF MnsTaskSet
<1>4. "timeout" \in MnsSendAt /\ 0 \in Nat
  BY DEF MnsSendAt
<1>2. MnsTask(e).at = "timeout"
  BY DEF MnsTask
<1>3. MnsTask(e).session = 0
  BY DEF MnsTask
<1> QED
  BY <1>1, <1>2, <1>3, <1>4 DEF MnsTask
-----------------------------------------------------------------------------
(***************************************************************************)
(* Types.                                                                  *)
(***************************************************************************)
LEMMA FieldsHas ==
  ASSUME NEW f \in MnsFields
  PROVE  /\ f.registered \subseteq MnsClients /\ f.waiting \subseteq MnsClients
         /\ f.session \in Nat /\ f.sending \in BOOLEAN /\ f.events \in Seq(Nat)
  BY DEF MnsFields

\* The types, from those of what a step assigns.
LEMMA TypesFrame ==
  ASSUME MnsTypes,
         mns' \in MnsFields, mns'.session \in 0..Len(mnsSessions'),
         mnsQueue' \in Seq(MnsMessage), mnsSessions' \in Seq(MnsObex),
         Len(mnsSessions') >= Len(mnsSessions),
         mnsEnding' \subseteq MnsThread, IsFiniteSet(mnsEnding'), mnsTasks' \subseteq MnsTaskSet,
         \A t \in mnsTasks' : t \in mnsTasks \/ (/\ t.session \in 0..Len(mnsSessions)
                                                 /\ t.at \in {"enter", "put"} => t.session # 0),
         mnsTodo' \in {"none", "connect", "register"}, mnsTodo' = "connect" => mnsSessions' # <<>>,
         mnsConnecting' \in BOOLEAN, mnsLate' \in BOOLEAN,
         mnsWanted' \subseteq MnsClients, mnsLeft' \in [requests : Nat, events : Nat]
  PROVE  MnsTypes'
<1>1. ASSUME NEW t \in mnsTasks'
      PROVE  t.session \in 0..Len(mnsSessions') /\ (t.at \in {"enter", "put"} => t.session # 0)
  <2>1. t.session \in 0..Len(mnsSessions) /\ (t.at \in {"enter", "put"} => t.session # 0)
    BY DEF MnsTypes
  <2>2. Len(mnsSessions) \in Nat /\ Len(mnsSessions') \in Nat
    BY DEF MnsTypes
  <2> QED
    BY <2>1, <2>2
<1> QED
  BY <1>1 DEF MnsTypes

\* What every state of the sessions and the threads gives to a step that leaves them alone.
LEMMA TypesHave ==
  ASSUME MnsTypes
  PROVE  /\ mns \in MnsFields /\ mns.session \in 0..Len(mnsSessions)
         /\ mnsQueue \in Seq(MnsMessage) /\ mnsSessions \in Seq(MnsObex)
         /\ Len(mnsSessions) \in Nat /\ Len(mnsSessions) >= Len(mnsSessions)
         /\ mnsEnding \subseteq MnsThread /\ IsFiniteSet(mnsEnding)
         /\ mnsTasks \subseteq MnsTaskSet
         /\ mnsTodo \in {"none", "connect", "register"} /\ (mnsTodo = "connect" => mnsSessions # <<>>)
         /\ mnsConnecting \in BOOLEAN /\ mnsLate \in BOOLEAN
         /\ mnsWanted \subseteq MnsClients /\ mnsLeft \in [requests : Nat, events : Nat]
  BY DEF MnsTypes

\* acquireMnsLock and releaseMnsLock.
LEMMA LockEffect ==
  ASSUME MnsTypes, NEW s \in 1..Len(mnsSessions), NEW b \in BOOLEAN,
         mnsSessions' = [mnsSessions EXCEPT ![s] = [@ EXCEPT !.lock = b]]
  PROVE  /\ mnsSessions' \in Seq(MnsObex) /\ Len(mnsSessions') = Len(mnsSessions)
         /\ mnsSessions'[s].lock = b /\ mnsSessions'[s].cs = mnsSessions[s].cs
         /\ mnsSessions'[s].id = mnsSessions[s].id /\ mnsSessions'[s].open = mnsSessions[s].open
         /\ \A i \in 1..Len(mnsSessions) : i # s => mnsSessions'[i] = mnsSessions[i]
<1> DEFINE y == mnsSessions[s]
           x == [y EXCEPT !.lock = b]
<1>1. y \in MnsObex
  BY SessionHas, TypesHave
<1>2. mnsSessions' = [mnsSessions EXCEPT ![s] = x]
  OBVIOUS
<1> HIDE DEF y
<1>3. x \in MnsObex /\ x.lock = b /\ x.cs = y.cs /\ x.id = y.id /\ x.open = y.open
  BY <1>1 DEF MnsObex
<1> HIDE DEF x
<1>4. /\ mnsSessions' \in Seq(MnsObex) /\ Len(mnsSessions') = Len(mnsSessions)
      /\ mnsSessions'[s] = x
      /\ \A i \in 1..Len(mnsSessions) : i # s => mnsSessions'[i] = mnsSessions[i]
  BY <1>2, <1>3, SessionEffect, TypesHave
<1> QED
  BY <1>3, <1>4 DEF y
-----------------------------------------------------------------------------
(***************************************************************************)
(* What each action does, in the terms of the invariants below.            *)
(***************************************************************************)
LEMMA RequestEffect ==
  ASSUME MnsTypes, NEW m \in MnsClients, NEW what \in {"MNS_CONNECT", "MNS_DISCONNECT"},
         MnsRequest, MnsPost(what, m), mnsWanted' \subseteq MnsClients
  PROVE  /\ MnsTypes' /\ "off" \notin mnsPast
         /\ MnsMsg(what, m) \in MnsMessage /\ mnsQueue' = Append(mnsQueue, MnsMsg(what, m))
         /\ MnsMsg(what, m).what = what /\ MnsMsg(what, m).of = m
<1>1. what \in MnsWhat /\ m \in Nat
  BY ClientsAreNat DEF MnsWhat
<1>2. mnsLeft' \in [requests : Nat, events : Nat]
  <2>1. mnsLeft.requests - 1 \in Nat
    BY DEF MnsRequest, MnsTypes
  <2> QED
    BY <2>1 DEF MnsRequest, MnsTypes
<1>3. /\ mnsQueue' = Append(mnsQueue, MnsMsg(what, m)) /\ mnsQueue' \in Seq(MnsMessage)
      /\ MnsMsg(what, m) \in MnsMessage
      /\ MnsMsg(what, m).what = what /\ MnsMsg(what, m).of = m
  BY <1>1, PostEffect, TypesHave
<1>4. /\ mns' = mns /\ mnsLate' = mnsLate /\ mnsTodo' = mnsTodo /\ mnsConnecting' = mnsConnecting
      /\ mnsEnding' = mnsEnding /\ mnsTasks' = mnsTasks /\ mnsSessions' = mnsSessions
      /\ "off" \notin mnsPast
  BY DEF MnsRequest
<1>5. MnsTypes'
  BY <1>2, <1>3, <1>4, TypesHave, TypesFrame
<1> QED
  BY <1>3, <1>4, <1>5

\* The messages that closeService leads to, one after the other.
LEMMA CloseEffect ==
  ASSUME MnsTypes, MnsClose
  PROVE  /\ MnsTypes'
         /\ \E q1, q2 \in Seq(MnsMessage) :
              /\ q1 = Append(mnsQueue, MnsMsg("MNS_BLUETOOTH_OFF", 0))
              /\ q2 = IF 0 \in mnsWanted THEN Append(q1, MnsMsg("MNS_DISCONNECT", 0)) ELSE q1
              /\ mnsQueue' = IF 1 \in mnsWanted THEN Append(q2, MnsMsg("MNS_DISCONNECT", 1)) ELSE q2
<1> DEFINE ends(m) == IF m \in mnsWanted THEN <<MnsMsg("MNS_DISCONNECT", m)>> ELSE <<>>
           q1 == Append(mnsQueue, MnsMsg("MNS_BLUETOOTH_OFF", 0))
           q2 == IF 0 \in mnsWanted THEN Append(q1, MnsMsg("MNS_DISCONNECT", 0)) ELSE q1
           q3 == IF 1 \in mnsWanted THEN Append(q2, MnsMsg("MNS_DISCONNECT", 1)) ELSE q2
<1>1. q1 \in Seq(MnsMessage)
  <2>1. MnsMsg("MNS_BLUETOOTH_OFF", 0) \in MnsMessage
    <3>1. /\ "MNS_BLUETOOTH_OFF" \in MnsWhat
          /\ "MNS_BLUETOOTH_OFF" \notin {"MNS_CONNECT", "MNS_DISCONNECT"}
      BY DEF MnsWhat
    <3> QED
      BY <3>1, MessageIs
  <2> QED
    BY <2>1, Appended, TypesHave
<1>2. ASSUME NEW m \in mnsWanted PROVE MnsMsg("MNS_DISCONNECT", m) \in MnsMessage
  <2>1. "MNS_DISCONNECT" \in MnsWhat /\ m \in MnsClients /\ m \in Nat
    BY ClientsAreNat DEF MnsWhat, MnsTypes
  <2> QED
    BY <2>1, MessageIs
<1>3. ASSUME NEW q \in Seq(MnsMessage), NEW m
      PROVE  /\ q \o ends(m) = IF m \in mnsWanted THEN Append(q, MnsMsg("MNS_DISCONNECT", m)) ELSE q
             /\ q \o ends(m) \in Seq(MnsMessage)
  <2>1. CASE m \in mnsWanted
    <3>1. ends(m) = <<MnsMsg("MNS_DISCONNECT", m)>> /\ MnsMsg("MNS_DISCONNECT", m) \in MnsMessage
      BY <2>1, <1>2
    <3>2. q \o <<MnsMsg("MNS_DISCONNECT", m)>> = Append(q, MnsMsg("MNS_DISCONNECT", m))
      BY <3>1, AppendIsConcat
    <3>3. Append(q, MnsMsg("MNS_DISCONNECT", m)) \in Seq(MnsMessage)
      BY <3>1, Appended
    <3> HIDE DEF ends
    <3> QED
      BY <2>1, <3>1, <3>2, <3>3
  <2>2. CASE m \notin mnsWanted
    <3>1. ends(m) = <<>> /\ q \o <<>> = q
      BY <2>2, ConcatEmptySeq
    <3> HIDE DEF ends
    <3> QED
      BY <2>2, <3>1
  <2> QED
    BY <2>1, <2>2
<1>4. mnsQueue' = q1 \o ends(0) \o ends(1)
  BY DEF MnsClose
<1> HIDE DEF q1, ends
<1>5. q2 = q1 \o ends(0) /\ q2 \in Seq(MnsMessage)
  BY <1>1, <1>3
<1> HIDE DEF q2
<1>6. q3 = q2 \o ends(1) /\ q3 \in Seq(MnsMessage)
  BY <1>3, <1>5
<1>7. mnsQueue' = q3
  BY <1>4, <1>5, <1>6
<1>8. MnsTypes'
  <2>1. /\ mns' = mns /\ mnsLate' = mnsLate /\ mnsTodo' = mnsTodo /\ mnsConnecting' = mnsConnecting
        /\ mnsEnding' = mnsEnding /\ mnsTasks' = mnsTasks /\ mnsSessions' = mnsSessions
        /\ mnsLeft' = mnsLeft /\ mnsWanted' = {}
    BY DEF MnsClose
  <2> HIDE DEF q3
  <2> QED
    BY <1>6, <1>7, <2>1, TypesHave, TypesFrame
<1> QED
  BY <1>1, <1>5, <1>7, <1>8 DEF q1, q2

\* sendMnsEvent.
LEMMA EventEffect ==
  ASSUME MnsTypes, MnsEvent
  PROVE  MnsTypes' /\ QueueKeeps(mnsQueue, mnsQueue')
<1>1. "MNS_SEND_EVENT" \in MnsWhat /\ "MNS_SEND_EVENT" \notin {"MNS_CONNECT", "MNS_DISCONNECT"}
  BY DEF MnsWhat
<1>2. mnsLeft.events \in Nat /\ mnsLeft.events > 0
  BY DEF MnsEvent, MnsTypes
<1>3. mnsLeft' \in [requests : Nat, events : Nat]
  <2>1. mnsLeft.events - 1 \in Nat
    BY <1>2
  <2> QED
    BY <2>1 DEF MnsEvent, MnsTypes
<1> DEFINE msg == MnsMsg("MNS_SEND_EVENT", mnsLeft.events)
<1>4. /\ mnsQueue' = Append(mnsQueue, msg) /\ mnsQueue' \in Seq(MnsMessage)
      /\ msg \in MnsMessage /\ msg.what = "MNS_SEND_EVENT"
  BY <1>1, <1>2, PostEffect, TypesHave DEF MnsEvent
<1>5. /\ mns' = mns /\ mnsLate' = mnsLate /\ mnsTodo' = mnsTodo /\ mnsConnecting' = mnsConnecting
      /\ mnsEnding' = mnsEnding /\ mnsTasks' = mnsTasks /\ mnsSessions' = mnsSessions
      /\ mnsWanted' = mnsWanted
  BY DEF MnsEvent
<1> HIDE DEF msg
<1>6. MnsNeutral(msg) /\ msg.what # "MNS_BLUETOOTH_OFF"
  BY <1>4 DEF MnsNeutral
<1>7. QueueKeeps(mnsQueue, mnsQueue')
  BY <1>4, <1>6, NeutralKeeps, TypesHave
<1>8. MnsTypes'
  BY <1>3, <1>4, <1>5, TypesHave, TypesFrame
<1> QED
  BY <1>7, <1>8

\* MNS_CONNECT leaves the queue, and may post MNS_DISCONNECT of the same instance.
LEMMA ConnectQueue ==
  ASSUME MnsTypes, MnsConnect
  PROVE  /\ mnsQueue' \in Seq(MnsMessage) /\ MnsArg \in MnsClients /\ mnsTodo = "none"
         /\ \A m : Asked(mnsQueue, m, "MNS_CONNECT") =>
              \/ Asked(mnsQueue', m, "MNS_CONNECT")
              \/ m = MnsArg /\ Unasked(mnsQueue', m)
              \/ m = MnsArg /\ Asked(mnsQueue', m, "MNS_DISCONNECT") /\ m \in mns'.registered
         /\ \A m : Asked(mnsQueue, m, "MNS_DISCONNECT") => Asked(mnsQueue', m, "MNS_DISCONNECT")
         /\ \A m : Unasked(mnsQueue, m) => Unasked(mnsQueue', m) /\ m # MnsArg
         /\ NoAttempt(mnsQueue') <=> NoAttempt(mnsQueue)
         /\ OneAttempt(mnsQueue) => OneAttempt(mnsQueue')
         /\ \A what : what # "MNS_DISCONNECT" /\ Queued(mnsQueue', what) => Queued(mnsQueue, what)
<1> DEFINE q == Tail(mnsQueue)
           msg == MnsMsg("MNS_DISCONNECT", MnsArg)
<1>1. MnsTakes("MNS_CONNECT") /\ mnsQueue \in Seq(MnsMessage)
  BY TypesHave DEF MnsConnect
<1>2. /\ mnsQueue # <<>> /\ mnsTodo = "none" /\ Head(mnsQueue).what = "MNS_CONNECT"
      /\ Head(mnsQueue).of = MnsArg
  BY <1>1 DEF MnsTakes, MnsArg
<1>3. /\ q \in Seq(MnsMessage) /\ Head(mnsQueue) \in MnsMessage
      /\ MnsArg \in MnsClients
  BY <1>1, <1>2, Taken, MessageHas
<1>4. ~IsAttempt(Head(mnsQueue)) /\ AboutInst(Head(mnsQueue), MnsArg)
  BY <1>2 DEF IsAttempt, AboutInst
<1>5. /\ \A m : Asked(mnsQueue, m, "MNS_CONNECT") =>
              Asked(q, m, "MNS_CONNECT") \/ (Unasked(q, m) /\ m = MnsArg)
      /\ \A m : Asked(mnsQueue, m, "MNS_DISCONNECT") => Asked(q, m, "MNS_DISCONNECT")
      /\ \A m : Unasked(mnsQueue, m) => Unasked(q, m) /\ m # MnsArg
      /\ NoAttempt(q) <=> NoAttempt(mnsQueue)
      /\ OneAttempt(mnsQueue) => OneAttempt(q)
      /\ \A what : Queued(q, what) => Queued(mnsQueue, what)
  BY <1>1, <1>2, <1>4, Taken
<1>6. CASE mnsQueue' = q
  <2> HIDE DEF q
  <2> QED
    BY <1>2, <1>3, <1>5, <1>6
<1>7. CASE mnsQueue' = Append(q, msg) /\ mns' = [mns EXCEPT !.registered = @ \cup {MnsArg}]
  <2>1. msg \in MnsMessage /\ msg.what = "MNS_DISCONNECT" /\ msg.of = MnsArg
    <3>1. "MNS_DISCONNECT" \in MnsWhat /\ MnsArg \in Nat
      BY <1>3, ClientsAreNat DEF MnsWhat
    <3> QED
      BY <1>3, <3>1, MessageIs
  <2> HIDE DEF msg, q
  <2>2. ~IsAttempt(msg) /\ \A x : AboutInst(msg, x) <=> x = MnsArg
    BY <2>1 DEF IsAttempt, AboutInst
  <2>3. /\ mnsQueue' \in Seq(MnsMessage)
        /\ Asked(mnsQueue', MnsArg, "MNS_DISCONNECT")
        /\ \A m, what : m # MnsArg /\ Asked(q, m, what) => Asked(mnsQueue', m, what)
        /\ \A m : m # MnsArg /\ Unasked(q, m) => Unasked(mnsQueue', m)
        /\ NoAttempt(mnsQueue') <=> NoAttempt(q)
        /\ OneAttempt(q) => OneAttempt(mnsQueue')
        /\ \A what : Queued(mnsQueue', what) => Queued(q, what) \/ msg.what = what
    BY <1>3, <1>7, <2>1, <2>2, Appended
  <2>4. MnsArg \in mns'.registered
    BY <1>7, TypesHave DEF MnsFields
  <2> QED
    BY <1>2, <1>3, <1>5, <2>1, <2>3, <2>4
<1> QED
  BY <1>6, <1>7 DEF MnsConnect, MnsTaken

\* MNS_CONNECT registers the instance or lets it wait.
LEMMA ConnectEffect ==
  ASSUME MnsTypes, MnsConnect
  PROVE  /\ MnsTypes' /\ mns'.session = mns.session /\ MnsArg \in MnsClients
         /\ \/ /\ mns.session # 0 /\ mnsConnecting' = mnsConnecting
               /\ mns'.registered = mns.registered \cup {MnsArg} /\ mns'.waiting = mns.waiting
               /\ mnsPast' = mnsPast \cup MnsRace
            \/ /\ mnsConnecting' = (mnsConnecting \/ mns.waiting = {})
               /\ mns'.registered = mns.registered /\ mns'.waiting = mns.waiting \cup {MnsArg}
               /\ mnsPast' = mnsPast
<1>1. /\ MnsArg \in MnsClients /\ mnsQueue' \in Seq(MnsMessage)
  BY ConnectQueue
<1>2. /\ mns \in MnsFields /\ mns.registered \subseteq MnsClients /\ mns.waiting \subseteq MnsClients
      /\ mns.registered \cup {MnsArg} \in SUBSET MnsClients
      /\ mns.waiting \cup {MnsArg} \in SUBSET MnsClients
  BY <1>1, TypesHave, FieldsHas
<1>3. /\ mnsLate' = mnsLate /\ mnsTodo' = mnsTodo /\ mnsEnding' = mnsEnding /\ mnsTasks' = mnsTasks
      /\ mnsSessions' = mnsSessions /\ mnsWanted' = mnsWanted /\ mnsLeft' = mnsLeft
  BY DEF MnsConnect
<1>4. CASE mns.session # 0 /\ mnsSessions[mns.session].connected
  <2>1. /\ mns' = [mns EXCEPT !.registered = mns.registered \cup {MnsArg}]
        /\ mnsPast' = mnsPast \cup MnsRace /\ mnsConnecting' = mnsConnecting
    BY <1>4 DEF MnsConnect
  <2>2. /\ mns' \in MnsFields /\ mns'.session = mns.session
        /\ mns'.registered = mns.registered \cup {MnsArg} /\ mns'.waiting = mns.waiting
    BY <1>2, <2>1 DEF MnsFields
  <2>3. MnsTypes'
    BY <1>1, <1>3, <2>1, <2>2, TypesHave, TypesFrame
  <2> QED
    BY <1>1, <1>4, <2>1, <2>2, <2>3
<1>5. CASE ~(mns.session # 0 /\ mnsSessions[mns.session].connected)
  <2>1. /\ mns' = [mns EXCEPT !.waiting = mns.waiting \cup {MnsArg}]
        /\ mnsPast' = mnsPast /\ mnsConnecting' = (mnsConnecting \/ mns.waiting = {})
    BY <1>5 DEF MnsConnect
  <2>2. /\ mns' \in MnsFields /\ mns'.session = mns.session
        /\ mns'.registered = mns.registered /\ mns'.waiting = mns.waiting \cup {MnsArg}
    BY <1>2, <2>1 DEF MnsFields
  <2>3. MnsTypes'
    <3>1. mnsConnecting' \in BOOLEAN
      BY <2>1, TypesHave
    <3> QED
      BY <1>1, <1>3, <2>2, <3>1, TypesHave, TypesFrame
  <2> QED
    BY <1>1, <2>1, <2>2, <2>3
<1> QED
  BY <1>4, <1>5

\* The two messages that start a thread.
LEMMA BegunEffect ==
  ASSUME MnsTypes, NEW what \in {"MNS_DISCONNECT", "MNS_BLUETOOTH_OFF"},
         MnsTakes(what), MnsTaken, NEW n \in Nat, NEW label \in MnsEndingAt,
         mnsEnding' = mnsEnding \cup {[of |-> n, at |-> label, nr |-> Cardinality(mnsEnding)]},
         UNCHANGED <<mns, mnsLate, mnsTodo, mnsConnecting, mnsTasks, mnsSessions, mnsWanted,
                     mnsLeft, mnsPast>>
  PROVE  /\ MnsTypes'
         /\ \A t \in mnsEnding' : t \in mnsEnding \/ (t.of = n /\ t.at = label)
         /\ \E t \in mnsEnding' : t.of = n /\ t.at = label
         /\ mnsEnding \subseteq mnsEnding'
<1>1. mnsQueue' \in Seq(MnsMessage)
  BY TakeEffect, TypesHave
<1>2. /\ mnsEnding' \subseteq MnsThread /\ IsFiniteSet(mnsEnding')
      /\ \A t \in mnsEnding' : t \in mnsEnding \/ (t.of = n /\ t.at = label)
      /\ \E t \in mnsEnding' : t.of = n /\ t.at = label
  BY ThreadAdded
<1>3. /\ mns' = mns /\ mnsLate' = mnsLate /\ mnsTodo' = mnsTodo /\ mnsConnecting' = mnsConnecting
      /\ mnsTasks' = mnsTasks /\ mnsSessions' = mnsSessions
      /\ mnsWanted' = mnsWanted /\ mnsLeft' = mnsLeft
  OBVIOUS
<1>4. MnsTypes'
  BY <1>1, <1>2, <1>3, TypesHave, TypesFrame
<1> QED
  BY <1>2, <1>4

\* RFCOMM_ERROR drops every instance and stops the session.
LEMMA RfcommErrorEffect ==
  ASSUME MnsTypes, MnsRfcommError
  PROVE  /\ MnsTypes' /\ mns'.session = 0 /\ mns'.registered = {} /\ mns'.waiting = {}
         /\ \A s \in 1..Len(mnsSessions) :
              /\ s # mns.session => mnsSessions'[s] = mnsSessions[s]
              /\ s = mns.session => /\ ~mnsSessions'[s].lock /\ ~mnsSessions'[s].open
                                    /\ mnsSessions'[s].id = mnsSessions[s].id
         /\ Len(mnsSessions') = Len(mnsSessions) /\ mnsPast \subseteq mnsPast'
         /\ (\E t \in mnsTasks : t.at = "enter" /\ t.session = mns.session) => "late" \in mnsPast'
<1> DEFINE f == [mns EXCEPT !.registered = {}, !.waiting = {}]
<1>1. f \in MnsFields /\ f.registered = {} /\ f.waiting = {}
  <2>1. {} \in SUBSET MnsClients /\ mns \in MnsFields
    BY TypesHave
  <2> QED
    BY <2>1 DEF MnsFields
<1>2. MnsStop(f, {})
  BY DEF MnsRfcommError
<1>3. mnsQueue' \in Seq(MnsMessage)
  BY TakeEffect, TypesHave DEF MnsRfcommError
<1>4. /\ mnsLate' = mnsLate /\ mnsTodo' = mnsTodo /\ mnsConnecting' = mnsConnecting
      /\ mnsEnding' = mnsEnding /\ mnsTasks' = mnsTasks
      /\ mnsWanted' = mnsWanted /\ mnsLeft' = mnsLeft
  BY DEF MnsRfcommError
<1> HIDE DEF f
<1>5. /\ mns' \in MnsFields /\ mns'.session = 0 /\ mns'.registered = {} /\ mns'.waiting = {}
      /\ mnsSessions' \in Seq(MnsObex) /\ Len(mnsSessions') = Len(mnsSessions)
      /\ \A s \in 1..Len(mnsSessions) :
           /\ s # mns.session => mnsSessions'[s] = mnsSessions[s]
           /\ s = mns.session => /\ ~mnsSessions'[s].lock /\ ~mnsSessions'[s].open
                                 /\ mnsSessions'[s].id = mnsSessions[s].id
      /\ mnsPast \cup {} \subseteq mnsPast'
      /\ (\E t \in mnsTasks : t.at = "enter" /\ t.session = mns.session) => "late" \in mnsPast'
  BY <1>1, <1>2, StopEffect
<1>6. MnsTypes'
  <2>1. mnsTodo = "none"
    BY DEF MnsRfcommError, MnsTakes
  <2>2. mns'.session \in 0..Len(mnsSessions') /\ Len(mnsSessions') >= Len(mnsSessions)
    BY <1>5, TypesHave
  <2>3. mnsTodo' \in {"none", "connect", "register"} /\ (mnsTodo' = "connect" => mnsSessions' # <<>>)
    BY <1>4, <2>1
  <2> QED
    BY <1>3, <1>4, <1>5, <2>2, <2>3, TypesHave, TypesFrame
<1> QED
  BY <1>5, <1>6

\* MNS_SEND_TIMEOUT deregisters every instance and stops the session.
LEMMA SendTimeoutEffect ==
  ASSUME MnsTypes, MnsSendTimeout
  PROVE  /\ MnsTypes' /\ mns'.session = 0 /\ mns'.registered = {} /\ mns'.waiting = mns.waiting
         /\ \A s \in 1..Len(mnsSessions) :
              /\ s # mns.session => mnsSessions'[s] = mnsSessions[s]
              /\ s = mns.session => /\ ~mnsSessions'[s].lock /\ ~mnsSessions'[s].open
                                    /\ mnsSessions'[s].id = mnsSessions[s].id
         /\ Len(mnsSessions') = Len(mnsSessions) /\ mnsPast \subseteq mnsPast'
         /\ (\E t \in mnsTasks : t.at = "enter" /\ t.session = mns.session) => "late" \in mnsPast'
         /\ "timeout" \in mnsPast'
<1> DEFINE f == [mns EXCEPT !.registered = {}]
<1>1. f \in MnsFields /\ f.registered = {} /\ f.waiting = mns.waiting
  <2>1. {} \in SUBSET MnsClients /\ mns \in MnsFields
    BY TypesHave
  <2> QED
    BY <2>1 DEF MnsFields
<1>2. MnsStop(f, {"timeout"})
  BY DEF MnsSendTimeout
<1>4. /\ mnsQueue' = mnsQueue /\ mnsTodo' = mnsTodo /\ mnsConnecting' = mnsConnecting
      /\ mnsEnding' = mnsEnding /\ mnsTasks' = mnsTasks
      /\ mnsWanted' = mnsWanted /\ mnsLeft' = mnsLeft /\ mnsLate' \in BOOLEAN /\ mnsTodo = "none"
  BY DEF MnsSendTimeout
<1> HIDE DEF f
<1>5. /\ mns' \in MnsFields /\ mns'.session = 0 /\ mns'.registered = {} /\ mns'.waiting = mns.waiting
      /\ mnsSessions' \in Seq(MnsObex) /\ Len(mnsSessions') = Len(mnsSessions)
      /\ \A s \in 1..Len(mnsSessions) :
           /\ s # mns.session => mnsSessions'[s] = mnsSessions[s]
           /\ s = mns.session => /\ ~mnsSessions'[s].lock /\ ~mnsSessions'[s].open
                                 /\ mnsSessions'[s].id = mnsSessions[s].id
      /\ mnsPast \cup {"timeout"} \subseteq mnsPast'
      /\ (\E t \in mnsTasks : t.at = "enter" /\ t.session = mns.session) => "late" \in mnsPast'
  BY <1>1, <1>2, StopEffect
<1>6. MnsTypes'
  <2>2. mns'.session \in 0..Len(mnsSessions') /\ Len(mnsSessions') >= Len(mnsSessions)
    BY <1>5, TypesHave
  <2>3. mnsTodo' \in {"none", "connect", "register"} /\ (mnsTodo' = "connect" => mnsSessions' # <<>>)
    BY <1>4
  <2> QED
    BY <1>4, <1>5, <2>2, <2>3, TypesHave, TypesFrame
<1> QED
  BY <1>5, <1>6

\* RFCOMM_CONNECTED makes a session.
LEMMA RfcommConnectedEffect ==
  ASSUME MnsTypes, MnsRfcommConnected
  PROVE  /\ MnsTypes' /\ mns'.session = Len(mnsSessions) + 1
         /\ mns'.registered = mns.registered /\ mns'.waiting = mns.waiting
         /\ Len(mnsSessions') = Len(mnsSessions) + 1
         /\ \A s \in 1..Len(mnsSessions) : mnsSessions'[s] = mnsSessions[s]
         /\ mnsSessions'[Len(mnsSessions) + 1].cs
         /\ mnsPast \subseteq mnsPast' /\ (mns.session # 0 => "replaced" \in mnsPast')
<1> DEFINE x == [cs |-> TRUE, open |-> TRUE, connected |-> FALSE, id |-> FALSE, lock |-> TRUE]
           n == Len(mnsSessions)
<1>1. x \in MnsObex /\ x.cs
  BY DEF MnsObex
<1>2. mnsSessions' = Append(mnsSessions, x) /\ mns' = [mns EXCEPT !.session = n + 1]
  BY DEF MnsRfcommConnected
<1>3. mnsQueue' \in Seq(MnsMessage)
  BY TakeEffect, TypesHave DEF MnsRfcommConnected
<1>4. /\ mnsLate' = mnsLate /\ mnsConnecting' = mnsConnecting
      /\ mnsEnding' = mnsEnding /\ mnsTasks' = mnsTasks
      /\ mnsWanted' = mnsWanted /\ mnsLeft' = mnsLeft /\ mnsTodo' = "connect"
      /\ mnsPast \subseteq mnsPast' /\ (mns.session # 0 => "replaced" \in mnsPast')
  BY DEF MnsRfcommConnected
<1> HIDE DEF x
<1>5. /\ mnsSessions' \in Seq(MnsObex) /\ mnsSessions' # <<>> /\ Len(mnsSessions') = n + 1
      /\ \A s \in 1..n : mnsSessions'[s] = mnsSessions[s]
      /\ mnsSessions'[n + 1] = x
  BY <1>1, <1>2, AppendProperties, TypesHave
<1>6. n \in Nat /\ mns \in MnsFields
  BY TypesHave
<1> HIDE DEF n
<1>7. /\ mns' \in MnsFields /\ mns'.session = n + 1
      /\ mns'.registered = mns.registered /\ mns'.waiting = mns.waiting
  <2> DEFINE k == n + 1
  <2>1. k \in Nat /\ mns' = [mns EXCEPT !.session = k] /\ mns \in MnsFields
    BY <1>2, <1>6
  <2> HIDE DEF k
  <2>2. /\ mns' \in MnsFields /\ mns'.session = k
        /\ mns'.registered = mns.registered /\ mns'.waiting = mns.waiting
    BY <2>1 DEF MnsFields
  <2> QED
    BY <2>2 DEF k
<1>8. mns'.session \in 0..Len(mnsSessions') /\ Len(mnsSessions') >= n
  BY <1>5, <1>6, <1>7
<1>9. MnsTypes'
  BY <1>3, <1>4, <1>5, <1>7, <1>8, TypesHave, TypesFrame DEF n
<1> QED
  BY <1>1, <1>4, <1>5, <1>7, <1>9 DEF n

\* connect() ends, with or without an id.
LEMMA ObexConnectEffect ==
  ASSUME MnsTypes, NEW accepted \in BOOLEAN, MnsObexConnect(accepted)
  PROVE  /\ MnsTypes' /\ Len(mnsSessions') = Len(mnsSessions) /\ Len(mnsSessions) > 0
         /\ \A s \in 1..Len(mnsSessions) : s # Len(mnsSessions) => mnsSessions'[s] = mnsSessions[s]
         /\ mnsSessions'[Len(mnsSessions)].cs = mnsSessions[Len(mnsSessions)].cs
         /\ mnsSessions'[Len(mnsSessions)].open = mnsSessions[Len(mnsSessions)].open
         /\ ~mnsSessions'[Len(mnsSessions)].lock
         /\ mnsPast \subseteq mnsPast'
         /\ ~mnsSessions'[Len(mnsSessions)].id => "refused" \in mnsPast'
<1> DEFINE n == Len(mnsSessions)
           ok == accepted /\ mnsSessions[n].open
           y == mnsSessions[n]
           x == [y EXCEPT !.connected = ok, !.id = ok, !.lock = FALSE]
<1>1. n \in Nat /\ n > 0 /\ n \in 1..n
  BY EmptySeq, TypesHave DEF MnsObexConnect
<1>2. y \in MnsObex /\ ok \in BOOLEAN
  BY <1>1, SessionHas, TypesHave
<1>3. mnsSessions' = [mnsSessions EXCEPT ![n] = x]
  BY DEF MnsObexConnect
<1>4. /\ mns' = mns /\ mnsQueue' = mnsQueue /\ mnsLate' = mnsLate /\ mnsConnecting' = mnsConnecting
      /\ mnsEnding' = mnsEnding /\ mnsTasks' = mnsTasks
      /\ mnsWanted' = mnsWanted /\ mnsLeft' = mnsLeft /\ mnsTodo' = "register"
      /\ mnsPast \subseteq mnsPast' /\ (~ok => "refused" \in mnsPast')
  BY DEF MnsObexConnect
<1> HIDE DEF ok, y
<1>5. x \in MnsObex /\ x.cs = y.cs /\ x.open = y.open /\ ~x.lock /\ x.id = ok
  BY <1>2 DEF MnsObex
<1> HIDE DEF x
<1>6. /\ mnsSessions' \in Seq(MnsObex) /\ Len(mnsSessions') = n /\ mnsSessions'[n] = x
      /\ \A i \in 1..n : i # n => mnsSessions'[i] = mnsSessions[i]
  BY <1>1, <1>3, <1>5, SessionEffect, TypesHave
<1>7. MnsTypes'
  <2>1. mns'.session \in 0..Len(mnsSessions') /\ Len(mnsSessions') >= n
    BY <1>1, <1>4, <1>6, TypesHave
  <2>2. mnsTodo' \in {"none", "connect", "register"} /\ mnsTodo' # "connect"
    BY <1>4
  <2> HIDE DEF n
  <2> QED
    BY <1>4, <1>6, <2>1, <2>2, TypesHave, TypesFrame DEF n
<1> QED
  BY <1>1, <1>4, <1>5, <1>6, <1>7 DEF y

\* The exception ends the attempt with its last message.
LEMMA ConnectThrowsEffect ==
  ASSUME MnsTypes, MnsConnectThrows
  PROVE  /\ MnsTypes'
         /\ \E msg \in MnsMessage :
              mnsQueue' = Append(mnsQueue, msg) /\ IsAttempt(msg) /\ msg.what = "RFCOMM_ERROR"
<1> DEFINE msg == MnsMsg("RFCOMM_ERROR", 0)
<1>1. /\ "RFCOMM_ERROR" \in MnsWhat /\ "RFCOMM_ERROR" \notin {"MNS_CONNECT", "MNS_DISCONNECT"}
  BY DEF MnsWhat
<1>2. /\ MnsPost("RFCOMM_ERROR", 0) /\ mns' = mns /\ mnsLate' = mnsLate
      /\ mnsConnecting' = mnsConnecting /\ mnsEnding' = mnsEnding /\ mnsTasks' = mnsTasks
      /\ mnsSessions' = mnsSessions /\ mnsWanted' = mnsWanted /\ mnsLeft' = mnsLeft
      /\ mnsTodo' = "none"
  BY DEF MnsConnectThrows
<1>3. /\ mnsQueue' = Append(mnsQueue, msg) /\ mnsQueue' \in Seq(MnsMessage)
      /\ msg \in MnsMessage /\ msg.what = "RFCOMM_ERROR"
  BY <1>1, <1>2, PostEffect, TypesHave
<1> HIDE DEF msg
<1>4. MnsTypes'
  BY <1>2, <1>3, TypesHave, TypesFrame
<1> QED
  BY <1>3, <1>4 DEF IsAttempt

\* What waits is registered.
LEMMA RegisterWaitingEffect ==
  ASSUME MnsTypes, MnsRegisterWaiting
  PROVE  /\ MnsTypes' /\ mns'.session = mns.session /\ mns'.waiting = {}
         /\ mns'.registered = mns.registered \cup mns.waiting
<1>1. mns \in MnsFields /\ mns.registered \cup mns.waiting \subseteq MnsClients
  BY FieldsHas, TypesHave
<1>2. mns' = [mns EXCEPT !.registered = mns.registered \cup mns.waiting, !.waiting = {}]
  BY DEF MnsRegisterWaiting
<1>3. /\ mns' \in MnsFields /\ mns'.session = mns.session /\ mns'.waiting = {}
      /\ mns'.registered = mns.registered \cup mns.waiting
  BY <1>1, <1>2 DEF MnsFields
<1>4. /\ mnsQueue' = mnsQueue /\ mnsLate' = mnsLate /\ mnsConnecting' = mnsConnecting
      /\ mnsEnding' = mnsEnding /\ mnsTasks' = mnsTasks /\ mnsSessions' = mnsSessions
      /\ mnsWanted' = mnsWanted /\ mnsLeft' = mnsLeft /\ mnsTodo' = "none"
  BY DEF MnsRegisterWaiting
<1>5. MnsTypes'
  BY <1>3, <1>4, TypesHave, TypesFrame
<1> QED
  BY <1>3, <1>5

\* SocketConnectThread reports once.
LEMMA SocketConnectEffect ==
  ASSUME MnsTypes, NEW ok \in BOOLEAN, MnsSocketConnect(ok)
  PROVE  /\ MnsTypes' /\ mnsConnecting /\ ~mnsConnecting'
         /\ \E msg \in MnsMessage :
              /\ mnsQueue' = Append(mnsQueue, msg) /\ IsAttempt(msg)
              /\ msg.what = "RFCOMM_ERROR" => "unreachable" \in mnsPast'
         /\ mnsPast \subseteq mnsPast'
<1> DEFINE what == IF ok THEN "RFCOMM_CONNECTED" ELSE "RFCOMM_ERROR"
           msg == MnsMsg(what, 0)
<1>1. /\ what \in MnsWhat /\ what \notin {"MNS_CONNECT", "MNS_DISCONNECT"}
      /\ what \in {"RFCOMM_CONNECTED", "RFCOMM_ERROR"}
  BY DEF MnsWhat
<1>2. MnsPost(what, 0)
  BY DEF MnsSocketConnect
<1>3. /\ mnsPast \subseteq mnsPast'
      /\ what = "RFCOMM_ERROR" => "unreachable" \in mnsPast'
  BY DEF MnsSocketConnect
<1>4. /\ mns' = mns /\ mnsLate' = mnsLate /\ mnsTodo' = mnsTodo
      /\ mnsEnding' = mnsEnding /\ mnsTasks' = mnsTasks /\ mnsSessions' = mnsSessions
      /\ mnsWanted' = mnsWanted /\ mnsLeft' = mnsLeft /\ mnsConnecting /\ mnsConnecting' = FALSE
  BY DEF MnsSocketConnect
<1> HIDE DEF what
<1>5. /\ mnsQueue' = Append(mnsQueue, msg) /\ mnsQueue' \in Seq(MnsMessage) /\ msg \in MnsMessage
      /\ msg.what = what
  BY <1>1, <1>2, PostEffect, TypesHave
<1> HIDE DEF msg
<1>6. MnsTypes'
  BY <1>4, <1>5, TypesHave, TypesFrame
<1> QED
  BY <1>1, <1>3, <1>4, <1>5, <1>6 DEF IsAttempt

\* The messages about events.
LEMMA SendEventEffect ==
  ASSUME MnsTypes, MnsSendEvent \/ MnsSendEventDone
  PROVE  /\ MnsTypes' /\ QueueKeeps(mnsQueue, mnsQueue') /\ mnsTasks \subseteq mnsTasks'
         /\ mns'.registered = mns.registered /\ mns'.waiting = mns.waiting
         /\ mns'.session = mns.session
         /\ \A t \in mnsTasks' : t \in mnsTasks \/ t.at = "timeout"
<1>1. /\ mnsLate' = mnsLate /\ mnsTodo' = mnsTodo /\ mnsConnecting' = mnsConnecting
      /\ mnsEnding' = mnsEnding /\ mnsSessions' = mnsSessions
      /\ mnsWanted' = mnsWanted /\ mnsLeft' = mnsLeft
  BY DEF MnsSendEvent, MnsSendEventDone
<1>2. PICK what \in {"MNS_SEND_EVENT", "MNS_SEND_EVENT_DONE"} : MnsTakes(what) /\ MnsTaken
  BY DEF MnsSendEvent, MnsSendEventDone
<1>3. /\ mnsQueue # <<>> /\ mnsQueue' = Tail(mnsQueue) /\ MnsArg \in Nat
      /\ mnsQueue' \in Seq(MnsMessage) /\ Head(mnsQueue) \in MnsMessage
      /\ Head(mnsQueue).what = what
  BY <1>2, TakeEffect, TypesHave
<1>4. QueueKeeps(mnsQueue, mnsQueue')
  <2>1. MnsNeutral(Head(mnsQueue))
    BY <1>3 DEF MnsNeutral
  <2> QED
    BY <1>3, <2>1, NeutralKeeps, TypesHave
<1>5. mns \in MnsFields /\ mns.events \in Seq(Nat)
  BY TypesHave, FieldsHas
<1>6. \/ mns' = [mns EXCEPT !.events = Append(mns.events, MnsArg)]
      \/ \E b \in BOOLEAN : mns' = [mns EXCEPT !.sending = b]
      \/ mns.events # <<>> /\ mns' = [mns EXCEPT !.events = Tail(mns.events)]
  BY DEF MnsSendEvent, MnsSendEventDone
<1>7. /\ Append(mns.events, MnsArg) \in Seq(Nat)
      /\ mns.events # <<>> => Tail(mns.events) \in Seq(Nat) /\ Head(mns.events) \in Nat
  BY <1>3, <1>5, AppendProperties, HeadTailProperties
<1>8. /\ mns' \in MnsFields /\ mns'.registered = mns.registered /\ mns'.waiting = mns.waiting
      /\ mns'.session = mns.session
  BY <1>5, <1>6, <1>7 DEF MnsFields
<1>9. mnsTasks' = mnsTasks \/ \E e \in Nat : mnsTasks' = mnsTasks \cup {MnsTask(e)}
  BY <1>3, <1>7 DEF MnsSendEvent, MnsSendEventDone
<1>10. /\ mnsTasks' \subseteq MnsTaskSet /\ mnsTasks \subseteq mnsTasks'
       /\ \A t \in mnsTasks' : t \in mnsTasks \/ (t.at = "timeout" /\ t.session = 0)
  BY <1>9, TaskIs, TypesHave
<1>11. MnsTypes'
  <2>1. 0 \in 0..Len(mnsSessions) /\ "timeout" \notin {"enter", "put"}
    BY TypesHave
  <2> QED
    BY <1>1, <1>3, <1>8, <1>10, <2>1, TypesHave, TypesFrame
<1> QED
  BY <1>4, <1>8, <1>10, <1>11

\* The first step of MNS_DISCONNECT's thread.
LEMMA DeregisterEffect ==
  ASSUME MnsTypes, NEW t \in mnsEnding, MnsEndingThread(t), MnsDeregister(t)
  PROVE  /\ MnsTypes' /\ mns'.session = mns.session /\ mns'.waiting = mns.waiting
         /\ mns'.registered = mns.registered \ {t.of}
         /\ \A u \in mnsEnding' : u \in mnsEnding \/ u.at = "check"
         /\ \A u \in mnsEnding : u # t => u \in mnsEnding'
         /\ \E u \in mnsEnding' : u.at = "check"
         /\ mnsPast \subseteq mnsPast'
         /\ t.of \in mns.registered \cap mnsWanted => "undone" \in mnsPast'
<1>1. MnsThreadGoes(t, "check") /\ "check" \in MnsEndingAt
  BY DEF MnsDeregister, MnsEndingAt
<1>2. /\ mnsEnding' \subseteq MnsThread /\ IsFiniteSet(mnsEnding')
      /\ \A u \in mnsEnding' : u \in mnsEnding \/ (u.of = t.of /\ u.at = "check")
      /\ \A u \in mnsEnding : u # t => u \in mnsEnding'
      /\ \E u \in mnsEnding' : u.of = t.of /\ u.at = "check"
  BY <1>1, ThreadGone
<1>3. mns \in MnsFields /\ mns.registered \ {t.of} \subseteq MnsClients
  BY TypesHave, FieldsHas
<1>4. mns' = [mns EXCEPT !.registered = mns.registered \ {t.of}]
  BY DEF MnsDeregister
<1>5. /\ mns' \in MnsFields /\ mns'.session = mns.session /\ mns'.waiting = mns.waiting
      /\ mns'.registered = mns.registered \ {t.of}
  BY <1>3, <1>4 DEF MnsFields
<1>6. /\ mnsQueue' = mnsQueue /\ mnsLate' = mnsLate /\ mnsConnecting' = mnsConnecting
      /\ mnsTodo' = mnsTodo /\ mnsTasks' = mnsTasks /\ mnsSessions' = mnsSessions
      /\ mnsWanted' = mnsWanted /\ mnsLeft' = mnsLeft
  BY DEF MnsEndingThread, MnsDeregister
<1>7. MnsTypes'
  BY <1>2, <1>5, <1>6, TypesHave, TypesFrame
<1>8. /\ mnsPast \subseteq mnsPast'
      /\ t.of \in mns.registered \cap mnsWanted => "undone" \in mnsPast'
  BY DEF MnsDeregister
<1> QED
  BY <1>2, <1>5, <1>7, <1>8

\* canDisconnect.
LEMMA CheckEffect ==
  ASSUME MnsTypes, NEW t \in mnsEnding, MnsEndingThread(t), MnsCheck(t)
  PROVE  /\ MnsTypes'
         /\ \A u \in mnsEnding' : \/ u \in mnsEnding
                                  \/ u.at \in {"stop", "offstop"} /\ mns.registered = {}
                                  \/ u.at = "cleanup"
         /\ \A u \in mnsEnding : u # t => u \in mnsEnding'
         /\ mns.registered = {} => \E u \in mnsEnding' : u.at \in {"stop", "offstop"}
         /\ (\E u \in mnsEnding' : u \notin mnsEnding /\ u.at \in {"offstop", "cleanup"}) =>
              t.at = "off"
<1>1. PICK label \in {"stop", "offstop", "cleanup"} :
        /\ \/ MnsThreadGoes(t, label) /\ (label # "cleanup" => mns.registered = {})
                                      /\ (label # "stop" => t.at = "off")
           \/ MnsThreadEnds(t)
        /\ mns.registered = {} => MnsThreadGoes(t, label) /\ label # "cleanup"
  <2>1. CASE mns.registered = {}
    <3>1. CASE t.at = "check"
      BY <2>1, <3>1 DEF MnsCheck, canDisconnect
    <3>2. CASE t.at = "off"
      BY <2>1, <3>2 DEF MnsCheck, canDisconnect
    <3> QED
      BY <3>1, <3>2 DEF MnsCheck
  <2>2. CASE mns.registered # {}
    BY <2>2 DEF MnsCheck, canDisconnect
  <2> QED
    BY <2>1, <2>2
<1>2. label \in MnsEndingAt
  BY DEF MnsEndingAt
<1>3. /\ mnsEnding' \subseteq MnsThread /\ IsFiniteSet(mnsEnding')
      /\ \A u \in mnsEnding' : u \in mnsEnding \/ (u.of = t.of /\ u.at = label)
      /\ \A u \in mnsEnding : u # t => u \in mnsEnding'
      /\ MnsThreadGoes(t, label) => \E u \in mnsEnding' : u.of = t.of /\ u.at = label
  BY <1>1, <1>2, ThreadGone
<1>4. /\ mns' = mns /\ mnsQueue' = mnsQueue /\ mnsLate' = mnsLate /\ mnsConnecting' = mnsConnecting
      /\ mnsTodo' = mnsTodo /\ mnsTasks' = mnsTasks /\ mnsSessions' = mnsSessions
      /\ mnsWanted' = mnsWanted /\ mnsLeft' = mnsLeft
  BY DEF MnsEndingThread, MnsCheck
<1>5. MnsTypes'
  BY <1>3, <1>4, TypesHave, TypesFrame
<1>6. MnsThreadEnds(t) => \A u \in mnsEnding' : u \in mnsEnding
  BY DEF MnsThreadEnds
<1> QED
  BY <1>1, <1>3, <1>5, <1>6

\* stop() by a thread.
LEMMA ThreadStopEffect ==
  ASSUME MnsTypes, NEW t \in mnsEnding, MnsEndingThread(t), MnsThreadStop(t)
  PROVE  /\ MnsTypes' /\ mns'.session = 0
         /\ mns'.registered = mns.registered /\ mns'.waiting = mns.waiting
         /\ \A s \in 1..Len(mnsSessions) :
              /\ s # mns.session => mnsSessions'[s] = mnsSessions[s]
              /\ s = mns.session => /\ ~mnsSessions'[s].lock /\ ~mnsSessions'[s].open
                                    /\ mnsSessions'[s].id = mnsSessions[s].id
         /\ Len(mnsSessions') = Len(mnsSessions) /\ mnsPast \subseteq mnsPast'
         /\ (\E u \in mnsTasks : u.at = "enter" /\ u.session = mns.session) => "late" \in mnsPast'
         /\ mnsTodo # "none" => "raced" \in mnsPast'
         /\ \A u \in mnsEnding' : u \in mnsEnding \/ (u.at = "cleanup" /\ t.at = "offstop")
         /\ \A u \in mnsEnding : u # t => u \in mnsEnding'
<1>1. "cleanup" \in MnsEndingAt
  BY DEF MnsEndingAt
<1>2. /\ mnsEnding' \subseteq MnsThread /\ IsFiniteSet(mnsEnding')
      /\ \A u \in mnsEnding' : u \in mnsEnding \/ (u.of = t.of /\ u.at = "cleanup")
      /\ \A u \in mnsEnding : u # t => u \in mnsEnding'
  BY <1>1, ThreadGone DEF MnsThreadStop
<1>3. t.at # "offstop" => \A u \in mnsEnding' : u \in mnsEnding
  BY DEF MnsThreadStop, MnsThreadEnds
<1> DEFINE amiss == IF mnsTodo = "none" THEN {} ELSE {"raced"}
<1>4. MnsStop(mns, amiss) /\ mns \in MnsFields
  BY TypesHave DEF MnsThreadStop
<1>5. mnsTodo # "none" => "raced" \in amiss
  OBVIOUS
<1> HIDE DEF amiss
<1>6. /\ mns' \in MnsFields /\ mns'.session = 0
      /\ mns'.registered = mns.registered /\ mns'.waiting = mns.waiting
      /\ mnsSessions' \in Seq(MnsObex) /\ Len(mnsSessions') = Len(mnsSessions)
      /\ \A s \in 1..Len(mnsSessions) :
           /\ s # mns.session => mnsSessions'[s] = mnsSessions[s]
           /\ s = mns.session => /\ ~mnsSessions'[s].lock /\ ~mnsSessions'[s].open
                                 /\ mnsSessions'[s].id = mnsSessions[s].id
      /\ mnsPast \cup amiss \subseteq mnsPast'
      /\ (\E u \in mnsTasks : u.at = "enter" /\ u.session = mns.session) => "late" \in mnsPast'
  BY <1>4, StopEffect
<1>7. /\ mnsQueue' = mnsQueue /\ mnsLate' = mnsLate /\ mnsConnecting' = mnsConnecting
      /\ mnsTodo' = mnsTodo /\ mnsTasks' = mnsTasks
      /\ mnsWanted' = mnsWanted /\ mnsLeft' = mnsLeft
  BY DEF MnsEndingThread
<1>8. /\ mns'.session \in 0..Len(mnsSessions') /\ Len(mnsSessions') >= Len(mnsSessions)
      /\ mnsTodo' = "connect" => mnsSessions' # <<>>
  <2>1. mnsSessions' = <<>> => Len(mnsSessions') = 0
    OBVIOUS
  <2>2. mnsSessions # <<>> => Len(mnsSessions) # 0
    BY EmptySeq, TypesHave
  <2> QED
    BY <1>6, <1>7, <2>1, <2>2, TypesHave
<1>9. MnsTypes'
  BY <1>2, <1>6, <1>7, <1>8, TypesHave, TypesFrame
<1> QED
  BY <1>2, <1>3, <1>5, <1>6, <1>9

\* mnsCleanupInstances.
LEMMA CleanupEffect ==
  ASSUME MnsTypes, NEW t \in mnsEnding, MnsEndingThread(t), MnsCleanup(t)
  PROVE  /\ MnsTypes' /\ mns'.session = mns.session /\ mns'.waiting = mns.waiting
         /\ mns'.registered = {} /\ mnsPast' = mnsPast
         /\ \A s \in 1..Len(mnsSessions) :
              /\ s # mns.session => mnsSessions'[s] = mnsSessions[s]
              /\ s = mns.session => /\ ~mnsSessions'[s].lock
                                    /\ mnsSessions'[s].cs = mnsSessions[s].cs
                                    /\ mnsSessions'[s].open = mnsSessions[s].open
                                    /\ mnsSessions'[s].id = mnsSessions[s].id
         /\ Len(mnsSessions') = Len(mnsSessions) /\ mnsEnding' = mnsEnding \ {t}
<1>1. mnsEnding' = mnsEnding \ {t} /\ mnsPast' = mnsPast /\ mns' = [mns EXCEPT !.registered = {}]
  BY DEF MnsCleanup, MnsThreadEnds
<1>2. mnsEnding' \subseteq MnsThread /\ IsFiniteSet(mnsEnding')
  BY <1>1, FS_RemoveElement, TypesHave
<1>3. mns \in MnsFields
  BY TypesHave
<1>4. /\ mns' \in MnsFields /\ mns'.session = mns.session /\ mns'.waiting = mns.waiting
      /\ mns'.registered = {}
  BY <1>1, <1>3 DEF MnsFields
<1>5. /\ mnsQueue' = mnsQueue /\ mnsLate' = mnsLate /\ mnsConnecting' = mnsConnecting
      /\ mnsTodo' = mnsTodo /\ mnsTasks' = mnsTasks
      /\ mnsWanted' = mnsWanted /\ mnsLeft' = mnsLeft
  BY DEF MnsEndingThread
<1>6. /\ mnsSessions' \in Seq(MnsObex) /\ Len(mnsSessions') = Len(mnsSessions)
      /\ \A s \in 1..Len(mnsSessions) :
           /\ s # mns.session => mnsSessions'[s] = mnsSessions[s]
           /\ s = mns.session => /\ ~mnsSessions'[s].lock
                                 /\ mnsSessions'[s].cs = mnsSessions[s].cs
                                 /\ mnsSessions'[s].open = mnsSessions[s].open
                                 /\ mnsSessions'[s].id = mnsSessions[s].id
  <2>1. CASE mns.session = 0
    <3>1. mnsSessions' = mnsSessions /\ \A s \in 1..Len(mnsSessions) : s # mns.session
      BY <2>1 DEF MnsCleanup
    <3> QED
      BY <3>1, TypesHave
  <2>2. CASE mns.session # 0
    <3>1. mnsSessions' = [mnsSessions EXCEPT ![mns.session] = [@ EXCEPT !.lock = FALSE]]
      BY <2>2 DEF MnsCleanup
    <3>2. mns.session \in 1..Len(mnsSessions)
      BY <2>2, TypesHave
    <3> QED
      BY <3>1, <3>2, LockEffect
  <2> QED
    BY <2>1, <2>2
<1>7. /\ mns'.session \in 0..Len(mnsSessions') /\ Len(mnsSessions') >= Len(mnsSessions)
      /\ mnsTodo' = "connect" => mnsSessions' # <<>>
  <2>1. mnsSessions' = <<>> => Len(mnsSessions') = 0
    OBVIOUS
  <2>2. mnsSessions # <<>> => Len(mnsSessions) # 0
    BY EmptySeq, TypesHave
  <2> QED
    BY <1>4, <1>5, <1>6, <2>1, <2>2, TypesHave
<1>8. MnsTypes'
  BY <1>2, <1>4, <1>5, <1>6, <1>7, TypesHave, TypesFrame
<1> QED
  BY <1>1, <1>4, <1>6, <1>8

\* What the steps of a SendEventTask have in common.
LEMMA SendTaskEffect ==
  ASSUME MnsTypes, NEW t \in mnsTasks, MnsSendTask(t),
         NEW label \in MnsSendAt, NEW s \in 0..Len(mnsSessions),
         MnsTaskAt(t, label, s) \/ mnsTasks' = mnsTasks \ {t},
         label \in {"enter", "put"} => s # 0,
         mnsSessions' \in Seq(MnsObex), Len(mnsSessions') = Len(mnsSessions),
         mnsQueue' \in Seq(MnsMessage), mnsLate' \in BOOLEAN
  PROVE  /\ MnsTypes'
         /\ \A u \in mnsTasks' : u \in mnsTasks \/ (u.at = label /\ u.session = s)
         /\ \A u \in mnsTasks : u # t => u \in mnsTasks'
         /\ MnsTaskAt(t, label, s) => \E u \in mnsTasks' : u.at = label /\ u.session = s
<1>1. /\ mnsTasks' \subseteq MnsTaskSet
      /\ \A u \in mnsTasks' : u \in mnsTasks \/ (u.at = label /\ u.session = s)
      /\ \A u \in mnsTasks : u # t => u \in mnsTasks'
      /\ MnsTaskAt(t, label, s) => \E u \in mnsTasks' : u.at = label /\ u.session = s
  BY TaskGone
<1>2. /\ mns' = mns /\ mnsTodo' = mnsTodo /\ mnsConnecting' = mnsConnecting
      /\ mnsEnding' = mnsEnding /\ mnsWanted' = mnsWanted /\ mnsLeft' = mnsLeft
  BY DEF MnsSendTask
<1>3. /\ mns'.session \in 0..Len(mnsSessions') /\ Len(mnsSessions') >= Len(mnsSessions)
      /\ mnsTodo' = "connect" => mnsSessions' # <<>>
  <2>1. mnsSessions' = <<>> => Len(mnsSessions') = 0
    OBVIOUS
  <2>2. mnsSessions # <<>> => Len(mnsSessions) # 0
    BY EmptySeq, TypesHave
  <2> QED
    BY <1>2, <2>1, <2>2, TypesHave
<1>4. MnsTypes'
  BY <1>1, <1>2, <1>3, TypesHave, TypesFrame
<1> QED
  BY <1>1, <1>4

\* setTimeout.
LEMMA SetTimeoutEffect ==
  ASSUME MnsTypes, NEW t \in mnsTasks, MnsSendTask(t), MnsSetTimeout(t)
  PROVE  /\ MnsTypes' /\ mnsQueue' = mnsQueue /\ mnsSessions' = mnsSessions
         /\ \A u \in mnsTasks' : u \in mnsTasks \/ u.at = "read"
         /\ \A u \in mnsTasks : u # t => u \in mnsTasks'
<1>1. /\ MnsTaskAt(t, "read", 0) /\ mnsLate' \in BOOLEAN
      /\ mnsQueue' = mnsQueue /\ mnsSessions' = mnsSessions
  BY DEF MnsSetTimeout
<1>2. "read" \in MnsSendAt /\ "read" \notin {"enter", "put"} /\ 0 \in 0..Len(mnsSessions)
  BY TypesHave DEF MnsSendAt
<1> QED
  BY <1>1, <1>2, SendTaskEffect, TypesHave

\* mSession is read.
LEMMA ReadSessionEffect ==
  ASSUME MnsTypes, NEW t \in mnsTasks, MnsSendTask(t), MnsReadSession(t)
  PROVE  /\ MnsTypes' /\ mnsQueue' = mnsQueue /\ mnsSessions' = mnsSessions
         /\ \A u \in mnsTasks' : \/ u \in mnsTasks \/ u.at = "finish"
                                 \/ u.at = "enter" /\ u.session = mns.session /\ mns.session # 0
         /\ \A u \in mnsTasks : u # t => u \in mnsTasks'
<1> DEFINE label == IF mns.session = 0 THEN "finish" ELSE "enter"
<1>1. /\ MnsTaskAt(t, label, mns.session) /\ mnsLate' \in BOOLEAN /\ mnsQueue' = mnsQueue
      /\ mnsSessions' = mnsSessions
  BY TypesHave DEF MnsReadSession
<1>2. /\ label \in MnsSendAt /\ (label \in {"enter", "put"} => mns.session # 0)
      /\ label = "finish" \/ label = "enter"
  BY DEF MnsSendAt
<1> HIDE DEF label
<1>3. /\ MnsTypes'
      /\ \A u \in mnsTasks' : u \in mnsTasks \/ (u.at = label /\ u.session = mns.session)
      /\ \A u \in mnsTasks : u # t => u \in mnsTasks'
  BY <1>1, <1>2, SendTaskEffect, TypesHave
<1> QED
  BY <1>1, <1>2, <1>3

\* acquireMnsLock.
LEMMA EnterEffect ==
  ASSUME MnsTypes, NEW t \in mnsTasks, MnsSendTask(t), MnsEnter(t)
  PROVE  /\ MnsTypes' /\ mnsQueue' = mnsQueue /\ t.session \in 1..Len(mnsSessions)
         /\ Len(mnsSessions') = Len(mnsSessions)
         /\ mnsSessions'[t.session].cs = mnsSessions[t.session].cs
         /\ mnsSessions'[t.session].open = mnsSessions[t.session].open
         /\ mnsSessions'[t.session].id = mnsSessions[t.session].id
         /\ \A i \in 1..Len(mnsSessions) : i # t.session => mnsSessions'[i] = mnsSessions[i]
         /\ \A u \in mnsTasks' : u \in mnsTasks \/ u.at \in {"finish", "put"}
         /\ \A u \in mnsTasks : u # t => u \in mnsTasks'
         /\ mnsSessions[t.session].id => \E u \in mnsTasks' : u.at = "put" /\ u.session = t.session
<1> DEFINE label == IF mnsSessions[t.session].id THEN "put" ELSE "finish"
<1>1. /\ MnsTaskAt(t, label, t.session) /\ mnsLate' = mnsLate /\ mnsQueue' = mnsQueue
      /\ mnsSessions' = [mnsSessions EXCEPT ![t.session] = [@ EXCEPT !.lock = TRUE]]
      /\ t.at = "enter"
  BY DEF MnsEnter
<1>2. t.session \in 1..Len(mnsSessions) /\ t.session # 0
  BY <1>1 DEF MnsTypes
<1>3. /\ label \in MnsSendAt /\ (label = "put" \/ label = "finish")
      /\ (mnsSessions[t.session].id => label = "put")
  BY DEF MnsSendAt
<1> HIDE DEF label
<1>4. /\ mnsSessions' \in Seq(MnsObex) /\ Len(mnsSessions') = Len(mnsSessions)
      /\ mnsSessions'[t.session].cs = mnsSessions[t.session].cs
      /\ mnsSessions'[t.session].id = mnsSessions[t.session].id
      /\ mnsSessions'[t.session].open = mnsSessions[t.session].open
      /\ \A i \in 1..Len(mnsSessions) : i # t.session => mnsSessions'[i] = mnsSessions[i]
  BY <1>1, <1>2, LockEffect
<1>5. t.session \in 0..Len(mnsSessions)
  BY <1>2
<1>6. /\ MnsTypes'
      /\ \A u \in mnsTasks' : u \in mnsTasks \/ (u.at = label /\ u.session = t.session)
      /\ \A u \in mnsTasks : u # t => u \in mnsTasks'
      /\ \E u \in mnsTasks' : u.at = label /\ u.session = t.session
  <2>1. /\ mnsSessions' \in Seq(MnsObex) /\ Len(mnsSessions') = Len(mnsSessions)
        /\ mnsQueue' \in Seq(MnsMessage) /\ mnsLate' \in BOOLEAN
        /\ MnsTaskAt(t, label, t.session)
    BY <1>1, <1>4, TypesHave
  <2> QED
    BY <1>2, <1>3, <1>5, <2>1, SendTaskEffect
<1> QED
  BY <1>1, <1>2, <1>3, <1>4, <1>6

\* The exchange, and releaseMnsLock.
LEMMA PutEffect ==
  ASSUME MnsTypes, NEW t \in mnsTasks, MnsSendTask(t), MnsPut(t)
  PROVE  /\ MnsTypes' /\ mnsQueue' = mnsQueue /\ t.session \in 1..Len(mnsSessions)
         /\ Len(mnsSessions') = Len(mnsSessions)
         /\ mnsSessions'[t.session].cs = mnsSessions[t.session].cs
         /\ mnsSessions'[t.session].open = mnsSessions[t.session].open
         /\ mnsSessions'[t.session].id = mnsSessions[t.session].id
         /\ mnsSessions'[t.session].lock =>
              mnsSessions[t.session].lock /\ ~mnsSessions[t.session].cs
         /\ \A i \in 1..Len(mnsSessions) : i # t.session => mnsSessions'[i] = mnsSessions[i]
         /\ \A u \in mnsTasks' : u \in mnsTasks \/ u.at = "finish"
         /\ \A u \in mnsTasks : u # t => u \in mnsTasks'
<1> DEFINE b == mnsSessions[t.session].lock /\ ~mnsSessions[t.session].cs
<1>1. /\ MnsTaskAt(t, "finish", t.session) /\ mnsLate' = mnsLate /\ mnsQueue' = mnsQueue
      /\ mnsSessions' = [mnsSessions EXCEPT ![t.session] = [@ EXCEPT !.lock = b]]
      /\ t.at = "put"
  BY DEF MnsPut
<1>2. t.session \in 1..Len(mnsSessions) /\ t.session # 0
  BY <1>1 DEF MnsTypes
<1>3. "finish" \in MnsSendAt /\ "finish" \notin {"enter", "put"}
  BY DEF MnsSendAt
<1>4. b \in BOOLEAN
  BY <1>2, SessionHas, TypesHave
<1> HIDE DEF b
<1>5. /\ mnsSessions' \in Seq(MnsObex) /\ Len(mnsSessions') = Len(mnsSessions)
      /\ mnsSessions'[t.session].lock = b
      /\ mnsSessions'[t.session].cs = mnsSessions[t.session].cs
      /\ mnsSessions'[t.session].id = mnsSessions[t.session].id
      /\ mnsSessions'[t.session].open = mnsSessions[t.session].open
      /\ \A i \in 1..Len(mnsSessions) : i # t.session => mnsSessions'[i] = mnsSessions[i]
  BY <1>1, <1>2, <1>4, LockEffect
<1>6. t.session \in 0..Len(mnsSessions)
  BY <1>2
<1>7. /\ MnsTypes'
      /\ \A u \in mnsTasks' : u \in mnsTasks \/ (u.at = "finish" /\ u.session = t.session)
      /\ \A u \in mnsTasks : u # t => u \in mnsTasks'
  BY <1>1, <1>3, <1>5, <1>6, SendTaskEffect, TypesHave
<1> QED
  BY <1>1, <1>2, <1>5, <1>7 DEF b

\* removeTimeout.
LEMMA FinishEffect ==
  ASSUME MnsTypes, NEW t \in mnsTasks, MnsSendTask(t), MnsFinish(t)
  PROVE  /\ MnsTypes' /\ QueueKeeps(mnsQueue, mnsQueue') /\ mnsSessions' = mnsSessions
         /\ mnsTasks' = mnsTasks \ {t}
<1>1. mnsTasks' = mnsTasks \ {t} /\ mnsSessions' = mnsSessions
  BY DEF MnsFinish
<1>2. /\ "finish" \in MnsSendAt /\ "finish" \notin {"enter", "put"} /\ 0 \in 0..Len(mnsSessions)
      /\ "MNS_SEND_EVENT_DONE" \in MnsWhat
      /\ "MNS_SEND_EVENT_DONE" \notin {"MNS_CONNECT", "MNS_DISCONNECT", "MNS_BLUETOOTH_OFF"}
  BY TypesHave DEF MnsSendAt, MnsWhat
<1> DEFINE msg == MnsMsg("MNS_SEND_EVENT_DONE", 0)
<1>3. /\ mnsLate' \in BOOLEAN
      /\ mnsQueue' = mnsQueue \/ MnsPost("MNS_SEND_EVENT_DONE", 0)
  BY TypesHave DEF MnsFinish
<1>4. CASE mnsQueue' = mnsQueue
  BY <1>1, <1>2, <1>3, <1>4, QueueSame, SendTaskEffect, TypesHave
<1>5. CASE MnsPost("MNS_SEND_EVENT_DONE", 0)
  <2>1. /\ mnsQueue' = Append(mnsQueue, msg) /\ mnsQueue' \in Seq(MnsMessage)
        /\ msg \in MnsMessage /\ msg.what = "MNS_SEND_EVENT_DONE"
    BY <1>2, <1>5, PostEffect, TypesHave
  <2> HIDE DEF msg
  <2>2. MnsNeutral(msg) /\ msg.what # "MNS_BLUETOOTH_OFF"
    BY <2>1 DEF MnsNeutral
  <2>3. QueueKeeps(mnsQueue, mnsQueue')
    BY <2>1, <2>2, NeutralKeeps, TypesHave
  <2> QED
    BY <1>1, <1>2, <1>3, <2>1, <2>3, SendTaskEffect, TypesHave
<1> QED
  BY <1>3, <1>4, <1>5
-----------------------------------------------------------------------------
(***************************************************************************)
(* MnsTypeOK, with the sessions and threads that exist.                    *)
(***************************************************************************)
LEMMA TypesInit == MnsInit => MnsTypes
<1> SUFFICES ASSUME MnsInit PROVE MnsTypes
  OBVIOUS
<1>1. mns \in MnsFields /\ mns.session = 0
  BY DEF MnsInit, MnsFields
<1>2. Len(mnsSessions) = 0 /\ mnsSessions \in Seq(MnsObex) /\ mnsQueue \in Seq(MnsMessage)
  BY DEF MnsInit
<1>3. IsFiniteSet(mnsEnding)
  BY FS_EmptySet DEF MnsInit
<1>4. mnsLeft \in [requests : Nat, events : Nat]
  BY MnsAssumption DEF MnsInit
<1>5. /\ mnsEnding = {} /\ mnsTasks = {} /\ mnsTodo = "none" /\ mnsConnecting = FALSE
      /\ mnsLate = FALSE /\ mnsWanted = {}
  BY DEF MnsInit
<1>6. 0 \in 0..Len(mnsSessions)
  BY <1>2
<1>7. /\ mnsTodo \in {"none", "connect", "register"} /\ (mnsTodo = "connect" => mnsSessions # <<>>)
      /\ mnsConnecting \in BOOLEAN /\ mnsLate \in BOOLEAN /\ mnsWanted \subseteq MnsClients
      /\ mnsEnding \subseteq MnsThread /\ mnsTasks \subseteq MnsTaskSet /\ \A t : t \notin mnsTasks
  BY <1>5
<1>8. mnsSessions \in Seq(MnsObex) /\ mnsQueue \in Seq(MnsMessage)
  BY <1>2
<1> QED
  BY <1>1, <1>3, <1>4, <1>6, <1>7, <1>8 DEF MnsTypes

\* Every step keeps the types.
LEMMA TypesStep == MnsTypes /\ [MnsNext]_mnsVars => MnsTypes'
<1> SUFFICES ASSUME MnsTypes, [MnsNext]_mnsVars PROVE MnsTypes'
  OBVIOUS
<1>1. ASSUME NEW m \in MnsClients, MnsOn(m) \/ MnsOff(m) PROVE MnsTypes'
  <2>1. mnsWanted' \subseteq MnsClients /\ MnsRequest
    BY <1>1, TypesHave DEF MnsOn, MnsOff
  <2>2. MnsPost("MNS_CONNECT", m) \/ MnsPost("MNS_DISCONNECT", m)
    BY <1>1 DEF MnsOn, MnsOff
  <2> QED
    BY <2>1, <2>2, RequestEffect
<1>2. CASE MnsClose
  BY <1>2, CloseEffect
<1>3. CASE MnsEvent
  BY <1>3, EventEffect
<1>4. CASE MnsConnect
  BY <1>4, ConnectEffect
<1>5. CASE MnsDisconnect
  <2>1. MnsArg \in Nat /\ "deregister" \in MnsEndingAt
    BY <1>5, TakeEffect, TypesHave DEF MnsDisconnect, MnsEndingAt
  <2> QED
    BY <1>5, <2>1, BegunEffect DEF MnsDisconnect
<1>6. CASE MnsBluetoothOff
  <2>1. "off" \in MnsEndingAt
    BY DEF MnsEndingAt
  <2> QED
    BY <1>6, <2>1, BegunEffect DEF MnsBluetoothOff
<1>7. CASE MnsRfcommError
  BY <1>7, RfcommErrorEffect
<1>8. CASE MnsRfcommConnected
  BY <1>8, RfcommConnectedEffect
<1>9. CASE MnsSendEvent \/ MnsSendEventDone
  BY <1>9, SendEventEffect
<1>10. CASE MnsRegisterWaiting
  BY <1>10, RegisterWaitingEffect
<1>17. CASE MnsConnectThrows
  BY <1>17, ConnectThrowsEffect
<1>11. ASSUME NEW accepted \in BOOLEAN, MnsObexConnect(accepted) PROVE MnsTypes'
  BY <1>11, ObexConnectEffect
<1>12. ASSUME NEW ok \in BOOLEAN, MnsSocketConnect(ok) PROVE MnsTypes'
  BY <1>12, SocketConnectEffect
<1>13. ASSUME NEW t \in mnsEnding, MnsEndingThread(t) PROVE MnsTypes'
  <2>1. MnsDeregister(t) \/ MnsCheck(t) \/ MnsThreadStop(t) \/ MnsCleanup(t)
    BY <1>13 DEF MnsEndingThread
  <2> QED
    BY <1>13, <2>1, DeregisterEffect, CheckEffect, ThreadStopEffect, CleanupEffect
<1>14. ASSUME NEW t \in mnsTasks, MnsSendTask(t) PROVE MnsTypes'
  <2>1. MnsSetTimeout(t) \/ MnsReadSession(t) \/ MnsEnter(t) \/ MnsPut(t) \/ MnsFinish(t)
    BY <1>14 DEF MnsSendTask
  <2> QED
    BY <1>14, <2>1, SetTimeoutEffect, ReadSessionEffect, EnterEffect, PutEffect, FinishEffect
<1>15. CASE MnsSendTimeout
  BY <1>15, SendTimeoutEffect
<1>16. CASE UNCHANGED mnsVars
  BY <1>16 DEF mnsVars, MnsTypes
<1> QED
  BY <1>1, <1>2, <1>3, <1>4, <1>5, <1>6, <1>7, <1>8, <1>9, <1>10, <1>11, <1>12, <1>13, <1>14,
     <1>15, <1>16, <1>17 DEF MnsNext, MnsHandler, MnsThreads
-----------------------------------------------------------------------------
(***************************************************************************)
(* The instances.  An instance waits only while one attempt to connect is  *)
(* under way, in exactly one of its stages; what the device last asked of  *)
(* an instance is the last message about it, or has been done.             *)
(***************************************************************************)
AttemptInv ==
  /\ mns.waiting = {} => ~mnsConnecting /\ mnsTodo = "none" /\ NoAttempt(mnsQueue)
  /\ mns.waiting # {} => mnsConnecting \/ mnsTodo # "none" \/ ~NoAttempt(mnsQueue)
  /\ mnsConnecting => mnsTodo = "none" /\ NoAttempt(mnsQueue)
  /\ mnsTodo # "none" => NoAttempt(mnsQueue)
  /\ OneAttempt(mnsQueue)

MnsOffAt == {"off", "offstop", "cleanup"}
OffInv ==
  /\ "off" \in mnsPast => mnsWanted = {}
  /\ \A t \in mnsEnding : t.at \in MnsOffAt => "off" \in mnsPast
  /\ Queued(mnsQueue, "MNS_BLUETOOTH_OFF") => "off" \in mnsPast
  /\ Queued(mnsQueue, "RFCOMM_ERROR") => MnsOdd({"unreachable", "thrown"})

\* The last message about m is MNS_DISCONNECT when register() has thrown.
OnInv ==
  MnsOdd({"unreachable", "timeout", "undone", "thrown"}) \/
    \A m \in mnsWanted : \/ Asked(mnsQueue, m, "MNS_CONNECT")
                         \/ Unasked(mnsQueue, m) /\ m \in mns.registered \cup mns.waiting
                         \/ Asked(mnsQueue, m, "MNS_DISCONNECT") /\ m \in mns.registered

MnsPending(m) == \E t \in mnsEnding : t.at = "deregister" /\ t.of = m
DropInv ==
  MnsOdd({"orphan"}) \/
    \A m \in MnsClients \ mnsWanted :
       \/ Asked(mnsQueue, m, "MNS_DISCONNECT")
       \/ Unasked(mnsQueue, m) /\ (m \in mns.registered => MnsPending(m))

RegInv == AttemptInv /\ OffInv /\ OnInv /\ DropInv

\* Nothing is asked at first.
LEMMA RegInit == MnsInit => RegInv
<1> SUFFICES ASSUME MnsInit PROVE RegInv
  OBVIOUS
<1>1. /\ mns.waiting = {} /\ mns.registered = {} /\ mnsQueue = <<>> /\ mnsConnecting = FALSE
      /\ mnsTodo = "none" /\ mnsEnding = {} /\ mnsWanted = {} /\ mnsPast = {}
  BY DEF MnsInit
<1>2. \A k : k \notin 1..Len(mnsQueue)
  BY <1>1
<1>3. /\ NoAttempt(mnsQueue) /\ OneAttempt(mnsQueue) /\ \A m : Unasked(mnsQueue, m)
      /\ \A what : ~Queued(mnsQueue, what)
  BY <1>2 DEF NoAttempt, OneAttempt, Unasked, Queued
<1> QED
  BY <1>1, <1>3 DEF RegInv, AttemptInv, OffInv, OnInv, DropInv

\* A step that asks for nothing new and registers nothing.
LEMMA RegKeeps ==
  ASSUME RegInv, QueueKeeps(mnsQueue, mnsQueue'),
         mns'.waiting = mns.waiting, mns'.registered \subseteq mns.registered,
         mnsTodo' = "none" <=> mnsTodo = "none", mnsConnecting' = mnsConnecting,
         mnsWanted' = mnsWanted, mnsPast \subseteq mnsPast', "off" \in mnsPast' => "off" \in mnsPast,
         \/ mnsWanted \cap mns.registered \subseteq mns'.registered
         \/ "timeout" \in mnsPast' \/ "undone" \in mnsPast',
         \A t \in mnsEnding' : t.at \in MnsOffAt => "off" \in mnsPast,
         \A m \in mns'.registered :
           MnsPending(m) => \E t \in mnsEnding' : t.at = "deregister" /\ t.of = m
  PROVE  RegInv'
<1>1. AttemptInv'
  BY DEF RegInv, AttemptInv, QueueKeeps
<1>2. OffInv'
  <2>1. /\ Queued(mnsQueue', "MNS_BLUETOOTH_OFF") => Queued(mnsQueue, "MNS_BLUETOOTH_OFF")
        /\ Queued(mnsQueue', "RFCOMM_ERROR") => Queued(mnsQueue, "RFCOMM_ERROR")
    BY DEF QueueKeeps
  <2> QED
    BY <2>1 DEF RegInv, OffInv, MnsOdd
<1>3. OnInv'
  BY DEF RegInv, OnInv, QueueKeeps, MnsOdd
<1>4. DropInv'
  BY DEF RegInv, DropInv, QueueKeeps, MnsOdd, MnsPending
<1> QED
  BY <1>1, <1>2, <1>3, <1>4 DEF RegInv

\* The device switches m on: the last message about m says so.
LEMMA RegOn ==
  ASSUME MnsTypes, RegInv, NEW m \in MnsClients, MnsOn(m)
  PROVE  RegInv'
<1> DEFINE msg == MnsMsg("MNS_CONNECT", m)
<1>1. /\ mnsWanted' = mnsWanted \cup {m} /\ mns' = mns /\ mnsTodo' = mnsTodo
      /\ mnsConnecting' = mnsConnecting /\ mnsEnding' = mnsEnding /\ mnsPast' = mnsPast
  BY DEF MnsOn, MnsRequest
<1>2. /\ "off" \notin mnsPast /\ msg \in MnsMessage /\ mnsQueue' = Append(mnsQueue, msg)
      /\ msg.what = "MNS_CONNECT" /\ msg.of = m
  <2>1. mnsWanted' \subseteq MnsClients /\ MnsRequest /\ MnsPost("MNS_CONNECT", m)
    BY <1>1, TypesHave DEF MnsOn
  <2> QED
    BY <2>1, RequestEffect
<1> HIDE DEF msg
<1>3. ~IsAttempt(msg) /\ \A x : AboutInst(msg, x) <=> x = m
  BY <1>2 DEF IsAttempt, AboutInst
<1>4. /\ Asked(mnsQueue', m, "MNS_CONNECT")
      /\ \A x, what : x # m /\ Asked(mnsQueue, x, what) => Asked(mnsQueue', x, what)
      /\ \A x : x # m /\ Unasked(mnsQueue, x) => Unasked(mnsQueue', x)
      /\ NoAttempt(mnsQueue') <=> NoAttempt(mnsQueue)
      /\ OneAttempt(mnsQueue) => OneAttempt(mnsQueue')
      /\ Queued(mnsQueue', "MNS_BLUETOOTH_OFF") => Queued(mnsQueue, "MNS_BLUETOOTH_OFF")
      /\ Queued(mnsQueue', "RFCOMM_ERROR") => Queued(mnsQueue, "RFCOMM_ERROR")
  <2>1. mnsQueue \in Seq(MnsMessage)
    BY TypesHave
  <2> QED
    BY <1>2, <1>3, <2>1, Appended
<1>5. AttemptInv'
  BY <1>1, <1>4 DEF RegInv, AttemptInv
<1>6. OffInv'
  BY <1>1, <1>2, <1>4 DEF RegInv, OffInv, MnsOdd
<1>7. OnInv'
  BY <1>1, <1>4 DEF RegInv, OnInv, MnsOdd
<1>8. DropInv'
  BY <1>1, <1>4 DEF RegInv, DropInv, MnsOdd, MnsPending
<1> QED
  BY <1>5, <1>6, <1>7, <1>8 DEF RegInv

\* The device switches m off: the last message about m says so.
LEMMA RegOff ==
  ASSUME MnsTypes, RegInv, NEW m \in MnsClients, MnsOff(m)
  PROVE  RegInv'
<1> DEFINE msg == MnsMsg("MNS_DISCONNECT", m)
<1>1. /\ mnsWanted' = mnsWanted \ {m} /\ mns' = mns /\ mnsTodo' = mnsTodo
      /\ mnsConnecting' = mnsConnecting /\ mnsEnding' = mnsEnding /\ mnsPast' = mnsPast
  BY DEF MnsOff, MnsRequest
<1>2. /\ "off" \notin mnsPast /\ msg \in MnsMessage /\ mnsQueue' = Append(mnsQueue, msg)
      /\ msg.what = "MNS_DISCONNECT" /\ msg.of = m
  <2>1. mnsWanted' \subseteq MnsClients /\ MnsRequest /\ MnsPost("MNS_DISCONNECT", m)
    BY <1>1, TypesHave DEF MnsOff
  <2> QED
    BY <2>1, RequestEffect
<1> HIDE DEF msg
<1>3. ~IsAttempt(msg) /\ \A x : AboutInst(msg, x) <=> x = m
  BY <1>2 DEF IsAttempt, AboutInst
<1>4. /\ Asked(mnsQueue', m, "MNS_DISCONNECT")
      /\ \A x, what : x # m /\ Asked(mnsQueue, x, what) => Asked(mnsQueue', x, what)
      /\ \A x : x # m /\ Unasked(mnsQueue, x) => Unasked(mnsQueue', x)
      /\ NoAttempt(mnsQueue') <=> NoAttempt(mnsQueue)
      /\ OneAttempt(mnsQueue) => OneAttempt(mnsQueue')
      /\ Queued(mnsQueue', "MNS_BLUETOOTH_OFF") => Queued(mnsQueue, "MNS_BLUETOOTH_OFF")
      /\ Queued(mnsQueue', "RFCOMM_ERROR") => Queued(mnsQueue, "RFCOMM_ERROR")
  <2>1. mnsQueue \in Seq(MnsMessage)
    BY TypesHave
  <2> QED
    BY <1>2, <1>3, <2>1, Appended
<1>5. AttemptInv'
  BY <1>1, <1>4 DEF RegInv, AttemptInv
<1>6. OffInv'
  BY <1>1, <1>2, <1>4 DEF RegInv, OffInv, MnsOdd
<1>7. OnInv'
  BY <1>1, <1>4 DEF RegInv, OnInv, MnsOdd
<1>8. DropInv'
  BY <1>1, <1>4 DEF RegInv, DropInv, MnsOdd, MnsPending
<1> QED
  BY <1>5, <1>6, <1>7, <1>8 DEF RegInv

\* One more message: MNS_BLUETOOTH_OFF, or the end of m if m was on.
MnsMoreEnds(q, r, m) ==
  /\ m \in mnsWanted => Asked(r, m, "MNS_DISCONNECT")
  /\ \A x, what : x # m /\ Asked(q, x, what) => Asked(r, x, what)
  /\ \A x : x # m /\ Unasked(q, x) => Unasked(r, x)
  /\ m \notin mnsWanted => (Unasked(q, m) => Unasked(r, m))
                        /\ \A what : Asked(q, m, what) => Asked(r, m, what)
  /\ NoAttempt(r) <=> NoAttempt(q)
  /\ OneAttempt(q) => OneAttempt(r)
  /\ Queued(r, "RFCOMM_ERROR") => Queued(q, "RFCOMM_ERROR")

\* The end of m is posted, or nothing is.
LEMMA MoreEnds ==
  ASSUME MnsTypes, NEW q \in Seq(MnsMessage), NEW m, NEW r,
         r = IF m \in mnsWanted THEN Append(q, MnsMsg("MNS_DISCONNECT", m)) ELSE q
  PROVE  MnsMoreEnds(q, r, m)
<1>1. CASE m \in mnsWanted
  <2> DEFINE msg == MnsMsg("MNS_DISCONNECT", m)
  <2>1. msg \in MnsMessage /\ msg.what = "MNS_DISCONNECT" /\ msg.of = m
    <3>1. m \in MnsClients
      BY <1>1, TypesHave
    <3>2. "MNS_DISCONNECT" \in MnsWhat /\ m \in Nat
      BY <3>1, ClientsAreNat DEF MnsWhat
    <3> QED
      BY <3>1, <3>2, MessageIs
  <2>2. r = Append(q, msg)
    BY <1>1
  <2> HIDE DEF msg
  <2>3. ~IsAttempt(msg) /\ \A x : AboutInst(msg, x) <=> x = m
    BY <2>1 DEF IsAttempt, AboutInst
  <2> QED
    BY <1>1, <2>1, <2>2, <2>3, Appended DEF MnsMoreEnds
<1>2. CASE m \notin mnsWanted
  BY <1>2 DEF MnsMoreEnds
<1> QED
  BY <1>1, <1>2

\* closeService: every instance that was on is asked to end.
LEMMA RegClose ==
  ASSUME MnsTypes, RegInv, MnsClose
  PROVE  RegInv'
<1>1. /\ mnsPast' = mnsPast \cup {"off"} /\ mnsWanted' = {} /\ mns' = mns /\ mnsTodo' = mnsTodo
      /\ mnsConnecting' = mnsConnecting /\ mnsEnding' = mnsEnding
  BY DEF MnsClose
<1>2. PICK q1 \in Seq(MnsMessage), q2 \in Seq(MnsMessage) :
        /\ q1 = Append(mnsQueue, MnsMsg("MNS_BLUETOOTH_OFF", 0))
        /\ q2 = IF 0 \in mnsWanted THEN Append(q1, MnsMsg("MNS_DISCONNECT", 0)) ELSE q1
        /\ mnsQueue' = IF 1 \in mnsWanted THEN Append(q2, MnsMsg("MNS_DISCONNECT", 1)) ELSE q2
  BY CloseEffect
<1>3. /\ \A m, what : Asked(mnsQueue, m, what) => Asked(q1, m, what)
      /\ \A m : Unasked(mnsQueue, m) => Unasked(q1, m)
      /\ NoAttempt(q1) <=> NoAttempt(mnsQueue)
      /\ OneAttempt(mnsQueue) => OneAttempt(q1)
      /\ Queued(q1, "RFCOMM_ERROR") => Queued(mnsQueue, "RFCOMM_ERROR")
  <2> DEFINE msg == MnsMsg("MNS_BLUETOOTH_OFF", 0)
  <2>1. msg \in MnsMessage /\ msg.what = "MNS_BLUETOOTH_OFF"
    <3>1. /\ "MNS_BLUETOOTH_OFF" \in MnsWhat
          /\ "MNS_BLUETOOTH_OFF" \notin {"MNS_CONNECT", "MNS_DISCONNECT"}
      BY DEF MnsWhat
    <3> QED
      BY <3>1, MessageIs
  <2>2. q1 = Append(mnsQueue, msg) /\ mnsQueue \in Seq(MnsMessage)
    BY <1>2, TypesHave
  <2> HIDE DEF msg
  <2>3. ~IsAttempt(msg) /\ \A x : ~AboutInst(msg, x)
    BY <2>1 DEF IsAttempt, AboutInst
  <2> QED
    BY <2>1, <2>2, <2>3, Appended
<1>4. MnsMoreEnds(q1, q2, 0) /\ MnsMoreEnds(q2, mnsQueue', 1)
  BY <1>2, MoreEnds
<1>5. AttemptInv'
  BY <1>1, <1>3, <1>4 DEF RegInv, AttemptInv, MnsMoreEnds
<1>6. OffInv'
  BY <1>1, <1>3, <1>4 DEF RegInv, OffInv, MnsMoreEnds, MnsOdd
<1>7. OnInv'
  BY <1>1 DEF OnInv
<1>8. DropInv'
  <2>1. ASSUME NEW m \in MnsClients, m \in mnsWanted PROVE Asked(mnsQueue', m, "MNS_DISCONNECT")
    <3>1. CASE m = 0
      <4>1. Asked(q2, m, "MNS_DISCONNECT") /\ m # 1
        BY <1>4, <2>1, <3>1 DEF MnsMoreEnds
      <4> QED
        BY <1>4, <4>1 DEF MnsMoreEnds
    <3>2. CASE m = 1
      BY <1>4, <2>1, <3>2 DEF MnsMoreEnds
    <3> QED
      BY <3>1, <3>2, MnsAssumption
  <2>2. ASSUME NEW m \in MnsClients, m \notin mnsWanted
        PROVE  /\ \A what : Asked(mnsQueue, m, what) => Asked(mnsQueue', m, what)
               /\ Unasked(mnsQueue, m) => Unasked(mnsQueue', m)
    <3>1. /\ \A what : Asked(q1, m, what) => Asked(q2, m, what)
          /\ Unasked(q1, m) => Unasked(q2, m)
      BY <1>4, <2>2 DEF MnsMoreEnds
    <3>2. /\ \A what : Asked(q2, m, what) => Asked(mnsQueue', m, what)
          /\ Unasked(q2, m) => Unasked(mnsQueue', m)
      BY <1>4, <2>2 DEF MnsMoreEnds
    <3> QED
      BY <1>3, <3>1, <3>2
  <2> QED
    BY <1>1, <2>1, <2>2 DEF RegInv, DropInv, MnsOdd, MnsPending
<1> QED
  BY <1>5, <1>6, <1>7, <1>8 DEF RegInv

\* MNS_CONNECT does what it asks for, or an attempt is under way that will.
LEMMA RegConnect ==
  ASSUME MnsTypes, RegInv, MnsConnect
  PROVE  RegInv'
<1>1. /\ mnsTodo' = mnsTodo /\ mnsEnding' = mnsEnding /\ mnsWanted' = mnsWanted
      /\ mnsPast \subseteq mnsPast' /\ ("off" \in mnsPast' => "off" \in mnsPast)
  BY DEF MnsConnect, MnsRace
<1>2. mnsTodo = "none" /\ MnsArg \in MnsClients
  BY ConnectQueue
<1>4. /\ \A m : Asked(mnsQueue, m, "MNS_CONNECT") =>
              \/ Asked(mnsQueue', m, "MNS_CONNECT")
              \/ m = MnsArg /\ Unasked(mnsQueue', m)
              \/ m = MnsArg /\ Asked(mnsQueue', m, "MNS_DISCONNECT") /\ m \in mns'.registered
      /\ \A m : Asked(mnsQueue, m, "MNS_DISCONNECT") => Asked(mnsQueue', m, "MNS_DISCONNECT")
      /\ \A m : Unasked(mnsQueue, m) => Unasked(mnsQueue', m) /\ m # MnsArg
      /\ NoAttempt(mnsQueue') <=> NoAttempt(mnsQueue)
      /\ OneAttempt(mnsQueue) => OneAttempt(mnsQueue')
      /\ Queued(mnsQueue', "MNS_BLUETOOTH_OFF") => Queued(mnsQueue, "MNS_BLUETOOTH_OFF")
      /\ Queued(mnsQueue', "RFCOMM_ERROR") => Queued(mnsQueue, "RFCOMM_ERROR")
  BY ConnectQueue
<1>5. \/ /\ mnsConnecting' = mnsConnecting
         /\ mns'.registered = mns.registered \cup {MnsArg} /\ mns'.waiting = mns.waiting
      \/ /\ mnsConnecting' = (mnsConnecting \/ mns.waiting = {})
         /\ mns'.registered = mns.registered /\ mns'.waiting = mns.waiting \cup {MnsArg}
  BY ConnectEffect
<1>6. AttemptInv'
  <2>1. CASE mnsConnecting' = mnsConnecting /\ mns'.waiting = mns.waiting
    BY <1>1, <1>2, <1>4, <2>1 DEF RegInv, AttemptInv
  <2>2. CASE /\ mnsConnecting' = (mnsConnecting \/ mns.waiting = {})
             /\ mns'.waiting = mns.waiting \cup {MnsArg}
    <3>1. mns'.waiting # {} /\ (mnsConnecting' <=> mnsConnecting \/ mns.waiting = {})
      BY <2>2
    <3> QED
      BY <1>1, <1>2, <1>4, <3>1 DEF RegInv, AttemptInv
  <2> QED
    BY <1>5, <2>1, <2>2
<1>7. OffInv'
  BY <1>1, <1>4 DEF RegInv, OffInv, MnsOdd
<1>8. OnInv'
  BY <1>1, <1>4, <1>5 DEF RegInv, OnInv, MnsOdd
<1>9. DropInv'
  BY <1>1, <1>4, <1>5 DEF RegInv, DropInv, MnsOdd, MnsPending
<1> QED
  BY <1>6, <1>7, <1>8, <1>9 DEF RegInv

\* MNS_DISCONNECT starts the thread that does what it asks for.
LEMMA RegDisconnect ==
  ASSUME MnsTypes, RegInv, MnsDisconnect
  PROVE  RegInv'
<1>1. /\ mnsTodo' = mnsTodo /\ mns' = mns /\ mnsConnecting' = mnsConnecting
      /\ mnsWanted' = mnsWanted /\ mnsPast' = mnsPast
  BY DEF MnsDisconnect
<1>2. /\ mnsQueue # <<>> /\ mnsQueue \in Seq(MnsMessage)
      /\ mnsQueue' = Tail(mnsQueue) /\ MnsArg \in MnsClients /\ MnsArg \in Nat
      /\ Head(mnsQueue).what = "MNS_DISCONNECT" /\ Head(mnsQueue).of = MnsArg
  BY TakeEffect, TypesHave DEF MnsDisconnect
<1>3. ~IsAttempt(Head(mnsQueue)) /\ AboutInst(Head(mnsQueue), MnsArg)
  BY <1>2 DEF IsAttempt, AboutInst
<1>4. /\ \A m : Asked(mnsQueue, m, "MNS_DISCONNECT") =>
              Asked(mnsQueue', m, "MNS_DISCONNECT") \/ (Unasked(mnsQueue', m) /\ m = MnsArg)
      /\ \A m : Asked(mnsQueue, m, "MNS_CONNECT") => Asked(mnsQueue', m, "MNS_CONNECT")
      /\ \A m : Unasked(mnsQueue, m) => Unasked(mnsQueue', m) /\ m # MnsArg
      /\ NoAttempt(mnsQueue') <=> NoAttempt(mnsQueue)
      /\ OneAttempt(mnsQueue) => OneAttempt(mnsQueue')
      /\ \A what : Queued(mnsQueue', what) => Queued(mnsQueue, what)
  BY <1>2, <1>3, Taken
<1>5. /\ \A t \in mnsEnding' : t \in mnsEnding \/ (t.of = MnsArg /\ t.at = "deregister")
      /\ \E t \in mnsEnding' : t.of = MnsArg /\ t.at = "deregister"
      /\ mnsEnding \subseteq mnsEnding'
  <2>1. "deregister" \in MnsEndingAt
    BY DEF MnsEndingAt
  <2> QED
    BY <1>2, <2>1, BegunEffect DEF MnsDisconnect
<1>6. AttemptInv'
  BY <1>1, <1>4 DEF RegInv, AttemptInv
<1>7. OffInv'
  BY <1>1, <1>4, <1>5 DEF RegInv, OffInv, MnsOffAt, MnsOdd
<1>8. OnInv'
  BY <1>1, <1>4 DEF RegInv, OnInv, MnsOdd
<1>9. DropInv'
  BY <1>1, <1>4, <1>5 DEF RegInv, DropInv, MnsOdd, MnsPending
<1> QED
  BY <1>6, <1>7, <1>8, <1>9 DEF RegInv

\* The end of an attempt to connect is taken.
LEMMA AttemptTaken ==
  ASSUME MnsTypes, RegInv, NEW what \in {"RFCOMM_CONNECTED", "RFCOMM_ERROR"},
         MnsTakes(what), MnsTaken
  PROVE  /\ mns.waiting # {} /\ ~mnsConnecting /\ mnsTodo = "none"
         /\ NoAttempt(mnsQueue') /\ OneAttempt(mnsQueue')
         /\ \A m, w : Asked(mnsQueue, m, w) => Asked(mnsQueue', m, w)
         /\ \A m : Unasked(mnsQueue, m) => Unasked(mnsQueue', m)
         /\ \A w : Queued(mnsQueue', w) => Queued(mnsQueue, w)
         /\ Queued(mnsQueue, what)
<1>1. /\ mnsQueue # <<>> /\ mnsQueue \in Seq(MnsMessage) /\ mnsTodo = "none"
      /\ mnsQueue' = Tail(mnsQueue) /\ Head(mnsQueue).what = what
  BY TakeEffect, TypesHave
<1>2. IsAttempt(Head(mnsQueue))
  BY <1>1 DEF IsAttempt
<1>3. \A m, w : Asked(mnsQueue, m, w) => w # what
  BY DEF Asked, AboutInst
<1>4. ~NoAttempt(mnsQueue)
  BY <1>1, <1>2, Taken
<1>5. OneAttempt(mnsQueue) /\ mns.waiting # {} /\ ~mnsConnecting
  BY <1>4 DEF RegInv, AttemptInv
<1> QED
  BY <1>1, <1>2, <1>3, <1>5, Taken

\* The attempt failed: nothing waits, and the device was unreachable.
LEMMA RegRfcommError ==
  ASSUME MnsTypes, RegInv, MnsRfcommError
  PROVE  RegInv'
<1>1. /\ mnsTodo' = mnsTodo /\ mnsConnecting' = mnsConnecting /\ mnsWanted' = mnsWanted
      /\ mnsEnding' = mnsEnding /\ ("off" \in mnsPast' => "off" \in mnsPast)
  BY DEF MnsRfcommError, MnsStop
<1>2. mns'.registered = {} /\ mns'.waiting = {} /\ mnsPast \subseteq mnsPast'
  BY RfcommErrorEffect
<1>3. /\ ~mnsConnecting /\ mnsTodo = "none" /\ NoAttempt(mnsQueue') /\ OneAttempt(mnsQueue')
      /\ \A m, w : Asked(mnsQueue, m, w) => Asked(mnsQueue', m, w)
      /\ \A m : Unasked(mnsQueue, m) => Unasked(mnsQueue', m)
      /\ \A w : Queued(mnsQueue', w) => Queued(mnsQueue, w)
      /\ Queued(mnsQueue, "RFCOMM_ERROR")
  BY AttemptTaken DEF MnsRfcommError
<1>4. AttemptInv'
  BY <1>1, <1>2, <1>3 DEF AttemptInv
<1>5. OffInv'
  BY <1>1, <1>2, <1>3 DEF RegInv, OffInv, MnsOdd
<1>6. OnInv'
  BY <1>2, <1>3 DEF RegInv, OffInv, OnInv, MnsOdd
<1>7. DropInv'
  BY <1>1, <1>2, <1>3 DEF RegInv, DropInv, MnsOdd
<1> QED
  BY <1>4, <1>5, <1>6, <1>7 DEF RegInv

\* The attempt goes on with the session.
LEMMA RegRfcommConnected ==
  ASSUME MnsTypes, RegInv, MnsRfcommConnected
  PROVE  RegInv'
<1>1. /\ mnsTodo' = "connect" /\ mnsConnecting' = mnsConnecting /\ mnsWanted' = mnsWanted
      /\ mnsEnding' = mnsEnding /\ ("off" \in mnsPast' => "off" \in mnsPast)
  BY DEF MnsRfcommConnected
<1>2. mns'.registered = mns.registered /\ mns'.waiting = mns.waiting /\ mnsPast \subseteq mnsPast'
  BY RfcommConnectedEffect
<1>3. /\ mns.waiting # {} /\ ~mnsConnecting /\ NoAttempt(mnsQueue') /\ OneAttempt(mnsQueue')
      /\ \A m, w : Asked(mnsQueue, m, w) => Asked(mnsQueue', m, w)
      /\ \A m : Unasked(mnsQueue, m) => Unasked(mnsQueue', m)
      /\ \A w : Queued(mnsQueue', w) => Queued(mnsQueue, w)
  BY AttemptTaken DEF MnsRfcommConnected
<1>4. AttemptInv'
  BY <1>1, <1>2, <1>3 DEF AttemptInv
<1>5. OffInv'
  BY <1>1, <1>2, <1>3 DEF RegInv, OffInv, MnsOdd
<1>6. OnInv'
  BY <1>1, <1>2, <1>3 DEF RegInv, OnInv, MnsOdd
<1>7. DropInv'
  BY <1>1, <1>2, <1>3 DEF RegInv, DropInv, MnsOdd, MnsPending
<1> QED
  BY <1>4, <1>5, <1>6, <1>7 DEF RegInv

\* The attempt ends: what waited is registered.
LEMMA RegRegisterWaiting ==
  ASSUME MnsTypes, RegInv, MnsRegisterWaiting
  PROVE  RegInv'
<1>1. /\ mnsTodo = "register" /\ mnsTodo' = "none" /\ mnsQueue' = mnsQueue
      /\ mnsConnecting' = mnsConnecting /\ mnsWanted' = mnsWanted /\ mnsEnding' = mnsEnding
      /\ mnsPast \subseteq mnsPast' /\ ("off" \in mnsPast' => "off" \in mnsPast)
      /\ mns.waiting \subseteq mnsWanted \/ "orphan" \in mnsPast'
  BY DEF MnsRegisterWaiting, MnsRace
<1>2. mns'.registered = mns.registered \cup mns.waiting /\ mns'.waiting = {}
  BY RegisterWaitingEffect
<1>3. AttemptInv'
  BY <1>1, <1>2 DEF RegInv, AttemptInv
<1>4. OffInv'
  BY <1>1 DEF RegInv, OffInv, MnsOdd
<1>5. OnInv'
  BY <1>1, <1>2 DEF RegInv, OnInv, MnsOdd
<1>6. DropInv'
  BY <1>1, <1>2 DEF RegInv, DropInv, MnsOdd, MnsPending
<1> QED
  BY <1>3, <1>4, <1>5, <1>6 DEF RegInv

\* The attempt goes on with its message, the only one.
LEMMA RegSocketConnect ==
  ASSUME MnsTypes, RegInv, NEW ok \in BOOLEAN, MnsSocketConnect(ok)
  PROVE  RegInv'
<1>1. /\ mnsTodo' = mnsTodo /\ mns' = mns /\ mnsWanted' = mnsWanted /\ mnsEnding' = mnsEnding
      /\ "off" \in mnsPast' => "off" \in mnsPast
  BY DEF MnsSocketConnect
<1>2. mnsConnecting /\ ~mnsConnecting' /\ mnsPast \subseteq mnsPast'
  BY SocketConnectEffect
<1>3. PICK msg \in MnsMessage :
        /\ mnsQueue' = Append(mnsQueue, msg) /\ IsAttempt(msg)
        /\ msg.what = "RFCOMM_ERROR" => "unreachable" \in mnsPast'
  BY SocketConnectEffect
<1>4. mnsTodo = "none" /\ NoAttempt(mnsQueue) /\ OneAttempt(mnsQueue) /\ mns.waiting # {}
  BY <1>2 DEF RegInv, AttemptInv
<1>5. (\A x : ~AboutInst(msg, x)) /\ msg.what # "MNS_BLUETOOTH_OFF"
  BY <1>3 DEF IsAttempt, AboutInst
<1>6. /\ \A m, w : Asked(mnsQueue, m, w) => Asked(mnsQueue', m, w)
      /\ \A m : Unasked(mnsQueue, m) => Unasked(mnsQueue', m)
      /\ \A w : Queued(mnsQueue', w) => Queued(mnsQueue, w) \/ msg.what = w
      /\ ~NoAttempt(mnsQueue') /\ OneAttempt(mnsQueue')
  <2>1. mnsQueue \in Seq(MnsMessage)
    BY TypesHave
  <2> QED
    BY <1>3, <1>4, <1>5, <2>1, Appended
<1>7. AttemptInv'
  BY <1>1, <1>2, <1>4, <1>6 DEF AttemptInv
<1>8. OffInv'
  BY <1>1, <1>2, <1>3, <1>5, <1>6 DEF RegInv, OffInv, MnsOdd
<1>9. OnInv'
  BY <1>1, <1>2, <1>6 DEF RegInv, OnInv, MnsOdd
<1>10. DropInv'
  BY <1>1, <1>2, <1>6 DEF RegInv, DropInv, MnsOdd, MnsPending
<1> QED
  BY <1>7, <1>8, <1>9, <1>10 DEF RegInv

\* The attempt ends with its message, and may leave what is wanted unregistered.
LEMMA RegConnectThrows ==
  ASSUME MnsTypes, RegInv, MnsConnectThrows
  PROVE  RegInv'
<1>1. /\ mnsTodo = "connect" /\ mnsTodo' = "none" /\ mns' = mns /\ mnsWanted' = mnsWanted
      /\ mnsEnding' = mnsEnding /\ mnsConnecting' = mnsConnecting
      /\ mnsPast \subseteq mnsPast' /\ "thrown" \in mnsPast'
      /\ "off" \in mnsPast' => "off" \in mnsPast
  BY DEF MnsConnectThrows
<1>2. PICK msg \in MnsMessage :
        mnsQueue' = Append(mnsQueue, msg) /\ IsAttempt(msg) /\ msg.what = "RFCOMM_ERROR"
  BY ConnectThrowsEffect
<1>3. ~mnsConnecting /\ NoAttempt(mnsQueue) /\ OneAttempt(mnsQueue) /\ mns.waiting # {}
  BY <1>1 DEF RegInv, AttemptInv
<1>4. (\A x : ~AboutInst(msg, x)) /\ msg.what # "MNS_BLUETOOTH_OFF"
  BY <1>2 DEF IsAttempt, AboutInst
<1>5. /\ \A m, w : Asked(mnsQueue, m, w) => Asked(mnsQueue', m, w)
      /\ \A m : Unasked(mnsQueue, m) => Unasked(mnsQueue', m)
      /\ \A w : Queued(mnsQueue', w) => Queued(mnsQueue, w) \/ msg.what = w
      /\ ~NoAttempt(mnsQueue') /\ OneAttempt(mnsQueue')
  <2>1. mnsQueue \in Seq(MnsMessage)
    BY TypesHave
  <2> QED
    BY <1>2, <1>3, <1>4, <2>1, Appended
<1>6. AttemptInv'
  BY <1>1, <1>3, <1>5 DEF AttemptInv
<1>7. OffInv'
  BY <1>1, <1>2, <1>4, <1>5 DEF RegInv, OffInv, MnsOdd
<1>8. OnInv'
  BY <1>1 DEF OnInv, MnsOdd
<1>9. DropInv'
  BY <1>1, <1>5 DEF RegInv, DropInv, MnsOdd, MnsPending
<1> QED
  BY <1>6, <1>7, <1>8, <1>9 DEF RegInv

\* Every step keeps the invariant of the instances.
LEMMA RegStep ==
  ASSUME MnsTypes, RegInv, [MnsNext]_mnsVars
  PROVE  RegInv'
<1>1. ASSUME NEW m \in MnsClients, MnsOn(m) \/ MnsOff(m) PROVE RegInv'
  BY <1>1, RegOn, RegOff
<1>2. CASE MnsClose
  BY <1>2, RegClose
<1>3. CASE MnsEvent
  <2>1. QueueKeeps(mnsQueue, mnsQueue')
    BY <1>3, EventEffect
  <2>2. /\ mns' = mns /\ mnsTodo' = mnsTodo /\ mnsConnecting' = mnsConnecting
        /\ mnsEnding' = mnsEnding /\ mnsWanted' = mnsWanted /\ mnsPast' = mnsPast
    BY <1>3 DEF MnsEvent
  <2>3. \A t \in mnsEnding' : t.at \in MnsOffAt => "off" \in mnsPast
    BY <2>2 DEF RegInv, OffInv
  <2> QED
    BY <2>1, <2>2, <2>3, RegKeeps DEF MnsPending
<1>4. CASE MnsConnect
  BY <1>4, RegConnect
<1>5. CASE MnsDisconnect
  BY <1>5, RegDisconnect
<1>6. CASE MnsBluetoothOff
  <2>1. /\ mns' = mns /\ mnsTodo' = mnsTodo /\ mnsConnecting' = mnsConnecting
        /\ mnsWanted' = mnsWanted /\ mnsPast' = mnsPast
    BY <1>6 DEF MnsBluetoothOff
  <2>2. /\ mnsQueue # <<>> /\ mnsQueue \in Seq(MnsMessage) /\ Head(mnsQueue) \in MnsMessage
        /\ mnsQueue' = Tail(mnsQueue) /\ Head(mnsQueue).what = "MNS_BLUETOOTH_OFF"
    BY <1>6, TakeEffect, TypesHave DEF MnsBluetoothOff
  <2>3. QueueKeeps(mnsQueue, mnsQueue')
    BY <2>2, NeutralKeeps DEF MnsNeutral
  <2>4. /\ \A t \in mnsEnding' : t \in mnsEnding \/ t.at = "off"
        /\ mnsEnding \subseteq mnsEnding'
    <3>1. "off" \in MnsEndingAt
      BY DEF MnsEndingAt
    <3> QED
      BY <1>6, <3>1, BegunEffect DEF MnsBluetoothOff
  <2>5. "off" \in mnsPast
    BY <2>2, Taken DEF RegInv, OffInv
  <2> QED
    BY <2>1, <2>3, <2>4, <2>5, RegKeeps DEF MnsPending
<1>7. CASE MnsRfcommError
  BY <1>7, RegRfcommError
<1>8. CASE MnsRfcommConnected
  BY <1>8, RegRfcommConnected
<1>9. CASE MnsSendEvent \/ MnsSendEventDone
  <2>1. /\ QueueKeeps(mnsQueue, mnsQueue')
        /\ mns'.registered = mns.registered /\ mns'.waiting = mns.waiting
    BY <1>9, SendEventEffect
  <2>2. /\ mnsTodo' = mnsTodo /\ mnsConnecting' = mnsConnecting
        /\ mnsEnding' = mnsEnding /\ mnsWanted' = mnsWanted /\ mnsPast' = mnsPast
    BY <1>9 DEF MnsSendEvent, MnsSendEventDone
  <2>3. \A t \in mnsEnding' : t.at \in MnsOffAt => "off" \in mnsPast
    BY <2>2 DEF RegInv, OffInv
  <2> QED
    BY <2>1, <2>2, <2>3, RegKeeps DEF MnsPending
<1>10. CASE MnsRegisterWaiting
  BY <1>10, RegRegisterWaiting
<1>17. CASE MnsConnectThrows
  BY <1>17, RegConnectThrows
<1>11. ASSUME NEW accepted \in BOOLEAN, MnsObexConnect(accepted) PROVE RegInv'
  <2>1. /\ mns' = mns /\ mnsTodo = "connect" /\ mnsTodo' = "register" /\ mnsConnecting' = mnsConnecting
        /\ mnsEnding' = mnsEnding /\ mnsWanted' = mnsWanted /\ mnsQueue' = mnsQueue
        /\ mnsPast \subseteq mnsPast' /\ ("off" \in mnsPast' => "off" \in mnsPast)
    BY <1>11 DEF MnsObexConnect
  <2>2. \A t \in mnsEnding' : t.at \in MnsOffAt => "off" \in mnsPast
    BY <2>1 DEF RegInv, OffInv
  <2> QED
    BY <2>1, <2>2, QueueSame, RegKeeps DEF MnsPending
<1>12. ASSUME NEW ok \in BOOLEAN, MnsSocketConnect(ok) PROVE RegInv'
  BY <1>12, RegSocketConnect
<1>13. ASSUME NEW t \in mnsEnding, MnsEndingThread(t) PROVE RegInv'
  <2>1. /\ mnsTodo' = mnsTodo /\ mnsConnecting' = mnsConnecting /\ mnsWanted' = mnsWanted
        /\ mnsQueue' = mnsQueue /\ QueueKeeps(mnsQueue, mnsQueue')
    BY <1>13, QueueSame DEF MnsEndingThread
  <2>2. \A u \in mnsEnding : u.at \in MnsOffAt => "off" \in mnsPast
    BY DEF RegInv, OffInv
  <2>3. CASE MnsDeregister(t)
    <3>1. /\ mns'.waiting = mns.waiting /\ mns'.registered = mns.registered \ {t.of}
          /\ \A u \in mnsEnding' : u \in mnsEnding \/ u.at = "check"
          /\ \A u \in mnsEnding : u # t => u \in mnsEnding'
          /\ mnsPast \subseteq mnsPast'
          /\ t.of \in mns.registered \cap mnsWanted => "undone" \in mnsPast'
      BY <1>13, <2>3, DeregisterEffect
    <3>2. "off" \in mnsPast' => "off" \in mnsPast
      BY <2>3 DEF MnsDeregister
    <3>3. mnsWanted \cap mns.registered \subseteq mns'.registered \/ "undone" \in mnsPast'
      BY <3>1
    <3>4. \A u \in mnsEnding' : u.at \in MnsOffAt => "off" \in mnsPast
      BY <2>2, <3>1 DEF MnsOffAt
    <3>5. \A m \in mns'.registered : MnsPending(m) =>
             \E u \in mnsEnding' : u.at = "deregister" /\ u.of = m
      BY <3>1 DEF MnsPending
    <3> QED
      BY <2>1, <3>1, <3>2, <3>3, <3>4, <3>5, RegKeeps
  <2>4. CASE MnsCheck(t)
    <3>1. /\ \A u \in mnsEnding : u # t => u \in mnsEnding'
          /\ \A u \in mnsEnding' : u \in mnsEnding \/ u.at \in {"stop", "offstop", "cleanup"}
          /\ (\E u \in mnsEnding' : u \notin mnsEnding /\ u.at \in {"offstop", "cleanup"}) =>
               t.at = "off"
      BY <1>13, <2>4, CheckEffect
    <3>2. mns' = mns /\ mnsPast' = mnsPast /\ t.at # "deregister"
      BY <2>4 DEF MnsCheck
    <3>3. \A u \in mnsEnding' : u.at \in MnsOffAt => "off" \in mnsPast
      BY <2>2, <3>1 DEF MnsOffAt
    <3>4. \A m \in mns'.registered : MnsPending(m) =>
             \E u \in mnsEnding' : u.at = "deregister" /\ u.of = m
      BY <3>1, <3>2 DEF MnsPending
    <3> QED
      BY <2>1, <3>2, <3>3, <3>4, RegKeeps
  <2>5. CASE MnsThreadStop(t)
    <3>1. /\ mns'.registered = mns.registered /\ mns'.waiting = mns.waiting
          /\ mnsPast \subseteq mnsPast'
          /\ \A u \in mnsEnding' : u \in mnsEnding \/ (u.at = "cleanup" /\ t.at = "offstop")
          /\ \A u \in mnsEnding : u # t => u \in mnsEnding'
      BY <1>13, <2>5, ThreadStopEffect
    <3>2. t.at # "deregister" /\ ("off" \in mnsPast' => "off" \in mnsPast)
      BY <2>5 DEF MnsThreadStop, MnsStop
    <3>3. \A u \in mnsEnding' : u.at \in MnsOffAt => "off" \in mnsPast
      BY <2>2, <3>1 DEF MnsOffAt
    <3>4. \A m \in mns'.registered : MnsPending(m) =>
             \E u \in mnsEnding' : u.at = "deregister" /\ u.of = m
      BY <3>1, <3>2 DEF MnsPending
    <3> QED
      BY <2>1, <3>1, <3>2, <3>3, <3>4, RegKeeps
  <2>6. CASE MnsCleanup(t)
    <3>1. /\ mns'.registered = {} /\ mns'.waiting = mns.waiting
          /\ mnsPast' = mnsPast /\ mnsEnding' = mnsEnding \ {t}
      BY <1>13, <2>6, CleanupEffect
    <3>2. mnsWanted = {}
      BY <2>6 DEF MnsCleanup, RegInv, OffInv, MnsOffAt
    <3>3. mnsWanted \cap mns.registered \subseteq mns'.registered
      BY <3>2
    <3> QED
      BY <2>1, <2>2, <3>1, <3>3, RegKeeps
  <2> QED
    BY <1>13, <2>3, <2>4, <2>5, <2>6 DEF MnsEndingThread
<1>14. ASSUME NEW t \in mnsTasks, MnsSendTask(t) PROVE RegInv'
  <2>1. /\ mns' = mns /\ mnsTodo' = mnsTodo /\ mnsConnecting' = mnsConnecting
        /\ mnsEnding' = mnsEnding /\ mnsWanted' = mnsWanted /\ mnsPast' = mnsPast
    BY <1>14 DEF MnsSendTask
  <2>2. MnsSetTimeout(t) \/ MnsReadSession(t) \/ MnsEnter(t) \/ MnsPut(t) \/ MnsFinish(t)
    BY <1>14 DEF MnsSendTask
  <2>3. QueueKeeps(mnsQueue, mnsQueue')
    BY <1>14, <2>2, QueueSame, FinishEffect DEF MnsSetTimeout, MnsReadSession, MnsEnter, MnsPut
  <2>4. \A u \in mnsEnding' : u.at \in MnsOffAt => "off" \in mnsPast
    BY <2>1 DEF RegInv, OffInv
  <2> QED
    BY <2>1, <2>3, <2>4, RegKeeps DEF MnsPending
<1>15. CASE MnsSendTimeout
  <2>1. /\ mnsTodo' = mnsTodo /\ mnsConnecting' = mnsConnecting /\ mnsQueue' = mnsQueue
        /\ mnsEnding' = mnsEnding /\ mnsWanted' = mnsWanted
        /\ "off" \in mnsPast' => "off" \in mnsPast
    BY <1>15 DEF MnsSendTimeout, MnsStop
  <2>2. /\ mns'.registered = {} /\ mns'.waiting = mns.waiting /\ mnsPast \subseteq mnsPast'
        /\ "timeout" \in mnsPast'
    BY <1>15, SendTimeoutEffect
  <2>3. \A u \in mnsEnding' : u.at \in MnsOffAt => "off" \in mnsPast
    BY <2>1 DEF RegInv, OffInv
  <2> QED
    BY <2>1, <2>2, <2>3, QueueSame, RegKeeps
<1>16. CASE UNCHANGED mnsVars
  BY <1>16 DEF mnsVars, RegInv, AttemptInv, OffInv, OnInv, DropInv, MnsOdd, MnsPending
<1> QED
  BY <1>1, <1>2, <1>3, <1>4, <1>5, <1>6, <1>7, <1>8, <1>9, <1>10, <1>11, <1>12, <1>13, <1>14,
     <1>15, <1>16, <1>17 DEF MnsNext, MnsHandler, MnsThreads
-----------------------------------------------------------------------------
(***************************************************************************)
(* The session.  While nothing is registered a thread is about to end it,  *)
(* or the message that starts one is queued after mnsCleanupInstances; and *)
(* what is registered, or about to be, has a session.                      *)
(***************************************************************************)
MnsStopAt == {"deregister", "check", "stop", "offstop"}
ClosingInv ==
  \/ MnsOdd({"orphan"})
  \/ mns.session = 0 \/ mns.registered # {} \/ mnsTodo # "none"
  \/ \E t \in mnsEnding : t.at \in MnsStopAt
  \/ "off" \in mnsPast /\ \E m \in MnsClients : Asked(mnsQueue, m, "MNS_DISCONNECT")

HasSession ==
  \/ MnsOdd({"raced"})
  \/ /\ mnsTodo # "none" \/ mns.registered # {} => mns.session # 0
     /\ \A t \in mnsEnding : t.at \in {"stop", "offstop"} => mns.registered = {}

CloseInv == ClosingInv /\ HasSession

\* A step that leaves the session, the instances and the threads alone.
LEMMA CloseKeeps ==
  ASSUME CloseInv, mns'.session = mns.session, mns'.registered = mns.registered,
         mnsTodo' = "none" <=> mnsTodo = "none", mnsPast \subseteq mnsPast', mnsEnding' = mnsEnding,
         \/ "off" \notin mnsPast
         \/ \A m : Asked(mnsQueue, m, "MNS_DISCONNECT") => Asked(mnsQueue', m, "MNS_DISCONNECT")
  PROVE  CloseInv'
<1>1. ClosingInv'
  BY DEF CloseInv, ClosingInv, MnsOdd
<1>2. HasSession'
  BY DEF CloseInv, HasSession, MnsOdd
<1> QED
  BY <1>1, <1>2 DEF CloseInv

\* Every step keeps the invariant of the session.
LEMMA CloseStep ==
  ASSUME MnsTypes, RegInv, CloseInv, [MnsNext]_mnsVars
  PROVE  CloseInv'
<1>1. ASSUME NEW m \in MnsClients, MnsOn(m) \/ MnsOff(m) PROVE CloseInv'
  <2>1. /\ mns' = mns /\ mnsTodo' = mnsTodo /\ mnsPast' = mnsPast /\ mnsEnding' = mnsEnding
        /\ "off" \notin mnsPast
    BY <1>1 DEF MnsOn, MnsOff, MnsRequest
  <2> QED
    BY <2>1, CloseKeeps
<1>2. CASE MnsClose
  <2>1. /\ mns' = mns /\ mnsTodo' = mnsTodo /\ mnsPast \subseteq mnsPast' /\ mnsEnding' = mnsEnding
        /\ "off" \notin mnsPast
    BY <1>2 DEF MnsClose
  <2> QED
    BY <2>1, CloseKeeps
<1>3. CASE MnsEvent
  <2>1. mns' = mns /\ mnsTodo' = mnsTodo /\ mnsPast' = mnsPast /\ mnsEnding' = mnsEnding
    BY <1>3 DEF MnsEvent
  <2>2. QueueKeeps(mnsQueue, mnsQueue')
    BY <1>3, EventEffect
  <2> QED
    BY <2>1, <2>2, CloseKeeps DEF QueueKeeps
<1>4. CASE MnsConnect
  <2>1. mnsTodo' = mnsTodo /\ mnsEnding' = mnsEnding
    BY <1>4 DEF MnsConnect
  <2>3. \A m : Asked(mnsQueue, m, "MNS_DISCONNECT") => Asked(mnsQueue', m, "MNS_DISCONNECT")
    BY <1>4, ConnectQueue
  <2>4. CASE /\ mns.session # 0 /\ mns'.registered = mns.registered \cup {MnsArg}
             /\ mns'.session = mns.session /\ mnsPast' = mnsPast \cup MnsRace
    <3>1. mns'.registered # {}
      BY <2>4
    <3>2. (\E t \in mnsEnding : t.at \in {"stop", "offstop"}) => "raced" \in mnsPast'
      BY <2>4 DEF MnsRace
    <3>3. HasSession'
      BY <2>1, <2>4, <3>2 DEF HasSession, MnsOdd
    <3> QED
      BY <3>1, <3>3 DEF CloseInv, ClosingInv
  <2>5. CASE mns'.registered = mns.registered /\ mnsPast' = mnsPast /\ mns'.session = mns.session
    BY <2>1, <2>3, <2>5, CloseKeeps
  <2> QED
    BY <1>4, <2>4, <2>5, ConnectEffect
<1>5. CASE MnsDisconnect
  <2>1. mns' = mns /\ mnsTodo' = mnsTodo /\ mnsPast' = mnsPast
    BY <1>5 DEF MnsDisconnect
  <2>2. /\ \A t \in mnsEnding' : t \in mnsEnding \/ t.at = "deregister"
        /\ \E t \in mnsEnding' : t.at = "deregister"
    <3>1. MnsArg \in Nat /\ "deregister" \in MnsEndingAt
      BY <1>5, TakeEffect, TypesHave DEF MnsDisconnect, MnsEndingAt
    <3> QED
      BY <1>5, <3>1, BegunEffect DEF MnsDisconnect
  <2>3. ClosingInv'
    BY <2>2 DEF ClosingInv, MnsStopAt
  <2>4. HasSession'
    BY <2>1, <2>2 DEF CloseInv, HasSession, MnsOdd
  <2> QED
    BY <2>3, <2>4 DEF CloseInv
<1>6. CASE MnsBluetoothOff
  <2>1. mns' = mns /\ mnsTodo' = mnsTodo /\ mnsPast' = mnsPast
    BY <1>6 DEF MnsBluetoothOff
  <2>2. /\ mnsQueue # <<>> /\ mnsQueue \in Seq(MnsMessage)
        /\ mnsQueue' = Tail(mnsQueue) /\ Head(mnsQueue).what = "MNS_BLUETOOTH_OFF"
    BY <1>6, TakeEffect, TypesHave DEF MnsBluetoothOff
  <2>3. \A m : Asked(mnsQueue, m, "MNS_DISCONNECT") => Asked(mnsQueue', m, "MNS_DISCONNECT")
    BY <2>2, Taken
  <2>4. mnsEnding \subseteq mnsEnding' /\ \A t \in mnsEnding' : t \in mnsEnding \/ t.at = "off"
    <3>1. "off" \in MnsEndingAt
      BY DEF MnsEndingAt
    <3> QED
      BY <1>6, <3>1, BegunEffect DEF MnsBluetoothOff
  <2>5. ClosingInv'
    BY <2>1, <2>3, <2>4 DEF CloseInv, ClosingInv, MnsOdd
  <2>6. HasSession'
    BY <2>1, <2>4 DEF CloseInv, HasSession, MnsOdd
  <2> QED
    BY <2>5, <2>6 DEF CloseInv
<1>7. CASE MnsRfcommError
  <2>1. mnsTodo' = "none"
    BY <1>7 DEF MnsRfcommError, MnsTakes
  <2>2. mns'.session = 0 /\ mns'.registered = {}
    BY <1>7, RfcommErrorEffect
  <2> QED
    BY <2>1, <2>2 DEF CloseInv, ClosingInv, HasSession
<1>8. CASE MnsRfcommConnected
  <2>1. mnsTodo' = "connect" /\ mnsEnding' = mnsEnding
    BY <1>8 DEF MnsRfcommConnected
  <2>2. /\ mns'.session = Len(mnsSessions) + 1 /\ mns'.registered = mns.registered
        /\ mnsPast \subseteq mnsPast'
    BY <1>8, RfcommConnectedEffect
  <2>3. mns'.session # 0
    BY <2>2, TypesHave
  <2>4. ClosingInv'
    BY <2>1 DEF ClosingInv
  <2>5. HasSession'
    BY <2>1, <2>2, <2>3 DEF CloseInv, HasSession, MnsOdd
  <2> QED
    BY <2>4, <2>5 DEF CloseInv
<1>9. CASE MnsSendEvent \/ MnsSendEventDone
  <2>1. mnsTodo' = mnsTodo /\ mnsPast' = mnsPast /\ mnsEnding' = mnsEnding
    BY <1>9 DEF MnsSendEvent, MnsSendEventDone
  <2>2. /\ QueueKeeps(mnsQueue, mnsQueue') /\ mns'.registered = mns.registered
        /\ mns'.session = mns.session
    BY <1>9, SendEventEffect
  <2> QED
    BY <2>1, <2>2, CloseKeeps DEF QueueKeeps
<1>10. CASE MnsRegisterWaiting
  <2>1. /\ mnsTodo = "register" /\ mnsTodo' = "none" /\ mnsEnding' = mnsEnding
        /\ mnsPast \cup MnsRace \subseteq mnsPast'
    BY <1>10 DEF MnsRegisterWaiting
  <2>2. mns'.registered = mns.registered \cup mns.waiting /\ mns'.session = mns.session
    BY <1>10, RegisterWaitingEffect
  <2>3. mns.waiting # {}
    BY <2>1 DEF RegInv, AttemptInv
  <2>4. mns'.registered # {}
    BY <2>2, <2>3
  <2>5. (\E t \in mnsEnding : t.at \in {"stop", "offstop"}) => "raced" \in mnsPast'
    BY <2>1 DEF MnsRace
  <2>6. HasSession'
    BY <2>1, <2>2, <2>5 DEF CloseInv, HasSession, MnsOdd
  <2> QED
    BY <2>4, <2>6 DEF CloseInv, ClosingInv
<1>17. CASE MnsConnectThrows
  <2>1. /\ mns' = mns /\ mns.session = 0 /\ mnsTodo = "connect" /\ mnsTodo' = "none"
        /\ mnsEnding' = mnsEnding /\ mnsPast \subseteq mnsPast'
    BY <1>17 DEF MnsConnectThrows
  <2>2. ClosingInv'
    BY <2>1 DEF ClosingInv
  <2>3. HasSession'
    BY <2>1 DEF CloseInv, HasSession, MnsOdd
  <2> QED
    BY <2>2, <2>3 DEF CloseInv
<1>11. ASSUME NEW accepted \in BOOLEAN, MnsObexConnect(accepted) PROVE CloseInv'
  <2>1. /\ mns' = mns /\ mnsTodo = "connect" /\ mnsTodo' = "register" /\ mnsEnding' = mnsEnding
        /\ mnsQueue' = mnsQueue /\ mnsPast \subseteq mnsPast'
    BY <1>11 DEF MnsObexConnect
  <2> QED
    BY <2>1, CloseKeeps
<1>12. ASSUME NEW ok \in BOOLEAN, MnsSocketConnect(ok) PROVE CloseInv'
  <2>1. /\ mns' = mns /\ mnsTodo' = mnsTodo /\ mnsEnding' = mnsEnding /\ mnsPast \subseteq mnsPast'
    BY <1>12 DEF MnsSocketConnect
  <2>2. PICK msg \in MnsMessage : mnsQueue' = Append(mnsQueue, msg) /\ IsAttempt(msg)
    BY <1>12, SocketConnectEffect
  <2>3. (\A x : ~AboutInst(msg, x)) /\ mnsQueue \in Seq(MnsMessage)
    BY <2>2, TypesHave DEF IsAttempt, AboutInst
  <2>4. \A m : Asked(mnsQueue, m, "MNS_DISCONNECT") => Asked(mnsQueue', m, "MNS_DISCONNECT")
    BY <2>2, <2>3, Appended
  <2> QED
    BY <2>1, <2>4, CloseKeeps
<1>13. ASSUME NEW t \in mnsEnding, MnsEndingThread(t) PROVE CloseInv'
  <2>1. mnsTodo' = mnsTodo /\ mnsQueue' = mnsQueue
    BY <1>13 DEF MnsEndingThread
  <2>2. CASE MnsDeregister(t)
    <3>1. /\ mns'.session = mns.session /\ mns'.registered = mns.registered \ {t.of}
          /\ \A u \in mnsEnding' : u \in mnsEnding \/ u.at = "check"
          /\ \E u \in mnsEnding' : u.at = "check"
          /\ mnsPast \subseteq mnsPast'
      BY <1>13, <2>2, DeregisterEffect
    <3>2. ClosingInv'
      BY <3>1 DEF ClosingInv, MnsStopAt
    <3>3. HasSession'
      BY <2>1, <3>1 DEF CloseInv, HasSession, MnsOdd
    <3> QED
      BY <3>2, <3>3 DEF CloseInv
  <2>3. CASE MnsCheck(t)
    <3>1. mns' = mns /\ mnsPast' = mnsPast
      BY <2>3 DEF MnsCheck
    <3>2. /\ \A u \in mnsEnding' : \/ u \in mnsEnding
                                   \/ u.at \in {"stop", "offstop"} /\ mns.registered = {}
                                   \/ u.at = "cleanup"
          /\ mns.registered = {} => \E u \in mnsEnding' : u.at \in {"stop", "offstop"}
      BY <1>13, <2>3, CheckEffect
    <3>3. ClosingInv'
      BY <3>1, <3>2 DEF ClosingInv, MnsStopAt
    <3>4. HasSession'
      BY <2>1, <3>1, <3>2 DEF CloseInv, HasSession, MnsOdd
    <3> QED
      BY <3>3, <3>4 DEF CloseInv
  <2>4. CASE MnsThreadStop(t)
    <3>1. /\ mns'.session = 0 /\ mns'.registered = mns.registered
          /\ \A u \in mnsEnding' : u \in mnsEnding \/ u.at = "cleanup"
          /\ mnsPast \subseteq mnsPast' /\ (mnsTodo # "none" => "raced" \in mnsPast')
      BY <1>13, <2>4, ThreadStopEffect
    <3>2. t.at \in {"stop", "offstop"}
      BY <2>4 DEF MnsThreadStop
    <3>3. ClosingInv'
      BY <3>1 DEF ClosingInv
    <3>4. HasSession'
      BY <2>1, <3>1, <3>2 DEF CloseInv, HasSession, MnsOdd
    <3> QED
      BY <3>3, <3>4 DEF CloseInv
  <2>5. CASE MnsCleanup(t)
    <3>1. /\ mns'.session = mns.session /\ mns'.registered = {} /\ mnsPast' = mnsPast
          /\ mnsEnding' = mnsEnding \ {t}
      BY <1>13, <2>5, CleanupEffect
    <3>2. t.at = "cleanup" /\ "off" \in mnsPast /\ mnsWanted = {}
      BY <2>5 DEF MnsCleanup, RegInv, OffInv, MnsOffAt
    <3>3. \A u \in mnsEnding : u.at \in MnsStopAt => u \in mnsEnding'
      BY <3>1, <3>2 DEF MnsStopAt
    <3>4. CASE mns.registered = {}
      BY <2>1, <3>1, <3>3, <3>4 DEF CloseInv, ClosingInv, HasSession, MnsOdd
    <3>5. CASE mns.registered # {}
      <4>1. PICK m \in mns.registered : TRUE
        BY <3>5
      <4>2. m \in MnsClients
        BY TypesHave, FieldsHas
      <4>3. MnsOdd({"orphan"}) \/ Asked(mnsQueue, m, "MNS_DISCONNECT") \/ MnsPending(m)
        BY <3>2, <4>1, <4>2 DEF RegInv, DropInv
      <4>4. ClosingInv'
        BY <2>1, <3>1, <3>2, <3>3, <4>2, <4>3 DEF ClosingInv, MnsOdd, MnsPending, MnsStopAt
      <4>5. HasSession'
        BY <2>1, <3>1 DEF CloseInv, HasSession, MnsOdd
      <4> QED
        BY <4>4, <4>5 DEF CloseInv
    <3> QED
      BY <3>4, <3>5
  <2> QED
    BY <1>13, <2>2, <2>3, <2>4, <2>5 DEF MnsEndingThread
<1>14. ASSUME NEW t \in mnsTasks, MnsSendTask(t) PROVE CloseInv'
  <2>1. mns' = mns /\ mnsTodo' = mnsTodo /\ mnsEnding' = mnsEnding /\ mnsPast' = mnsPast
    BY <1>14 DEF MnsSendTask
  <2>2. MnsSetTimeout(t) \/ MnsReadSession(t) \/ MnsEnter(t) \/ MnsPut(t) \/ MnsFinish(t)
    BY <1>14 DEF MnsSendTask
  <2>3. QueueKeeps(mnsQueue, mnsQueue')
    BY <1>14, <2>2, QueueSame, FinishEffect DEF MnsSetTimeout, MnsReadSession, MnsEnter, MnsPut
  <2> QED
    BY <2>1, <2>3, CloseKeeps DEF QueueKeeps
<1>15. CASE MnsSendTimeout
  <2>1. mnsTodo' = "none"
    BY <1>15 DEF MnsSendTimeout
  <2>2. mns'.session = 0 /\ mns'.registered = {}
    BY <1>15, SendTimeoutEffect
  <2> QED
    BY <2>1, <2>2 DEF CloseInv, ClosingInv, HasSession
<1>16. CASE UNCHANGED mnsVars
  BY <1>16, CloseKeeps DEF mnsVars
<1> QED
  BY <1>1, <1>2, <1>3, <1>4, <1>5, <1>6, <1>7, <1>8, <1>9, <1>10, <1>11, <1>12, <1>13, <1>14,
     <1>15, <1>16, <1>17 DEF MnsNext, MnsHandler, MnsThreads
-----------------------------------------------------------------------------
(***************************************************************************)
(* The sessions that were made.  Only mSession is open and has its mCs;    *)
(* only a session that is being connected, or was stopped while it was,    *)
(* has no id; and a wake lock is held only by a session that is being      *)
(* connected or sent over.                                                 *)
(***************************************************************************)
MnsFresh(s) == mnsTodo = "connect" /\ s = Len(mnsSessions)
MnsSending(s) == \E t \in mnsTasks : t.at = "put" /\ t.session = s
LockInv ==
  /\ \A s \in 1..Len(mnsSessions) :
       /\ mnsSessions[s].open => s = mns.session \/ "replaced" \in mnsPast
       /\ \/ mnsSessions[s].id \/ "refused" \in mnsPast \/ MnsFresh(s)
          \/ "thrown" \in mnsPast /\ s # mns.session
       /\ s = mns.session => mnsSessions[s].cs
       /\ mnsSessions[s].lock =>
            \/ "refused" \in mnsPast \/ "late" \in mnsPast
            \/ MnsFresh(s) /\ s = mns.session
            \/ mnsSessions[s].cs /\ MnsSending(s)
  /\ \A t \in mnsTasks :
       t.at = "enter" =>
         \/ "late" \in mnsPast
         \/ /\ mnsSessions[t.session].cs
            /\ \/ t.session = mns.session \/ mnsSessions[t.session].id \/ "refused" \in mnsPast

\* A step that leaves the sessions alone.
LEMMA LockKeeps ==
  ASSUME MnsTypes, LockInv, mnsSessions' = mnsSessions, mns'.session = mns.session,
         mnsTodo' = "connect" <=> mnsTodo = "connect", mnsPast \subseteq mnsPast',
         \A t \in mnsTasks : t.at = "put" => t \in mnsTasks',
         \A t \in mnsTasks' : \/ t \in mnsTasks \/ t.at # "enter"
                              \/ t.session = mns.session /\ mns.session # 0
  PROVE  LockInv'
<1>1. mns.session \in 0..Len(mnsSessions)
  BY TypesHave
<1>2. mns.session # 0 => mns.session \in 1..Len(mnsSessions)
  BY <1>1
<1>3. ASSUME NEW t \in mnsTasks', t.at = "enter"
      PROVE  \/ "late" \in mnsPast'
             \/ /\ mnsSessions[t.session].cs
                /\ \/ t.session = mns'.session \/ mnsSessions[t.session].id
                   \/ "refused" \in mnsPast'
  BY <1>2, <1>3 DEF LockInv
<1>4. ASSUME NEW s \in 1..Len(mnsSessions)
      PROVE  /\ MnsSending(s) => \E t \in mnsTasks' : t.at = "put" /\ t.session = s
             /\ MnsFresh(s) => mnsTodo' = "connect" /\ s = Len(mnsSessions)
  BY DEF MnsSending, MnsFresh
<1> QED
  BY <1>3, <1>4 DEF LockInv, MnsSending, MnsFresh

\* stop().
LEMMA LockStop ==
  ASSUME MnsTypes, LockInv, mns'.session = 0, mnsTodo' = mnsTodo, mnsTasks' = mnsTasks,
         \A s \in 1..Len(mnsSessions) :
           /\ s # mns.session => mnsSessions'[s] = mnsSessions[s]
           /\ s = mns.session => /\ ~mnsSessions'[s].lock /\ ~mnsSessions'[s].open
                                 /\ mnsSessions'[s].id = mnsSessions[s].id,
         Len(mnsSessions') = Len(mnsSessions), mnsPast \subseteq mnsPast',
         (\E t \in mnsTasks : t.at = "enter" /\ t.session = mns.session) => "late" \in mnsPast'
  PROVE  LockInv'
<1>1. \A s \in 1..Len(mnsSessions) : s # 0
  OBVIOUS
<1>2. \A t \in mnsTasks : t.at = "enter" => t.session \in 1..Len(mnsSessions)
  BY DEF MnsTypes
<1>3. ASSUME NEW t \in mnsTasks, t.at = "enter"
      PROVE  \/ "late" \in mnsPast'
             \/ /\ mnsSessions'[t.session].cs
                /\ \/ t.session = mns'.session \/ mnsSessions'[t.session].id
                   \/ "refused" \in mnsPast'
  BY <1>2, <1>3 DEF LockInv
<1>4. ASSUME NEW s \in 1..Len(mnsSessions)
      PROVE  /\ mnsSessions'[s].open => "replaced" \in mnsPast'
             /\ mnsSessions'[s].id \/ "refused" \in mnsPast' \/ MnsFresh(s) \/ ("thrown" \in mnsPast' /\ s # mns'.session)
             /\ mnsSessions'[s].lock =>
                  \/ "refused" \in mnsPast' \/ "late" \in mnsPast' \/ (MnsFresh(s) /\ s = mns'.session)
                  \/ mnsSessions'[s].cs /\ MnsSending(s)
  <2>1. CASE s = mns.session
    BY <2>1 DEF LockInv
  <2>2. CASE s # mns.session
    BY <2>2 DEF LockInv
  <2> QED
    BY <2>1, <2>2
<1> QED
  BY <1>1, <1>3, <1>4 DEF LockInv, MnsSending, MnsFresh

\* The new session is the fresh one; an older one that is open was replaced.
LEMMA LockRfcommConnected ==
  ASSUME MnsTypes, LockInv, MnsRfcommConnected
  PROVE  LockInv'
<1> DEFINE n == Len(mnsSessions)
<1>1. /\ mns'.session = n + 1 /\ Len(mnsSessions') = n + 1
      /\ \A s \in 1..n : mnsSessions'[s] = mnsSessions[s]
      /\ mnsSessions'[n + 1].cs
      /\ mnsPast \subseteq mnsPast' /\ (mns.session # 0 => "replaced" \in mnsPast')
  BY RfcommConnectedEffect
<1>2. mnsTodo = "none" /\ mnsTodo' = "connect" /\ mnsTasks' = mnsTasks
  BY DEF MnsRfcommConnected, MnsTakes
<1>3. n \in Nat
  BY TypesHave
<1>4. \A t \in mnsTasks : t.at = "enter" => t.session \in 1..n
  BY DEF MnsTypes
<1> HIDE DEF n
<1>5. \A s \in 1..n : s # 0 /\ s # n + 1
  BY <1>3
<1>6. \A s \in 1..(n + 1) : s \in 1..n \/ s = n + 1
  BY <1>3
<1>7. ASSUME NEW s \in 1..n
      PROVE  /\ mnsSessions'[s].open => "replaced" \in mnsPast'
             /\ mnsSessions'[s].id \/ "refused" \in mnsPast' \/ ("thrown" \in mnsPast' /\ s # mns'.session)
             /\ mnsSessions'[s].lock => \/ "refused" \in mnsPast' \/ "late" \in mnsPast'
                                        \/ mnsSessions'[s].cs /\ MnsSending(s)
  BY <1>1, <1>2, <1>5 DEF LockInv, MnsFresh, n
<1>8. ASSUME NEW t \in mnsTasks, t.at = "enter"
      PROVE  \/ "late" \in mnsPast'
             \/ /\ mnsSessions'[t.session].cs
                /\ \/ t.session = mns'.session \/ mnsSessions'[t.session].id
                   \/ "refused" \in mnsPast'
  <2>1. t.session \in 1..n /\ mnsSessions'[t.session] = mnsSessions[t.session]
    BY <1>1, <1>4, <1>8
  <2>2. t.session = mns.session => mnsSessions[t.session].id \/ "refused" \in mnsPast
    BY <1>2, <2>1 DEF LockInv, MnsFresh, n
  <2> QED
    BY <1>1, <1>8, <2>1, <2>2 DEF LockInv
<1> QED
  BY <1>1, <1>2, <1>5, <1>6, <1>7, <1>8 DEF LockInv, MnsSending, MnsFresh

\* connect() releases the lock, and has an id unless refused.
LEMMA LockObexConnect ==
  ASSUME MnsTypes, LockInv, NEW accepted \in BOOLEAN, MnsObexConnect(accepted)
  PROVE  LockInv'
<1> DEFINE n == Len(mnsSessions)
<1>1. /\ Len(mnsSessions') = n /\ n > 0
      /\ \A s \in 1..n : s # n => mnsSessions'[s] = mnsSessions[s]
      /\ mnsSessions'[n].cs = mnsSessions[n].cs
      /\ mnsSessions'[n].open = mnsSessions[n].open
      /\ ~mnsSessions'[n].lock
      /\ mnsPast \subseteq mnsPast'
      /\ ~mnsSessions'[n].id => "refused" \in mnsPast'
  BY ObexConnectEffect
<1>2. mnsTodo' = "register" /\ mnsTasks' = mnsTasks /\ mns' = mns
  BY DEF MnsObexConnect
<1>3. \A t \in mnsTasks : t.at = "enter" => t.session \in 1..n
  BY DEF MnsTypes
<1>4. ASSUME NEW s \in 1..n
      PROVE  /\ mnsSessions'[s].open => s = mns.session \/ "replaced" \in mnsPast'
             /\ mnsSessions'[s].id \/ "refused" \in mnsPast' \/ ("thrown" \in mnsPast' /\ s # mns'.session)
             /\ s = mns.session => mnsSessions'[s].cs
             /\ mnsSessions'[s].lock => \/ "refused" \in mnsPast' \/ "late" \in mnsPast'
                                        \/ mnsSessions'[s].cs /\ MnsSending(s)
  <2>1. CASE s = n
    BY <1>1, <2>1 DEF LockInv
  <2>2. CASE s # n
    BY <1>1, <1>2, <2>2 DEF LockInv, MnsFresh
  <2> QED
    BY <2>1, <2>2
<1>5. ASSUME NEW t \in mnsTasks, t.at = "enter"
      PROVE  \/ "late" \in mnsPast'
             \/ /\ mnsSessions'[t.session].cs
                /\ \/ t.session = mns'.session \/ mnsSessions'[t.session].id
                   \/ "refused" \in mnsPast'
  <2>1. t.session \in 1..n /\ mnsSessions'[t.session].cs = mnsSessions[t.session].cs
    BY <1>1, <1>3, <1>5
  <2>2. \/ mnsSessions'[t.session].id \/ "refused" \in mnsPast'
        \/ mnsSessions'[t.session] = mnsSessions[t.session]
    BY <1>1, <2>1
  <2> QED
    BY <1>1, <1>2, <1>5, <2>1, <2>2 DEF LockInv
<1> QED
  BY <1>1, <1>2, <1>4, <1>5 DEF LockInv, MnsSending, MnsFresh

\* The session was stopped before: it is not mSession, and its lock was released.
LEMMA LockConnectThrows ==
  ASSUME MnsTypes, LockInv, MnsConnectThrows
  PROVE  LockInv'
<1>1. /\ mnsTodo' = "none" /\ mnsTasks' = mnsTasks /\ mnsSessions' = mnsSessions /\ mns' = mns
      /\ mns.session = 0 /\ mnsPast \subseteq mnsPast' /\ "thrown" \in mnsPast'
  BY DEF MnsConnectThrows
<1>2. \A s \in 1..Len(mnsSessions) : s # mns.session
  BY <1>1
<1>3. ASSUME NEW s \in 1..Len(mnsSessions)
      PROVE  /\ mnsSessions[s].open => "replaced" \in mnsPast'
             /\ mnsSessions[s].lock => \/ "refused" \in mnsPast' \/ "late" \in mnsPast'
                                       \/ mnsSessions[s].cs /\ MnsSending(s)
  BY <1>1, <1>2 DEF LockInv
<1>4. ASSUME NEW t \in mnsTasks, t.at = "enter"
      PROVE  \/ "late" \in mnsPast'
             \/ /\ mnsSessions[t.session].cs
                /\ \/ t.session = mns'.session \/ mnsSessions[t.session].id
                   \/ "refused" \in mnsPast'
  BY <1>1, <1>4 DEF LockInv
<1> QED
  BY <1>1, <1>2, <1>3, <1>4 DEF LockInv, MnsSending, MnsFresh

\* The lock is taken for an exchange, over a session with its mCs unless late.
LEMMA LockEnter ==
  ASSUME MnsTypes, LockInv, NEW t \in mnsTasks, MnsSendTask(t), MnsEnter(t)
  PROVE  LockInv'
<1> DEFINE n == Len(mnsSessions)
<1>1. /\ t.session \in 1..n /\ Len(mnsSessions') = n
      /\ mnsSessions'[t.session].cs = mnsSessions[t.session].cs
      /\ mnsSessions'[t.session].open = mnsSessions[t.session].open
      /\ mnsSessions'[t.session].id = mnsSessions[t.session].id
      /\ \A i \in 1..n : i # t.session => mnsSessions'[i] = mnsSessions[i]
      /\ \A u \in mnsTasks' : u \in mnsTasks \/ u.at \in {"finish", "put"}
      /\ \A u \in mnsTasks : u # t => u \in mnsTasks'
      /\ mnsSessions[t.session].id => \E u \in mnsTasks' : u.at = "put" /\ u.session = t.session
  BY EnterEffect
<1>2. mnsTodo' = mnsTodo /\ mns' = mns /\ mnsPast' = mnsPast /\ t.at = "enter"
  BY DEF MnsSendTask, MnsEnter
<1>3. \A u \in mnsTasks : u.at = "enter" => u.session \in 1..n
  BY DEF MnsTypes
<1>4. \A s : MnsSending(s) => \E u \in mnsTasks' : u.at = "put" /\ u.session = s
  BY <1>1, <1>2 DEF MnsSending
<1>5. \/ "late" \in mnsPast
      \/ /\ mnsSessions[t.session].cs
         /\ \/ t.session = mns.session \/ mnsSessions[t.session].id \/ "refused" \in mnsPast
  BY <1>2 DEF LockInv
<1>6. ASSUME NEW s \in 1..n
      PROVE  /\ mnsSessions'[s].open => s = mns.session \/ "replaced" \in mnsPast
             /\ mnsSessions'[s].id \/ "refused" \in mnsPast \/ MnsFresh(s) \/ ("thrown" \in mnsPast /\ s # mns'.session)
             /\ s = mns.session => mnsSessions'[s].cs
             /\ mnsSessions'[s].lock =>
                  \/ "refused" \in mnsPast \/ "late" \in mnsPast \/ (MnsFresh(s) /\ s = mns'.session)
                  \/ mnsSessions'[s].cs /\ \E u \in mnsTasks' : u.at = "put" /\ u.session = s
  <2>1. CASE s = t.session
    BY <1>1, <1>2, <1>5, <2>1 DEF LockInv
  <2>2. CASE s # t.session
    BY <1>1, <1>2, <1>4, <2>2 DEF LockInv
  <2> QED
    BY <2>1, <2>2
<1>7. ASSUME NEW u \in mnsTasks', u.at = "enter"
      PROVE  \/ "late" \in mnsPast
             \/ /\ mnsSessions'[u.session].cs
                /\ \/ u.session = mns'.session \/ mnsSessions'[u.session].id
                   \/ "refused" \in mnsPast
  BY <1>1, <1>2, <1>3, <1>7 DEF LockInv
<1> QED
  BY <1>1, <1>2, <1>6, <1>7 DEF LockInv, MnsSending, MnsFresh

\* Only a session without its mCs keeps its lock.
LEMMA LockPut ==
  ASSUME MnsTypes, LockInv, NEW t \in mnsTasks, MnsSendTask(t), MnsPut(t)
  PROVE  LockInv'
<1> DEFINE n == Len(mnsSessions)
<1>1. /\ t.session \in 1..n /\ Len(mnsSessions') = n
      /\ mnsSessions'[t.session].cs = mnsSessions[t.session].cs
      /\ mnsSessions'[t.session].open = mnsSessions[t.session].open
      /\ mnsSessions'[t.session].id = mnsSessions[t.session].id
      /\ mnsSessions'[t.session].lock => mnsSessions[t.session].lock /\ ~mnsSessions[t.session].cs
      /\ \A i \in 1..n : i # t.session => mnsSessions'[i] = mnsSessions[i]
      /\ \A u \in mnsTasks' : u \in mnsTasks \/ u.at = "finish"
      /\ \A u \in mnsTasks : u # t => u \in mnsTasks'
  BY PutEffect
<1>2. mnsTodo' = mnsTodo /\ mns' = mns /\ mnsPast' = mnsPast /\ t.at = "put"
  BY DEF MnsSendTask, MnsPut
<1>3. \A u \in mnsTasks : u.at = "enter" => u.session \in 1..n
  BY DEF MnsTypes
<1>4. \A s : s # t.session /\ MnsSending(s) => \E u \in mnsTasks' : u.at = "put" /\ u.session = s
  BY <1>1 DEF MnsSending
<1>5. ASSUME NEW s \in 1..n
      PROVE  /\ mnsSessions'[s].open => s = mns.session \/ "replaced" \in mnsPast
             /\ mnsSessions'[s].id \/ "refused" \in mnsPast \/ MnsFresh(s) \/ ("thrown" \in mnsPast /\ s # mns'.session)
             /\ s = mns.session => mnsSessions'[s].cs
             /\ mnsSessions'[s].lock =>
                  \/ "refused" \in mnsPast \/ "late" \in mnsPast \/ (MnsFresh(s) /\ s = mns'.session)
                  \/ mnsSessions'[s].cs /\ \E u \in mnsTasks' : u.at = "put" /\ u.session = s
  <2>1. CASE s = t.session
    BY <1>1, <1>2, <2>1 DEF LockInv
  <2>2. CASE s # t.session
    BY <1>1, <1>2, <1>4, <2>2 DEF LockInv
  <2> QED
    BY <2>1, <2>2
<1>6. ASSUME NEW u \in mnsTasks', u.at = "enter"
      PROVE  \/ "late" \in mnsPast
             \/ /\ mnsSessions'[u.session].cs
                /\ \/ u.session = mns'.session \/ mnsSessions'[u.session].id
                   \/ "refused" \in mnsPast
  BY <1>1, <1>2, <1>3, <1>6 DEF LockInv
<1> QED
  BY <1>1, <1>2, <1>5, <1>6 DEF LockInv, MnsSending, MnsFresh

\* mnsCleanupInstances releases the lock of mSession.
LEMMA LockCleanup ==
  ASSUME MnsTypes, LockInv, NEW t \in mnsEnding, MnsEndingThread(t), MnsCleanup(t)
  PROVE  LockInv'
<1> DEFINE n == Len(mnsSessions)
<1>1. /\ mns'.session = mns.session /\ mnsPast' = mnsPast /\ Len(mnsSessions') = n
      /\ \A s \in 1..n :
           /\ s # mns.session => mnsSessions'[s] = mnsSessions[s]
           /\ s = mns.session => /\ ~mnsSessions'[s].lock
                                 /\ mnsSessions'[s].cs = mnsSessions[s].cs
                                 /\ mnsSessions'[s].open = mnsSessions[s].open
                                 /\ mnsSessions'[s].id = mnsSessions[s].id
  BY CleanupEffect
<1>2. mnsTodo' = mnsTodo /\ mnsTasks' = mnsTasks
  BY DEF MnsEndingThread
<1>3. \A u \in mnsTasks : u.at = "enter" => u.session \in 1..n
  BY DEF MnsTypes
<1>4. ASSUME NEW s \in 1..n
      PROVE  /\ mnsSessions'[s].open => s = mns.session \/ "replaced" \in mnsPast
             /\ mnsSessions'[s].id \/ "refused" \in mnsPast \/ MnsFresh(s) \/ ("thrown" \in mnsPast /\ s # mns'.session)
             /\ s = mns.session => mnsSessions'[s].cs
             /\ mnsSessions'[s].lock =>
                  \/ "refused" \in mnsPast \/ "late" \in mnsPast \/ (MnsFresh(s) /\ s = mns'.session)
                  \/ mnsSessions'[s].cs /\ MnsSending(s)
  <2>1. CASE s = mns.session
    BY <1>1, <2>1 DEF LockInv
  <2>2. CASE s # mns.session
    BY <1>1, <2>2 DEF LockInv
  <2> QED
    BY <2>1, <2>2
<1>5. ASSUME NEW u \in mnsTasks, u.at = "enter"
      PROVE  \/ "late" \in mnsPast
             \/ /\ mnsSessions'[u.session].cs
                /\ \/ u.session = mns'.session \/ mnsSessions'[u.session].id
                   \/ "refused" \in mnsPast
  BY <1>1, <1>3, <1>5 DEF LockInv
<1> QED
  BY <1>1, <1>2, <1>4, <1>5 DEF LockInv, MnsSending, MnsFresh

\* Every step keeps the invariant of the sessions.
LEMMA LockStep ==
  ASSUME MnsTypes, LockInv, [MnsNext]_mnsVars
  PROVE  LockInv'
<1>1. ASSUME \/ MnsClose \/ MnsEvent \/ MnsDisconnect \/ MnsBluetoothOff
             \/ \E m \in MnsClients : MnsOn(m) \/ MnsOff(m)
             \/ UNCHANGED mnsVars
      PROVE  LockInv'
  <2>1. /\ mns' = mns /\ mnsTodo' = mnsTodo /\ mnsTasks' = mnsTasks /\ mnsSessions' = mnsSessions
        /\ mnsPast \subseteq mnsPast'
    BY <1>1 DEF MnsClose, MnsEvent, MnsDisconnect, MnsBluetoothOff, MnsOn, MnsOff, MnsRequest, mnsVars
  <2> QED
    BY <2>1, LockKeeps
<1>2. CASE MnsConnect
  <2>1. mnsTodo' = mnsTodo /\ mnsTasks' = mnsTasks /\ mnsSessions' = mnsSessions
    BY <1>2 DEF MnsConnect
  <2>2. mns'.session = mns.session /\ mnsPast \subseteq mnsPast'
    BY <1>2, ConnectEffect
  <2> QED
    BY <2>1, <2>2, LockKeeps
<1>3. CASE MnsRfcommError
  <2>1. mnsTodo' = mnsTodo /\ mnsTasks' = mnsTasks
    BY <1>3 DEF MnsRfcommError
  <2> QED
    BY <1>3, <2>1, RfcommErrorEffect, LockStop
<1>4. CASE MnsRfcommConnected
  BY <1>4, LockRfcommConnected
<1>5. CASE MnsSendEvent \/ MnsSendEventDone
  <2>1. mnsTodo' = mnsTodo /\ mnsPast' = mnsPast /\ mnsSessions' = mnsSessions
    BY <1>5 DEF MnsSendEvent, MnsSendEventDone
  <2>2. /\ mns'.session = mns.session /\ mnsTasks \subseteq mnsTasks'
        /\ \A t \in mnsTasks' : t \in mnsTasks \/ t.at = "timeout"
    BY <1>5, SendEventEffect
  <2> QED
    BY <2>1, <2>2, LockKeeps
<1>6. CASE MnsRegisterWaiting
  <2>1. /\ mnsTodo = "register" /\ mnsTodo' = "none" /\ mnsTasks' = mnsTasks
        /\ mnsSessions' = mnsSessions /\ mnsPast \subseteq mnsPast'
    BY <1>6 DEF MnsRegisterWaiting
  <2>2. mns'.session = mns.session
    BY <1>6, RegisterWaitingEffect
  <2> QED
    BY <2>1, <2>2, LockKeeps
<1>7. ASSUME NEW accepted \in BOOLEAN, MnsObexConnect(accepted) PROVE LockInv'
  BY <1>7, LockObexConnect
<1>12. CASE MnsConnectThrows
  BY <1>12, LockConnectThrows
<1>8. ASSUME NEW ok \in BOOLEAN, MnsSocketConnect(ok) PROVE LockInv'
  <2>1. /\ mns' = mns /\ mnsTodo' = mnsTodo /\ mnsTasks' = mnsTasks /\ mnsSessions' = mnsSessions
        /\ mnsPast \subseteq mnsPast'
    BY <1>8 DEF MnsSocketConnect
  <2> QED
    BY <2>1, LockKeeps
<1>9. ASSUME NEW t \in mnsEnding, MnsEndingThread(t) PROVE LockInv'
  <2>1. mnsTodo' = mnsTodo /\ mnsTasks' = mnsTasks
    BY <1>9 DEF MnsEndingThread
  <2>2. CASE MnsDeregister(t)
    <3>1. mns'.session = mns.session /\ mnsPast \subseteq mnsPast' /\ mnsSessions' = mnsSessions
      BY <1>9, <2>2, DeregisterEffect DEF MnsDeregister
    <3> QED
      BY <2>1, <3>1, LockKeeps
  <2>3. CASE MnsCheck(t)
    <3>1. mns' = mns /\ mnsPast' = mnsPast /\ mnsSessions' = mnsSessions
      BY <2>3 DEF MnsCheck
    <3> QED
      BY <2>1, <3>1, LockKeeps
  <2>4. CASE MnsThreadStop(t)
    BY <1>9, <2>1, <2>4, ThreadStopEffect, LockStop
  <2>5. CASE MnsCleanup(t)
    BY <1>9, <2>5, LockCleanup
  <2> QED
    BY <1>9, <2>2, <2>3, <2>4, <2>5 DEF MnsEndingThread
<1>10. ASSUME NEW t \in mnsTasks, MnsSendTask(t) PROVE LockInv'
  <2>1. mns' = mns /\ mnsTodo' = mnsTodo /\ mnsPast' = mnsPast
    BY <1>10 DEF MnsSendTask
  <2>2. CASE MnsSetTimeout(t)
    <3>1. /\ mnsSessions' = mnsSessions /\ t.at # "put"
          /\ \A u \in mnsTasks' : u \in mnsTasks \/ u.at = "read"
          /\ \A u \in mnsTasks : u # t => u \in mnsTasks'
      BY <1>10, <2>2, SetTimeoutEffect DEF MnsSetTimeout
    <3> QED
      BY <2>1, <3>1, LockKeeps
  <2>3. CASE MnsReadSession(t)
    <3>1. /\ mnsSessions' = mnsSessions /\ t.at # "put"
          /\ \A u \in mnsTasks' : \/ u \in mnsTasks \/ u.at = "finish"
                                  \/ u.at = "enter" /\ u.session = mns.session /\ mns.session # 0
          /\ \A u \in mnsTasks : u # t => u \in mnsTasks'
      BY <1>10, <2>3, ReadSessionEffect DEF MnsReadSession
    <3> QED
      BY <2>1, <3>1, LockKeeps
  <2>4. CASE MnsEnter(t)
    BY <1>10, <2>4, LockEnter
  <2>5. CASE MnsPut(t)
    BY <1>10, <2>5, LockPut
  <2>6. CASE MnsFinish(t)
    <3>1. mnsSessions' = mnsSessions /\ mnsTasks' = mnsTasks \ {t} /\ t.at # "put"
      BY <2>6 DEF MnsFinish
    <3> QED
      BY <2>1, <3>1, LockKeeps
  <2> QED
    BY <1>10, <2>2, <2>3, <2>4, <2>5, <2>6 DEF MnsSendTask
<1>11. CASE MnsSendTimeout
  <2>1. mnsTodo' = mnsTodo /\ mnsTasks' = mnsTasks
    BY <1>11 DEF MnsSendTimeout
  <2> QED
    BY <1>11, <2>1, SendTimeoutEffect, LockStop
<1> QED
  BY <1>1, <1>2, <1>3, <1>4, <1>5, <1>6, <1>7, <1>8, <1>9, <1>10, <1>11, <1>12
     DEF MnsNext, MnsHandler, MnsThreads
-----------------------------------------------------------------------------
(***************************************************************************)
(* The inductive invariant and what follows from it.                       *)
(***************************************************************************)
MnsInv == MnsTypes /\ RegInv /\ CloseInv /\ LockInv

\* The types and the three invariants hold always.
LEMMA MnsInvariant == MnsSpec => []MnsInv
<1>1. MnsInit => MnsInv
  <2> SUFFICES ASSUME MnsInit PROVE MnsInv
    OBVIOUS
  <2>1. MnsTypes /\ RegInv
    BY TypesInit, RegInit
  <2>2. /\ mns.session = 0 /\ mns.registered = {} /\ mnsTodo = "none" /\ mnsEnding = {}
        /\ mnsTasks = {} /\ mnsSessions = <<>>
    BY DEF MnsInit
  <2>3. CloseInv
    BY <2>2 DEF CloseInv, ClosingInv, HasSession
  <2>4. \A s : s \notin 1..Len(mnsSessions)
    BY <2>2
  <2>5. LockInv
    BY <2>2, <2>4 DEF LockInv
  <2> QED
    BY <2>1, <2>3, <2>5 DEF MnsInv
<1>2. MnsInv /\ [MnsNext]_mnsVars => MnsInv'
  BY TypesStep, RegStep, CloseStep, LockStep DEF MnsInv
<1> QED
  BY <1>1, <1>2, PTL DEF MnsSpec

\* The observers, the session and the tasks name instances and sessions that
\* exist, for any number of requests and events.
THEOREM MnsTypeCorrect == MnsSpec => []MnsTypeOK
<1>1. MnsInv => MnsTypeOK
  <2> SUFFICES ASSUME MnsTypes PROVE MnsTypeOK
    BY DEF MnsInv
  <2>1. mns.registered \subseteq MnsClients /\ mns.waiting \subseteq MnsClients
    BY TypesHave, FieldsHas
  <2>2. \A t \in MnsTaskSet : t.event \in Nat
    BY DEF MnsTaskSet
  <2>3. \A t \in mnsTasks : t.session \in 0..Len(mnsSessions) /\ t.event \in Nat
    BY <2>2 DEF MnsTypes
  <2> QED
    BY <2>1, <2>3, TypesHave DEF MnsTypeOK
<1> QED
  BY <1>1, MnsInvariant, PTL

\* When all messages of the handler are handled and all threads have ended, no
\* instance waits for a connection, and the observers that are registered are
\* those of the instances the device switched on, but for the named orders.
THEOREM RegisteredAsAsked == MnsSpec => []MnsRegisteredIsWanted
<1>1. MnsInv => MnsRegisteredIsWanted
  <2> SUFFICES ASSUME MnsInv, MnsQuiet
               PROVE  /\ mns.waiting = {}
                      /\ \/ mns.registered = mnsWanted
                         \/ MnsOdd({"unreachable", "timeout", "undone", "orphan", "thrown"})
    BY DEF MnsRegisteredIsWanted
  <2>1. \A k : k \notin 1..Len(mnsQueue)
    BY DEF MnsQuiet
  <2>2. NoAttempt(mnsQueue) /\ \A m, what : ~Asked(mnsQueue, m, what)
    BY <2>1 DEF NoAttempt, Asked
  <2>3. mnsTodo = "none" /\ ~mnsConnecting /\ mnsEnding = {}
    BY DEF MnsQuiet
  <2>4. mns.waiting = {}
    BY <2>2, <2>3 DEF MnsInv, RegInv, AttemptInv
  <2>5. ASSUME ~MnsOdd({"unreachable", "timeout", "undone", "orphan", "thrown"})
        PROVE  mns.registered = mnsWanted
    <3>1. mnsWanted \subseteq mns.registered
      BY <2>2, <2>4, <2>5 DEF MnsInv, RegInv, OnInv, MnsOdd
    <3>2. \A m \in MnsClients : m \notin mnsWanted => m \notin mns.registered
      BY <2>2, <2>3, <2>5 DEF MnsInv, RegInv, DropInv, MnsOdd, MnsPending
    <3>3. mns.registered \subseteq MnsClients
      BY TypesHave, FieldsHas DEF MnsInv
    <3> QED
      BY <3>1, <3>2, <3>3
  <2> QED
    BY <2>4, <2>5
<1> QED
  BY <1>1, MnsInvariant, PTL

\* When all is handled there is a session exactly when an instance is registered,
\* no session holds its wake lock and only the current one has its transport
\* open, but for the named orders of the threads.
THEOREM SessionsAreSettled == MnsSpec => []SessionsSettle
<1>1. MnsInv => SessionsSettle
  <2> SUFFICES ASSUME MnsInv, MnsQuiet
               PROVE  /\ (mns.session # 0 <=> mns.registered # {}) \/ MnsOdd({"raced", "orphan"})
                      /\ \A s \in DOMAIN mnsSessions :
                           /\ mnsSessions[s].lock => MnsOdd({"refused", "late"})
                           /\ mnsSessions[s].open => s = mns.session \/ MnsOdd({"replaced"})
    BY DEF SessionsSettle
  <2>1. \A k : k \notin 1..Len(mnsQueue)
    BY DEF MnsQuiet
  <2>2. \A m, what : ~Asked(mnsQueue, m, what)
    BY <2>1 DEF Asked
  <2>3. mnsTodo = "none" /\ mnsEnding = {} /\ mnsTasks = {}
    BY DEF MnsQuiet
  <2>4. (mns.session # 0 <=> mns.registered # {}) \/ MnsOdd({"raced", "orphan"})
    BY <2>2, <2>3 DEF MnsInv, CloseInv, ClosingInv, HasSession, MnsOdd
  <2>5. DOMAIN mnsSessions = 1..Len(mnsSessions)
    BY TypesHave DEF MnsInv
  <2>6. ASSUME NEW s \in 1..Len(mnsSessions)
        PROVE  /\ mnsSessions[s].lock => MnsOdd({"refused", "late"})
               /\ mnsSessions[s].open => s = mns.session \/ MnsOdd({"replaced"})
    BY <2>3 DEF MnsInv, LockInv, MnsFresh, MnsSending, MnsOdd
  <2> QED
    BY <2>4, <2>5, <2>6
<1> QED
  BY <1>1, MnsInvariant, PTL
=============================================================================
