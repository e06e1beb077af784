-------------------------- MODULE LocSyncReqProofs --------------------------
(***************************************************************************)
(* Proofs about LocSyncReq, for any number of callers, keys and slots.     *)
(***************************************************************************)
EXTENDS LocSyncReq, FiniteSetTheorems, TLAPS

SlotType == [key : Keys \cup {NoKey}, buf : Calls \cup {NoBuf},
             waiting : BOOLEAN, arrived : BOOLEAN]
IndType  == [at : 0..(NSlots + 1), key : Keys \cup {NoKey}, call : Calls \cup {NoBuf},
             used : BOOLEAN, consumed : BOOLEAN]

\* A call in progress has a number and a key.
ArgInv == \A t \in Threads : pc[t] # "idle" => args[t].key \in Keys /\ calls[t] # 0

\* An indication being processed answers a call.
IndInv == ind.at # 0 => ind.key \in Keys /\ ind.call \in Calls

TypeInv == TypeOK /\ ArgInv /\ IndInv

\* Callers inside a call hold a slot of their own.
OwnerInv ==
  /\ \A t \in Threads : pc[t] \notin {"idle", "alloc"} => sel[t] \in Slots /\ slotInUse[sel[t]]
  /\ \A t, u \in Threads : /\ pc[t] \notin {"idle", "alloc"} /\ pc[u] \notin {"idle", "alloc"}
                           /\ sel[t] = sel[u]
                           => t = u
  /\ \A s \in Slots : slotInUse[s] => \E t \in Threads : Holds(t, s)

\* A payload pointer is that of the call that holds the slot.
BufInv ==
  /\ \A t \in Threads : pc[t] # "idle" => args[t].buf = Call(t) \/ args[t].buf = NoBuf
  /\ \A s \in Slots : slots[s].buf # NoBuf =>
        \E t \in Threads : Holds(t, s) /\ slots[s].buf = Call(t)

\* What the loop of loc_sync_process_ind has seen of the slots behind it.
LoopInv ==
  /\ InUseCoversSlots
  /\ ind.at # 0 => \A s \in Slots : s < ind.at /\ slotInUse[s] => ind.used
  /\ ind.consumed => ind.used
  /\ ind.at # 0 => inUse

IInv == TypeInv /\ OwnerInv /\ BufInv /\ LoopInv
-----------------------------------------------------------------------------
\* The records the actions build are of their types.
LEMMA SlotTypes ==
  /\ FreeSlot \in SlotType
  /\ \A r \in SlotType : Waiting(r, TRUE) \in SlotType /\ Waiting(r, FALSE) \in SlotType
  /\ \A r \in SlotType : Arrived(r) \in SlotType
<1>1. FreeSlot \in SlotType
  BY DEF FreeSlot, SlotType
<1>2. \A r \in SlotType : Waiting(r, TRUE) \in SlotType /\ Waiting(r, FALSE) \in SlotType
  BY DEF Waiting, SlotType
<1>3. \A r \in SlotType : Arrived(r) \in SlotType
  BY DEF Arrived, SlotType
<1> QED
  BY <1>1, <1>2, <1>3

LEMMA IdleType == NoIndication \in IndType /\ NoIndication.at = 0 /\ ~NoIndication.consumed
  BY LocSyncReqAssumption DEF NoIndication, At, IndType

LEMMA AtType ==
  ASSUME NEW i \in 0..(NSlots + 1), NEW u \in BOOLEAN, NEW c \in BOOLEAN,
         NEW r, r.key \in Keys, r.call \in Calls
  PROVE  /\ At(i, u, c, r) \in IndType
         /\ At(i, u, c, r).at = i
         /\ At(i, u, c, r).key \in Keys /\ At(i, u, c, r).call \in Calls
  BY DEF At, IndType

LEMMA TypeInit == Init => TypeInv
<1> SUFFICES ASSUME Init PROVE TypeInv
  OBVIOUS
<1>1. slots \in [Slots -> SlotType] /\ ind \in IndType
  BY SlotTypes, IdleType DEF Init
<1>3. args \in [Threads -> [key : Keys \cup {NoKey}, buf : Calls \cup {NoBuf}]]
  BY DEF Init
<1>4. air \subseteq [key : Keys, call : Calls] /\ copied \in [Threads -> SUBSET Calls]
  BY DEF Init
<1>5. calls \in [Threads -> 0..MaxCalls] /\ sel \in [Threads -> {0} \cup Slots]
  BY LocSyncReqAssumption DEF Init
<1>2. TypeOK
  BY <1>1, <1>3, <1>4, <1>5 DEF Init, TypeOK, SlotType, IndType
<1> QED
  BY <1>2, IdleType DEF Init, TypeInv, ArgInv, IndInv

LEMMA TypeStep == TypeInv /\ [Next]_vars => TypeInv'
<1> SUFFICES ASSUME TypeInv, [Next]_vars PROVE TypeInv'
  OBVIOUS
<1> USE LocSyncReqAssumption DEF TypeInv
<1>0. slots \in [Slots -> SlotType] /\ ind \in IndType
  BY DEF TypeOK, SlotType, IndType
<1>t. ASSUME slots' \in [Slots -> SlotType], ind' = ind, TypeOK,
             inUse' \in BOOLEAN, slotInUse' \in [Slots -> BOOLEAN], signalled' \subseteq Slots,
             pc' \in [Threads -> {"idle", "alloc", "select", "send", "wait", "blocked",
                                  "free_ok", "free_timeout", "free_failed"}],
             sel' \in [Threads -> {0} \cup Slots],
             status' \in [Threads -> {"none", "SUCCESS", "FAILURE_TIMEOUT", "FAILURE"}],
             calls' = calls, args' = args, copied' = copied, air' = air
      PROVE  TypeOK'
  BY <1>t DEF TypeOK, SlotType
<1>1. ASSUME NEW t \in Threads, Begin(t) PROVE TypeInv'
  <2>1. PICK k \in KeysOf[t], b \in {<<t, calls[t] + 1>>, NoBuf} :
          args' = [args EXCEPT ![t] = [key |-> k, buf |-> b]]
    BY <1>1 DEF Begin
  <2>2. k \in Keys /\ b \in Calls \cup {NoBuf}
    BY <1>1 DEF Begin, TypeOK, Calls
  <2> DEFINE a == [key |-> k, buf |-> b]
  <2>3. a \in [key : Keys \cup {NoKey}, buf : Calls \cup {NoBuf}] /\ a.key \in Keys
    BY <2>2
  <2>4. args' = [args EXCEPT ![t] = a]
    BY <2>1
  <2> HIDE DEF a
  <2>5. TypeOK'
    BY <1>1, <2>3, <2>4 DEF Begin, Goto, slotVars, TypeOK
  <2>6. ArgInv' /\ IndInv'
    BY <1>1, <2>3, <2>4 DEF Begin, Goto, ArgInv, IndInv, TypeOK
  <2> QED
    BY <2>5, <2>6
<1>2. ASSUME NEW t \in Threads, Alloc(t) PROVE TypeInv'
  BY <1>2 DEF Alloc, Goto, TypeOK, ArgInv, IndInv
<1>3. ASSUME NEW t \in Threads, BufferFull(t) PROVE TypeInv'
  BY <1>3 DEF BufferFull, Goto, Return, slotVars, TypeOK, ArgInv, IndInv
<1>4. ASSUME NEW t \in Threads, Select(t) PROVE TypeInv'
  <2> DEFINE r == [key |-> args[t].key, buf |-> args[t].buf, waiting |-> FALSE, arrived |-> FALSE]
  <2>1. r \in SlotType
    BY DEF TypeOK, SlotType
  <2>2. slots' = [slots EXCEPT ![sel[t]] = r]
    BY <1>4 DEF Select
  <2> HIDE DEF r
  <2>3. slots' \in [Slots -> SlotType]
    BY <1>0, <2>1, <2>2
  <2> QED
    BY <1>4, <1>t, <2>3 DEF Select, Goto, TypeOK, ArgInv, IndInv
<1>5. ASSUME NEW t \in Threads, Send(t) PROVE TypeInv'
  <2> DEFINE r == [key |-> args[t].key, call |-> Call(t)]
  <2>1. r \in [key : Keys, call : Calls]
    BY <1>5 DEF Send, Call, TypeOK, Calls, ArgInv
  <2>2. air' = air \cup {r}
    BY <1>5 DEF Send
  <2> HIDE DEF r
  <2> QED
    BY <1>5, <2>1, <2>2 DEF Send, Goto, slotVars, TypeOK, ArgInv, IndInv
<1>6. ASSUME NEW t \in Threads, SendFail(t) PROVE TypeInv'
  BY <1>6 DEF SendFail, Goto, slotVars, TypeOK, ArgInv, IndInv
<1>7. ASSUME NEW t \in Threads, EnterWait(t) PROVE TypeInv'
  <2>0. slots' = slots \/ slots' = [slots EXCEPT ![sel[t]] = Waiting(@, TRUE)]
    BY <1>7 DEF EnterWait
  <2>1. slots' \in [Slots -> SlotType]
    <3>1. CASE sel[t] \in Slots
      <4> DEFINE w == Waiting(slots[sel[t]], TRUE)
      <4>1. w \in SlotType
        BY <1>0, <3>1, SlotTypes
      <4>2. slots' = slots \/ slots' = [slots EXCEPT ![sel[t]] = w]
        BY <2>0
      <4> HIDE DEF w
      <4> QED
        BY <1>0, <4>1, <4>2
    <3>2. CASE sel[t] \notin Slots
      BY <1>0, <2>0, <3>2
    <3> QED
      BY <3>1, <3>2
  <2>2. PICK l \in {"free_ok", "free_failed", "blocked"} : Goto(t, l)
    BY <1>7 DEF EnterWait
  <2> QED
    BY <1>7, <1>t, <2>1, <2>2 DEF EnterWait, Goto, TypeOK, ArgInv, IndInv
<1>8. ASSUME NEW t \in Threads, NEW l \in {"free_ok", "free_timeout"},
             pc[t] = "blocked", WaitReturns(t, l)
      PROVE  TypeInv'
  <2>1. slots' \in [Slots -> SlotType]
    BY <1>8, <1>0, SlotTypes DEF WaitReturns
  <2> QED
    BY <1>8, <1>t, <2>1, ZenonT(60) DEF WaitReturns, Goto, TypeOK, ArgInv, IndInv
<1>9. ASSUME NEW t \in Threads, Free(t) PROVE TypeInv'
  <2>1. slots' \in [Slots -> SlotType]
    BY <1>9, <1>0, SlotTypes DEF Free
  <2>2. inUse' \in BOOLEAN
    BY <1>9 DEF Free
  <2> QED
    BY <1>9, <1>t, <2>1, <2>2 DEF Free, Goto, Return, StatusOf, TypeOK, ArgInv, IndInv
<1>10. ASSUME NEW r \in air, IndStart(r) PROVE TypeInv'
  <2>0. ind' = ind \/ ind' = At(1, FALSE, FALSE, r)
    BY <1>10 DEF IndStart
  <2>1. ind' \in IndType /\ IndInv'
    <3>1. r.key \in Keys /\ r.call \in Calls
      BY DEF TypeOK
    <3>2. 1 \in 0..(NSlots + 1)
      OBVIOUS
    <3>3. At(1, FALSE, FALSE, r) \in IndType /\ At(1, FALSE, FALSE, r).key \in Keys
          /\ At(1, FALSE, FALSE, r).call \in Calls
      BY <3>1, <3>2, AtType
    <3> QED
      BY <1>0, <2>0, <3>3 DEF IndInv
  <2> QED
    BY <1>10, <2>1 DEF IndStart, slotVars, callerVars, TypeOK, ArgInv, IndType
<1>11. CASE IndSkip
  <2>0. ind.at \in Slots /\ ind' = At(ind.at + 1, ind.used \/ slotInUse[ind.at], FALSE, ind)
    BY <1>11 DEF IndSkip
  <2>1. ind' \in IndType /\ IndInv'
    <3> DEFINE u == ind.used \/ slotInUse[ind.at]
               c == FALSE
    <3>1. ind.at + 1 \in 0..(NSlots + 1) /\ ind.key \in Keys /\ ind.call \in Calls
      BY <2>0 DEF IndInv, Slots
    <3>2. u \in BOOLEAN /\ c \in BOOLEAN
      OBVIOUS
    <3>3. ind' = At(ind.at + 1, u, c, ind)
      BY <2>0
    <3> HIDE DEF u, c
    <3> QED
      BY <3>1, <3>2, <3>3, AtType DEF IndInv
  <2> QED
    BY <1>11, <2>1 DEF IndSkip, slotVars, callerVars, TypeOK, ArgInv, IndType
<1>12. CASE IndMatch
  <2>0. ind.at \in Slots /\ ind' = At(ind.at + 1, TRUE, slots[ind.at].buf # NoBuf, ind)
    BY <1>12 DEF IndMatch
  <2>1. ind' \in IndType /\ IndInv'
    <3> DEFINE u == TRUE
               c == slots[ind.at].buf # NoBuf
    <3>1. ind.at + 1 \in 0..(NSlots + 1) /\ ind.key \in Keys /\ ind.call \in Calls
      BY <2>0 DEF IndInv, Slots
    <3>2. u \in BOOLEAN /\ c \in BOOLEAN
      OBVIOUS
    <3>3. ind' = At(ind.at + 1, u, c, ind)
      BY <2>0
    <3> HIDE DEF u, c
    <3> QED
      BY <3>1, <3>2, <3>3, AtType DEF IndInv
  <2>2. slots' \in [Slots -> SlotType]
    BY <1>12, <1>0, SlotTypes DEF IndMatch
  <2>3. copied' \in [Threads -> SUBSET Calls]
    <3>1. ind.call \in Calls
      BY <2>0 DEF IndInv, Slots
    <3>2. slots[ind.at].buf # NoBuf => slots[ind.at].buf \in Calls
      BY <1>0, <2>0 DEF SlotType
    <3> QED
      BY <1>12, <3>1, <3>2 DEF IndMatch, TypeOK, Calls
  <2> QED
    BY <1>12, <2>1, <2>2, <2>3 DEF IndMatch, TypeOK, ArgInv, IndType, SlotType
<1>13. CASE IndEnd
  <2>1. ind' \in IndType /\ IndInv'
    BY <1>13, IdleType DEF IndEnd, IndInv
  <2> QED
    BY <1>13, <2>1 DEF IndEnd, callerVars, TypeOK, ArgInv, IndType
<1>14. CASE UNCHANGED vars
  BY <1>14 DEF vars, TypeOK, ArgInv, IndInv
<1> QED
  BY <1>1, <1>2, <1>3, <1>4, <1>5, <1>6, <1>7, <1>8, <1>9, <1>10, <1>11, <1>12, <1>13, <1>14
  DEF Next, Caller, Wake, WakeSpuriously, TimeOut, IndLoop, Finished
(***************************************************************************)
(* Every variable keeps its type; in particular a caller's select_id is    *)
(* always a slot of the array.                                             *)
(***************************************************************************)
THEOREM TypeCorrect == Spec => []TypeOK
<1>1. TypeInv => TypeOK
  BY DEF TypeInv
<1> QED
  BY <1>1, TypeInit, TypeStep, PTL DEF Spec
-----------------------------------------------------------------------------
LEMMA OwnerInit == Init => OwnerInv /\ BufInv /\ LoopInv
<1> SUFFICES ASSUME Init PROVE OwnerInv /\ BufInv /\ LoopInv
  OBVIOUS
<1>1. OwnerInv
  BY DEF Init, OwnerInv
<1>2. BufInv
  BY DEF Init, BufInv, FreeSlot
<1>3. LoopInv
  BY IdleType DEF Init, LoopInv, InUseCoversSlots
<1> QED
  BY <1>1, <1>2, <1>3

\* A step of caller t that keeps the slot it holds, if it holds one.
LEMMA KeepsSlot ==
  ASSUME IInv, NEW t \in Threads, UNCHANGED <<slotInUse, sel, calls, args, inUse, ind>>,
         NEW l \in {"select", "send", "wait", "blocked", "free_ok", "free_timeout", "free_failed"},
         pc' = [pc EXCEPT ![t] = l], pc[t] \notin {"idle", "alloc"},
         \A s \in Slots : slots'[s].buf = slots[s].buf
  PROVE  OwnerInv' /\ BufInv' /\ LoopInv'
<1> USE DEF IInv, TypeInv, TypeOK
<1>1. \A u \in Threads : pc'[u] \in {"idle", "alloc"} <=> pc[u] \in {"idle", "alloc"}
  OBVIOUS
<1>2. \A u \in Threads, s \in Slots : Holds(u, s)' <=> Holds(u, s)
  BY <1>1 DEF Holds
<1>3. OwnerInv'
  BY <1>1, <1>2 DEF OwnerInv
<1>4. BufInv'
  BY <1>1, <1>2 DEF BufInv, Call
<1>5. LoopInv'
  BY DEF LoopInv, InUseCoversSlots
<1> QED
  BY <1>3, <1>4, <1>5

LEMMA OwnerStep == IInv /\ [Next]_vars => OwnerInv' /\ BufInv' /\ LoopInv'
<1> SUFFICES ASSUME IInv, [Next]_vars PROVE OwnerInv' /\ BufInv' /\ LoopInv'
  OBVIOUS
<1> USE LocSyncReqAssumption DEF IInv, TypeInv
<1>1. ASSUME NEW t \in Threads, Begin(t) PROVE OwnerInv' /\ BufInv' /\ LoopInv'
  <2>1. \A u \in Threads, s \in Slots : Holds(u, s)' <=> Holds(u, s)
    BY <1>1 DEF Begin, Goto, Holds, TypeOK
  <2>2. OwnerInv'
    BY <1>1, <2>1 DEF Begin, Goto, slotVars, OwnerInv, TypeOK
  <2>3. \A u \in Threads : u # t => /\ pc'[u] = pc[u] /\ args'[u] = args[u] /\ Call(u)' = Call(u)
    BY <1>1 DEF Begin, Goto, Call, TypeOK
  <2>4. args'[t].buf = Call(t)' \/ args'[t].buf = NoBuf
    BY <1>1 DEF Begin, Call, TypeOK
  <2>5. \A s \in Slots : ~Holds(t, s)
    BY <1>1 DEF Begin, Holds
  <2>6. BufInv'
    BY <1>1, <2>1, <2>3, <2>4, <2>5 DEF Begin, slotVars, BufInv
  <2>7. LoopInv'
    BY <1>1 DEF Begin, slotVars, LoopInv, InUseCoversSlots
  <2> QED
    BY <2>2, <2>6, <2>7
<1>2. ASSUME NEW t \in Threads, Alloc(t) PROVE OwnerInv' /\ BufInv' /\ LoopInv'
  <2>1. PICK s \in Slots : /\ ~slotInUse[s]
                           /\ sel' = [sel EXCEPT ![t] = s]
                           /\ slotInUse' = [slotInUse EXCEPT ![s] = TRUE]
    BY <1>2 DEF Alloc, FirstFree
  <2>2. pc' = [pc EXCEPT ![t] = "select"] /\ pc[t] = "alloc"
    BY <1>2 DEF Alloc, Goto
  <2>3. \A u \in Threads, r \in Slots : Holds(u, r)' <=> IF u = t THEN r = s ELSE Holds(u, r)
    BY <2>1, <2>2 DEF Holds, TypeOK
  <2>4. OwnerInv'
    <3>1. /\ pc'[t] = "select" /\ sel'[t] = s
          /\ \A u \in Threads : u # t => pc'[u] = pc[u] /\ sel'[u] = sel[u]
          /\ slotInUse'[s] /\ \A r \in Slots : r # s => (slotInUse'[r] <=> slotInUse[r])
      BY <2>1, <2>2 DEF TypeOK
    <3>2. \A u \in Threads : u # t /\ pc[u] \notin {"idle", "alloc"} =>
                              sel[u] \in Slots /\ slotInUse[sel[u]] /\ sel[u] # s
      BY <2>1 DEF OwnerInv
    <3>3. \A u \in Threads : pc'[u] \notin {"idle", "alloc"} =>
                              sel'[u] \in Slots /\ slotInUse'[sel'[u]]
      BY <3>1, <3>2
    <3>4. \A u, v \in Threads : /\ pc'[u] \notin {"idle", "alloc"}
                                 /\ pc'[v] \notin {"idle", "alloc"}
                                 /\ sel'[u] = sel'[v]
                                 => u = v
      BY <3>1, <3>2 DEF OwnerInv
    <3>5. ASSUME NEW r \in Slots, slotInUse'[r] PROVE \E u \in Threads : Holds(u, r)'
      <4>1. CASE r = s
        BY <2>3, <4>1
      <4>2. CASE r # s
        <5>1. PICK u \in Threads : Holds(u, r)
          BY <3>1, <3>5, <4>2 DEF OwnerInv
        <5>2. u # t
          BY <2>2, <5>1 DEF Holds
        <5> QED
          BY <2>3, <5>1, <5>2
      <4> QED
        BY <4>1, <4>2
    <3> QED
      BY <3>3, <3>4, <3>5 DEF OwnerInv
  <2>5. \A r \in Slots : ~Holds(t, r)
    BY <2>2 DEF Holds
  <2>6. BufInv'
    BY <1>2, <2>2, <2>3, <2>5 DEF Alloc, BufInv, Call, TypeOK
  <2>7. LoopInv'
    BY <1>2, <2>1 DEF Alloc, MutexFree, LoopInv, InUseCoversSlots
  <2> QED
    BY <2>4, <2>6, <2>7
<1>3. ASSUME NEW t \in Threads, BufferFull(t) PROVE OwnerInv' /\ BufInv' /\ LoopInv'
  <2>1. pc' = [pc EXCEPT ![t] = "idle"] /\ pc[t] = "alloc"
    BY <1>3 DEF BufferFull, Return, Goto
  <2>2. \A u \in Threads, s \in Slots : Holds(u, s)' <=> Holds(u, s)
    BY <1>3, <2>1 DEF BufferFull, Holds, TypeOK
  <2>3. OwnerInv'
    BY <1>3, <2>1, <2>2 DEF BufferFull, slotVars, OwnerInv, TypeOK
  <2>4. BufInv'
    BY <1>3, <2>1, <2>2 DEF BufferFull, slotVars, BufInv, Call, TypeOK
  <2>5. LoopInv'
    BY <1>3 DEF BufferFull, slotVars, LoopInv, InUseCoversSlots
  <2> QED
    BY <2>3, <2>4, <2>5
<1>4. ASSUME NEW t \in Threads, Select(t) PROVE OwnerInv' /\ BufInv' /\ LoopInv'
  <2>1. pc' = [pc EXCEPT ![t] = "send"] /\ pc[t] = "select"
    BY <1>4 DEF Select, Goto
  <2>2. \A u \in Threads, s \in Slots : Holds(u, s)' <=> Holds(u, s)
    BY <1>4, <2>1 DEF Select, Holds, TypeOK
  <2>3. OwnerInv'
    BY <1>4, <2>1, <2>2 DEF Select, OwnerInv, TypeOK
  <2>4. sel[t] \in Slots /\ Holds(t, sel[t])
    BY <2>1 DEF OwnerInv, Holds
  <2>5. \A s \in Slots : slots'[s].buf = IF s = sel[t] THEN args[t].buf ELSE slots[s].buf
    BY <1>4, <2>4 DEF Select, TypeOK
  <2>6. BufInv'
    BY <1>4, <2>1, <2>2, <2>4, <2>5 DEF Select, BufInv, Call, TypeOK
  <2>7. LoopInv'
    BY <1>4 DEF Select, LoopInv, InUseCoversSlots
  <2> QED
    BY <2>3, <2>6, <2>7
<1>5. ASSUME NEW t \in Threads, Send(t) \/ SendFail(t) PROVE OwnerInv' /\ BufInv' /\ LoopInv'
  <2>1. PICK l \in {"wait", "free_failed"} : pc' = [pc EXCEPT ![t] = l]
    BY <1>5 DEF Send, SendFail, Goto
  <2>2. pc[t] = "send" /\ UNCHANGED <<slotInUse, sel, calls, args, inUse, ind, slots>>
    BY <1>5 DEF Send, SendFail, slotVars
  <2> QED
    BY <2>1, <2>2, KeepsSlot
<1>6. ASSUME NEW t \in Threads, EnterWait(t) PROVE OwnerInv' /\ BufInv' /\ LoopInv'
  <2>1. PICK l \in {"free_ok", "free_failed", "blocked"} : pc' = [pc EXCEPT ![t] = l]
    BY <1>6 DEF EnterWait, Goto
  <2>2. pc[t] = "wait" /\ UNCHANGED <<slotInUse, sel, calls, args, inUse, ind>>
    BY <1>6 DEF EnterWait
  <2>3. slots' = slots \/ slots' = [slots EXCEPT ![sel[t]] = Waiting(@, TRUE)]
    BY <1>6 DEF EnterWait
  <2>4. \A s \in Slots : slots'[s].buf = slots[s].buf
    BY <2>3 DEF Waiting, TypeOK
  <2> QED
    BY <2>1, <2>2, <2>4, KeepsSlot
<1>7. ASSUME NEW t \in Threads, NEW l \in {"free_ok", "free_timeout"},
             pc[t] = "blocked", WaitReturns(t, l)
      PROVE  OwnerInv' /\ BufInv' /\ LoopInv'
  <2>1. pc' = [pc EXCEPT ![t] = l] /\ UNCHANGED <<slotInUse, sel, calls, args, inUse, ind>>
    BY <1>7 DEF WaitReturns, Goto
  <2>2. slots' = [slots EXCEPT ![sel[t]] = Waiting(@, FALSE)]
    BY <1>7 DEF WaitReturns
  <2>3. \A s \in Slots : slots'[s].buf = slots[s].buf
    BY <2>2 DEF Waiting, TypeOK
  <2> QED
    BY <1>7, <2>1, <2>3, KeepsSlot
<1>8. ASSUME NEW t \in Threads, Free(t) PROVE OwnerInv' /\ BufInv' /\ LoopInv'
  <2>1. /\ pc' = [pc EXCEPT ![t] = "idle"] /\ pc[t] \notin {"idle", "alloc"}
        /\ sel' = [sel EXCEPT ![t] = 0] /\ UNCHANGED <<calls, args, ind>> /\ ind.at = 0
        /\ slotInUse' = [slotInUse EXCEPT ![sel[t]] = FALSE]
        /\ slots' = [slots EXCEPT ![sel[t]] = FreeSlot]
    BY <1>8 DEF Free, Return, Goto, MutexFree
  <2>2. sel[t] \in Slots
    BY <2>1 DEF OwnerInv
  <2>3. \A u \in Threads, s \in Slots : Holds(u, s)' <=> u # t /\ Holds(u, s)
    BY <2>1 DEF Holds, TypeOK
  <2>4. \A u \in Threads : u # t /\ pc[u] \notin {"idle", "alloc"} => sel[u] # sel[t]
    BY <2>1 DEF OwnerInv
  <2>5. OwnerInv'
    BY <2>1, <2>2, <2>3, <2>4 DEF OwnerInv, TypeOK, Holds
  <2>6. \A s \in Slots : slots'[s].buf = IF s = sel[t] THEN NoBuf ELSE slots[s].buf
    BY <2>1, <2>2 DEF FreeSlot, TypeOK
  <2>7. \A s \in Slots : Holds(t, s) => s = sel[t]
    BY DEF Holds
  <2>8. BufInv'
    BY <2>1, <2>3, <2>6, <2>7 DEF BufInv, Call, TypeOK
  <2>9. InUseCoversSlots'
    BY <1>8, <2>1, <2>2 DEF Free, LoopInv, InUseCoversSlots, TypeOK
  <2>10. LoopInv'
    BY <2>1, <2>9 DEF LoopInv
  <2> QED
    BY <2>5, <2>8, <2>10
<1>9. ASSUME UNCHANGED <<slotInUse, pc, sel, calls, args>>,
             \A s \in Slots : slots'[s].buf = slots[s].buf
      PROVE  OwnerInv' /\ BufInv'
  BY <1>9 DEF OwnerInv, BufInv, Holds, Call
<1>10. ASSUME NEW r \in air, IndStart(r) PROVE OwnerInv' /\ BufInv' /\ LoopInv'
  <2>1. UNCHANGED <<slotInUse, inUse, slots, pc, sel, calls, args>>
    BY <1>10 DEF IndStart, slotVars, callerVars
  <2>2. ind' = ind \/ (inUse /\ ind'.at = 1 /\ ~ind'.consumed)
    BY <1>10 DEF IndStart, At
  <2>3. LoopInv'
    BY <2>1, <2>2 DEF LoopInv, InUseCoversSlots, Slots
  <2> QED
    BY <1>9, <2>1, <2>3
<1>11. CASE IndSkip
  <2>1. UNCHANGED <<slotInUse, inUse, slots, pc, sel, calls, args>>
    BY <1>11 DEF IndSkip, slotVars, callerVars
  <2>2. /\ ind.at \in Slots /\ ind'.at = ind.at + 1 /\ ~ind'.consumed
        /\ ind'.used <=> (ind.used \/ slotInUse[ind.at])
    BY <1>11 DEF IndSkip, At
  <2>3. LoopInv'
    BY <2>1, <2>2 DEF LoopInv, InUseCoversSlots, Slots, TypeOK
  <2> QED
    BY <1>9, <2>1, <2>3
<1>12. CASE IndMatch
  <2>1. UNCHANGED <<slotInUse, inUse, pc, sel, calls, args>>
    BY <1>12 DEF IndMatch
  <2>2. ind.at \in Slots /\ ind'.used
    BY <1>12 DEF IndMatch, At
  <2>3. slots' = slots \/ slots' = [slots EXCEPT ![ind.at] = Arrived(@)]
    BY <1>12 DEF IndMatch
  <2>4. \A s \in Slots : slots'[s].buf = slots[s].buf
    BY <2>2, <2>3 DEF Arrived, TypeOK
  <2>5. LoopInv'
    BY <2>1, <2>2 DEF LoopInv, InUseCoversSlots, Slots
  <2> QED
    BY <1>9, <2>1, <2>4, <2>5
<1>13. CASE IndEnd
  <2>1. UNCHANGED <<slotInUse, slots, pc, sel, calls, args>> /\ inUse' = (inUse /\ ind.used)
    BY <1>13 DEF IndEnd, callerVars
  <2>2. ind'.at = 0 /\ ~ind'.consumed
    BY <1>13, IdleType DEF IndEnd
  <2>3. (\E s \in Slots : slotInUse[s]) => ind.used
    BY <1>13 DEF IndEnd, LoopInv, Slots
  <2>4. LoopInv'
    BY <2>1, <2>2, <2>3 DEF LoopInv, InUseCoversSlots
  <2> QED
    BY <1>9, <2>1, <2>4
<1>14. CASE UNCHANGED vars
  BY <1>9, <1>14 DEF vars, LoopInv, InUseCoversSlots
<1> QED
  BY <1>1, <1>2, <1>3, <1>4, <1>5, <1>6, <1>7, <1>8, <1>10, <1>11, <1>12, <1>13, <1>14
  DEF Next, Caller, Wake, WakeSpuriously, TimeOut, IndLoop, Finished

LEMMA Invariant == Spec => []IInv
<1>1. Init => IInv
  BY TypeInit, OwnerInit DEF IInv
<1>2. IInv /\ [Next]_vars => IInv'
  BY TypeStep, OwnerStep DEF IInv
<1> QED
  BY <1>1, <1>2, PTL DEF Spec

(***************************************************************************)
(* However calls, answers, timeouts and spurious wake-ups interleave, a    *)
(* slot in use never holds a pointer into a call that has returned.        *)
(***************************************************************************)
THEOREM NoDeadBuffer == Spec => []BufferAlive
<1>1. IInv => BufferAlive
  BY DEF IInv, BufInv, BufferAlive
<1> QED
  BY <1>1, Invariant, PTL

(***************************************************************************)
(* A slot belongs to one call at a time, and none is ever lost.            *)
(***************************************************************************)
THEOREM SlotsOwned == Spec => []OneOwner
<1>1. IInv => OneOwner
  BY DEF IInv, OwnerInv, OneOwner, Holds
<1> QED
  BY <1>1, Invariant, PTL

(***************************************************************************)
(* No indication is dropped for want of in_use while a call holds a slot.  *)
(***************************************************************************)
THEOREM InUseCorrect == Spec => []InUseCoversSlots
<1>1. IInv => InUseCoversSlots
  BY DEF IInv, LoopInv
<1> QED
  BY <1>1, Invariant, PTL
-----------------------------------------------------------------------------
(***************************************************************************)
(* Who gets which answer, when no wait ends before its answer and callers  *)
(* ask for different keys.                                                 *)
(***************************************************************************)
Patient  == ~Timeouts /\ ~Spurious
Distinct == \A t, u \in Threads : t # u => KeysOf[t] \cap KeysOf[u] = {}

InCall(t) == pc[t] \notin {"idle", "alloc"}

\* A request was sent and its answer has not reached the caller's slot.
Unanswered(t) ==
  pc[t] \in {"wait", "blocked"} /\ ~slots[sel[t]].arrived /\ sel[t] \notin signalled

\* A slot nobody holds is empty.
SlotInv == \A s \in Slots : ~slotInUse[s] => slots[s] = FreeSlot /\ s \notin signalled

\* The answer has reached the caller's slot.
Reached(t) ==
  InCall(t) /\ (slots[sel[t]].arrived \/ sel[t] \in signalled \/ pc[t] = "free_ok")

\* What the slot of a call says of it; and a call whose answer has reached its
\* slot has that answer and no other.
CallInv(t) ==
  /\ pc[t] # "idle" => args[t].key \in KeysOf[t]
  /\ pc[t] = "select" => slots[sel[t]] = FreeSlot
  /\ InCall(t) /\ pc[t] # "select" =>
       slots[sel[t]].key = args[t].key /\ slots[sel[t]].buf = args[t].buf
  /\ InCall(t) => (slots[sel[t]].waiting <=> pc[t] = "blocked")
  /\ InCall(t) /\ slots[sel[t]].arrived => pc[t] \in {"wait", "free_ok"}
  /\ InCall(t) /\ sel[t] \in signalled => pc[t] = "blocked"
  /\ copied[t] \subseteq {Call(t)}
  /\ Reached(t) /\ args[t].buf # NoBuf => copied[t] # {}
  /\ pc[t] = "idle" /\ status[t] = "SUCCESS" /\ args[t].buf # NoBuf => copied[t] # {}

\* An answer on its way is the only one to a call that still waits for it; the
\* one the indication thread carries is so until it reaches the call's slot.
AirInv ==
  /\ \A r \in air : \E t \in Threads :
       r.key = args[t].key /\ r.call = Call(t) /\ Unanswered(t)
  /\ ind.at # 0 => \E t \in Threads :
       /\ ind.key = args[t].key /\ ind.call = Call(t)
       /\ pc[t] \in {"wait", "blocked", "free_ok"}
       /\ ind.at <= sel[t] => Unanswered(t)
       /\ \A r \in air : r.call # ind.call

CallsInv  == SlotInv /\ AirInv /\ \A t \in Threads : CallInv(t)
AnswerInv == IInv /\ CallsInv

\* Nothing that caller u sees of itself changes.
Same(u) ==
  /\ pc'[u] = pc[u] /\ sel'[u] = sel[u] /\ args'[u] = args[u] /\ calls'[u] = calls[u]
  /\ status'[u] = status[u] /\ copied'[u] = copied[u]
  /\ InCall(u) => slots'[sel[u]] = slots[sel[u]] /\ (sel[u] \in signalled' <=> sel[u] \in signalled)

LEMMA SameKeeps ==
  ASSUME NEW u \in Threads, Same(u)
  PROVE  /\ CallInv(u) => CallInv(u)'
         /\ Unanswered(u)' <=> Unanswered(u)
         /\ Call(u)' = Call(u)
<1>1. Call(u)' = Call(u) /\ (InCall(u)' <=> InCall(u))
  BY DEF Same, Call, InCall
<1>2. Unanswered(u)' <=> Unanswered(u)
  BY DEF Same, Unanswered, InCall
<1>3. Reached(u)' <=> Reached(u)
  BY DEF Same, Reached, InCall
<1>4. CallInv(u) => CallInv(u)'
  BY <1>1, <1>3 DEF Same, CallInv, InCall
<1> QED
  BY <1>1, <1>2, <1>4

\* A step of caller t that sends nothing, seen from the answers on their way.
LEMMA CallerKeeps ==
  ASSUME AnswerInv, NEW t \in Threads, \A u \in Threads \ {t} : Same(u),
         SlotInv', CallInv(t)', UNCHANGED <<air, ind>>,
         Unanswered(t) => Unanswered(t)',
         pc[t] \in {"wait", "blocked", "free_ok"} /\ ind.at # 0 =>
            pc'[t] \in {"wait", "blocked", "free_ok"},
         pc[t] \in {"wait", "blocked", "free_ok"} /\ (ind.at # 0 \/ Unanswered(t)) =>
            sel'[t] = sel[t] /\ args'[t] = args[t] /\ calls'[t] = calls[t]
  PROVE  CallsInv'
<1>1. \A u \in Threads \ {t} : CallInv(u)' /\ (Unanswered(u)' <=> Unanswered(u)) /\ Call(u)' = Call(u)
  BY SameKeeps DEF AnswerInv, CallsInv
<1>2. ASSUME NEW r \in air
      PROVE  \E u \in Threads : r.key = args'[u].key /\ r.call = Call(u)' /\ Unanswered(u)'
  <2>1. PICK u \in Threads : r.key = args[u].key /\ r.call = Call(u) /\ Unanswered(u)
    BY DEF AnswerInv, CallsInv, AirInv
  <2>2. args'[u] = args[u] /\ Call(u)' = Call(u) /\ Unanswered(u)'
    <3>1. CASE u = t
      BY <2>1, <3>1 DEF Call, Unanswered
    <3>2. CASE u # t
      BY <1>1, <2>1, <3>2 DEF Same
    <3> QED
      BY <3>1, <3>2
  <2> QED
    BY <2>1, <2>2
<1>3. ASSUME ind.at # 0
      PROVE  \E u \in Threads : /\ ind.key = args'[u].key /\ ind.call = Call(u)'
                                /\ pc'[u] \in {"wait", "blocked", "free_ok"}
                                /\ ind.at <= sel'[u] => Unanswered(u)'
                                /\ \A r \in air : r.call # ind.call
  <2>1. PICK u \in Threads : /\ ind.key = args[u].key /\ ind.call = Call(u)
                             /\ pc[u] \in {"wait", "blocked", "free_ok"}
                             /\ ind.at <= sel[u] => Unanswered(u)
                             /\ \A r \in air : r.call # ind.call
    BY <1>3 DEF AnswerInv, CallsInv, AirInv
  <2>2. /\ args'[u] = args[u] /\ Call(u)' = Call(u) /\ sel'[u] = sel[u]
        /\ pc'[u] \in {"wait", "blocked", "free_ok"}
        /\ Unanswered(u) => Unanswered(u)'
    <3>1. CASE u = t
      BY <1>3, <2>1, <3>1 DEF Call
    <3>2. CASE u # t
      BY <1>1, <2>1, <3>2 DEF Same
    <3> QED
      BY <3>1, <3>2
  <2> QED
    BY <2>1, <2>2
<1>4. AirInv'
  BY <1>2, <1>3 DEF AirInv
<1> QED
  BY <1>1, <1>4 DEF CallsInv

\* What a step of t does to other callers when it touches no slot but t's own.
LEMMA OthersSame ==
  ASSUME AnswerInv, NEW t \in Threads,
         \A u \in Threads \ {t} :
            /\ pc'[u] = pc[u] /\ sel'[u] = sel[u] /\ args'[u] = args[u]
            /\ calls'[u] = calls[u] /\ status'[u] = status[u] /\ copied'[u] = copied[u],
         InCall(t),
         \A s \in Slots \ {sel[t]} : slots'[s] = slots[s] /\ (s \in signalled' <=> s \in signalled)
  PROVE  \A u \in Threads \ {t} : Same(u)
<1>1. \A u \in Threads \ {t} : InCall(u) => sel[u] \in Slots \ {sel[t]}
  BY DEF AnswerInv, IInv, OwnerInv, InCall
<1> QED
  BY <1>1 DEF Same

\* With a slot for every caller, loc_alloc_slot finds one.
LEMMA SomeSlotFree ==
  ASSUME IInv, IsFiniteSet(Threads), Cardinality(Threads) <= NSlots,
         NEW t \in Threads, pc[t] = "alloc"
  PROVE  \E s \in Slots : ~slotInUse[s]
<1> SUFFICES ASSUME \A s \in Slots : slotInUse[s] PROVE FALSE
  OBVIOUS
<1> DEFINE Others == Threads \ {t}
           owner  == [s \in Slots |-> CHOOSE u \in Threads : Holds(u, s)]
<1>1. \A s \in Slots : owner[s] \in Threads /\ Holds(owner[s], s)
  BY DEF IInv, OwnerInv
<1>2. owner \in [Slots -> Others]
  BY <1>1 DEF Holds
<1>3. IsFiniteSet(Slots) /\ Cardinality(Slots) = NSlots
  BY LocSyncReqAssumption, FS_Interval DEF Slots
<1>4. IsFiniteSet(Others) /\ Cardinality(Others) = Cardinality(Threads) - 1
  BY FS_RemoveElement
<1>5. Cardinality(Threads) \in Nat /\ NSlots \in Nat
  BY FS_CardinalityType, LocSyncReqAssumption
<1>6. Cardinality(Others) < Cardinality(Slots)
  BY <1>3, <1>4, <1>5
<1> HIDE DEF Others, owner
<1>7. PICK r, s \in Slots : r # s /\ owner[r] = owner[s]
  BY <1>2, <1>3, <1>4, <1>6, FS_PigeonHole
<1> QED
  BY <1>1, <1>7 DEF Holds

LEMMA AnswerInit == Init => CallsInv
<1> SUFFICES ASSUME Init PROVE CallsInv
  OBVIOUS
<1>1. SlotInv /\ AirInv
  BY IdleType DEF Init, SlotInv, AirInv
<1>2. \A t \in Threads : CallInv(t)
  BY DEF Init, CallInv, InCall, Reached
<1> QED
  BY <1>1, <1>2 DEF CallsInv

LEMMA CallerStep ==
  ASSUME AnswerInv, IInv', NEW t \in Threads, Caller(t), Patient,
         IsFiniteSet(Threads), Cardinality(Threads) <= NSlots
  PROVE  CallsInv'
<1> USE LocSyncReqAssumption
<1>0. IInv /\ TypeOK /\ SlotInv /\ CallInv(t)
  BY DEF AnswerInv, IInv, TypeInv, CallsInv
<1>s. InCall(t) => sel[t] \in Slots /\ slotInUse[sel[t]]
  BY <1>0 DEF IInv, OwnerInv, InCall
<1>1. CASE Begin(t)
  <2>1. \A u \in Threads \ {t} : Same(u)
    BY <1>0, <1>1 DEF Begin, Goto, slotVars, Same, TypeOK
  <2>2. SlotInv'
    BY <1>0, <1>1 DEF Begin, slotVars, SlotInv
  <2>3. /\ pc'[t] = "alloc" /\ copied'[t] = {} /\ args'[t].key \in KeysOf[t]
        /\ pc[t] = "idle" /\ UNCHANGED <<air, ind>>
    BY <1>0, <1>1 DEF Begin, Goto, TypeOK
  <2>4. CallInv(t)'
    BY <2>3 DEF CallInv, InCall, Reached
  <2> QED
    BY <2>1, <2>2, <2>3, <2>4, CallerKeeps DEF Unanswered
<1>2. CASE Alloc(t)
  <2>1. PICK s \in Slots : /\ ~slotInUse[s] /\ sel' = [sel EXCEPT ![t] = s]
                           /\ slotInUse' = [slotInUse EXCEPT ![s] = TRUE]
    BY <1>2 DEF Alloc, FirstFree
  <2>2. /\ pc' = [pc EXCEPT ![t] = "select"] /\ pc[t] = "alloc"
        /\ UNCHANGED <<slots, signalled, calls, args, status, copied, air, ind>>
    BY <1>2 DEF Alloc, Goto
  <2>3. \A u \in Threads \ {t} : Same(u)
    BY <1>0, <2>1, <2>2 DEF Same, TypeOK
  <2>4. SlotInv'
    BY <1>0, <2>1, <2>2 DEF SlotInv, TypeOK
  <2>5. sel'[t] = s /\ pc'[t] = "select" /\ slots[s] = FreeSlot /\ s \notin signalled
    BY <1>0, <2>1, <2>2 DEF SlotInv, TypeOK
  <2>6. CallInv(t)'
    BY <1>0, <2>2, <2>5 DEF CallInv, InCall, Reached, Call, FreeSlot
  <2> QED
    BY <2>2, <2>3, <2>4, <2>6, CallerKeeps DEF Unanswered
<1>3. CASE BufferFull(t)
  BY <1>0, <1>3, SomeSlotFree DEF BufferFull
<1>4. CASE Select(t)
  <2>1. /\ pc' = [pc EXCEPT ![t] = "send"] /\ pc[t] = "select" /\ InCall(t)
        /\ UNCHANGED <<slotInUse, signalled, sel, calls, args, status, copied, air, ind>>
    BY <1>4 DEF Select, Goto, InCall
  <2> DEFINE new == [key |-> args[t].key, buf |-> args[t].buf, waiting |-> FALSE, arrived |-> FALSE]
  <2>2. slots' = [slots EXCEPT ![sel[t]] = new]
    BY <1>4 DEF Select
  <2>3. /\ slots'[sel[t]] = new /\ new.key = args[t].key /\ new.buf = args[t].buf
        /\ ~new.waiting /\ ~new.arrived
        /\ \A s \in Slots \ {sel[t]} : slots'[s] = slots[s]
    BY <1>0, <1>s, <2>1, <2>2 DEF TypeOK
  <2> HIDE DEF new
  <2>4. \A u \in Threads \ {t} : Same(u)
    BY <1>0, <2>1, <2>3, OthersSame DEF TypeOK
  <2>5. SlotInv'
    BY <1>0, <1>s, <2>1, <2>3 DEF SlotInv
  <2>6. pc'[t] = "send"
    BY <1>0, <2>1 DEF TypeOK
  <2>7. CallInv(t)'
    BY <1>0, <2>1, <2>3, <2>6 DEF CallInv, InCall, Reached, Call
  <2> QED
    BY <2>1, <2>4, <2>5, <2>7, CallerKeeps DEF Unanswered
<1>5. CASE Send(t)
  <2>1. /\ pc' = [pc EXCEPT ![t] = "wait"] /\ pc[t] = "send" /\ InCall(t)
        /\ UNCHANGED <<slots, slotInUse, signalled, sel, calls, args, status, copied, ind>>
    BY <1>5 DEF Send, Goto, InCall, slotVars
  <2> DEFINE new == [key |-> args[t].key, call |-> Call(t)]
  <2>2. air' = air \cup {new} /\ new.key = args[t].key /\ new.call = Call(t)
    BY <1>5 DEF Send
  <2> HIDE DEF new
  <2>3. pc'[t] = "wait" /\ ~slots[sel[t]].arrived /\ sel[t] \notin signalled
    BY <1>0, <2>1 DEF TypeOK, CallInv
  <2>4. \A u \in Threads \ {t} : Same(u)
    BY <1>0, <2>1, OthersSame DEF TypeOK
  <2>5. \A u \in Threads \ {t} : /\ CallInv(u)' /\ (Unanswered(u)' <=> Unanswered(u))
                                 /\ Call(u)' = Call(u) /\ pc'[u] = pc[u]
    BY <2>4, SameKeeps DEF AnswerInv, CallsInv, Same
  <2>6. CallInv(t)'
    BY <1>0, <2>1, <2>3 DEF CallInv, InCall, Reached, Call
  <2>7. Unanswered(t)' /\ Call(t)' = Call(t)
    BY <2>1, <2>3 DEF Unanswered, Call
  <2>8. ASSUME NEW r \in air'
        PROVE  \E u \in Threads : r.key = args'[u].key /\ r.call = Call(u)' /\ Unanswered(u)'
    <3>1. CASE r = new
      BY <2>1, <2>2, <2>7, <3>1
    <3>2. CASE r \in air
      <4>1. PICK u \in Threads : r.key = args[u].key /\ r.call = Call(u) /\ Unanswered(u)
        BY <3>2 DEF AnswerInv, CallsInv, AirInv
      <4>2. u # t
        BY <2>1, <4>1 DEF Unanswered
      <4> QED
        BY <2>1, <2>5, <4>1, <4>2
    <3> QED
      BY <2>2, <3>1, <3>2
  <2>9. ASSUME ind.at # 0
        PROVE  \E u \in Threads : /\ ind.key = args'[u].key /\ ind.call = Call(u)'
                                  /\ pc'[u] \in {"wait", "blocked", "free_ok"}
                                  /\ ind.at <= sel'[u] => Unanswered(u)'
                                  /\ \A r \in air' : r.call # ind.call
    <3>1. PICK u \in Threads : /\ ind.key = args[u].key /\ ind.call = Call(u)
                               /\ pc[u] \in {"wait", "blocked", "free_ok"}
                               /\ ind.at <= sel[u] => Unanswered(u)
                               /\ \A r \in air : r.call # ind.call
      BY <2>9 DEF AnswerInv, CallsInv, AirInv
    <3>2. u # t
      BY <2>1, <3>1
    <3>3. new.call # ind.call
      BY <2>2, <3>1, <3>2 DEF Call
    <3> QED
      BY <2>1, <2>2, <2>5, <3>1, <3>2, <3>3
  <2>10. AirInv' /\ SlotInv'
    BY <1>0, <2>1, <2>8, <2>9 DEF AirInv, SlotInv
  <2> QED
    BY <2>5, <2>6, <2>10 DEF CallsInv
<1>6. CASE SendFail(t)
  <2>1. /\ pc' = [pc EXCEPT ![t] = "free_failed"] /\ pc[t] = "send" /\ InCall(t)
        /\ UNCHANGED <<slots, slotInUse, signalled, sel, calls, args, status, copied, air, ind>>
    BY <1>6 DEF SendFail, Goto, InCall, slotVars
  <2>2. pc'[t] = "free_failed" /\ ~slots[sel[t]].arrived /\ sel[t] \notin signalled
    BY <1>0, <2>1 DEF TypeOK, CallInv
  <2>3. \A u \in Threads \ {t} : Same(u)
    BY <1>0, <2>1, OthersSame DEF TypeOK
  <2>4. CallInv(t)' /\ SlotInv'
    BY <1>0, <2>1, <2>2 DEF CallInv, InCall, Reached, Call, SlotInv
  <2> QED
    BY <2>1, <2>3, <2>4, CallerKeeps DEF Unanswered
<1>7. CASE EnterWait(t)
  <2>1. /\ pc[t] = "wait" /\ InCall(t) /\ ~slots[sel[t]].waiting
        /\ UNCHANGED <<slotInUse, signalled, sel, calls, args, status, copied, air, ind>>
    BY <1>0, <1>7 DEF EnterWait, InCall, CallInv
  <2>2. CASE slots[sel[t]].arrived
    <3>1. pc' = [pc EXCEPT ![t] = "free_ok"] /\ UNCHANGED slots
      BY <1>7, <2>1, <2>2 DEF EnterWait, Goto
    <3>2. pc'[t] = "free_ok" /\ Reached(t)
      BY <1>0, <2>1, <2>2, <3>1 DEF TypeOK, Reached
    <3>3. \A u \in Threads \ {t} : Same(u)
      BY <1>0, <2>1, <3>1, OthersSame DEF TypeOK
    <3>4. CallInv(t)' /\ SlotInv'
      BY <1>0, <2>1, <3>1, <3>2 DEF CallInv, InCall, Call, SlotInv
    <3> QED
      BY <2>1, <2>2, <3>2, <3>3, <3>4, CallerKeeps DEF Unanswered
  <2>3. CASE ~slots[sel[t]].arrived
    <3>1. pc' = [pc EXCEPT ![t] = "blocked"]
          /\ slots' = [slots EXCEPT ![sel[t]] = Waiting(slots[sel[t]], TRUE)]
      BY <1>7, <2>1, <2>3 DEF EnterWait, Goto
    <3> DEFINE old == slots[sel[t]]
               new == Waiting(old, TRUE)
    <3>2. new.key = old.key /\ new.buf = old.buf /\ new.waiting /\ new.arrived = old.arrived
      BY DEF Waiting
    <3>3. /\ slots'[sel[t]] = new /\ pc'[t] = "blocked"
          /\ \A s \in Slots \ {sel[t]} : slots'[s] = slots[s]
      BY <1>0, <1>s, <2>1, <3>1 DEF TypeOK
    <3> HIDE DEF new
    <3>4. \A u \in Threads \ {t} : Same(u)
      BY <1>0, <2>1, <3>1, <3>3, OthersSame DEF TypeOK
    <3>5. SlotInv'
      BY <1>0, <1>s, <2>1, <3>3 DEF SlotInv
    <3>6. Unanswered(t)'  <=> Unanswered(t)
      BY <2>1, <3>2, <3>3 DEF Unanswered
    <3>7. CallInv(t)'
      BY <1>0, <2>1, <2>3, <3>2, <3>3 DEF CallInv, InCall, Call, Reached
    <3> QED
      BY <2>1, <3>3, <3>4, <3>5, <3>6, <3>7, CallerKeeps
  <2> QED
    BY <2>2, <2>3
<1>8. CASE Wake(t)
  <2>1. /\ pc[t] = "blocked" /\ sel[t] \in signalled /\ InCall(t) /\ Reached(t)
        /\ pc' = [pc EXCEPT ![t] = "free_ok"] /\ signalled' = signalled \ {sel[t]}
        /\ slots' = [slots EXCEPT ![sel[t]] = Waiting(slots[sel[t]], FALSE)]
        /\ UNCHANGED <<slotInUse, sel, calls, args, status, copied, air, ind>>
    BY <1>8 DEF Wake, WaitReturns, Goto, InCall, Reached
  <2> DEFINE old == slots[sel[t]]
             new == Waiting(old, FALSE)
  <2>2. new.key = old.key /\ new.buf = old.buf /\ ~new.waiting /\ new.arrived = old.arrived
    BY DEF Waiting
  <2>3. /\ slots'[sel[t]] = new /\ pc'[t] = "free_ok"
        /\ \A s \in Slots \ {sel[t]} : slots'[s] = slots[s]
    BY <1>0, <1>s, <2>1 DEF TypeOK
  <2> HIDE DEF new
  <2>4. \A u \in Threads \ {t} : Same(u)
    BY <1>0, <2>1, <2>3, OthersSame DEF TypeOK
  <2>5. SlotInv'
    BY <1>0, <1>s, <2>1, <2>3 DEF SlotInv
  <2>6. CallInv(t)'
    BY <1>0, <2>1, <2>2, <2>3 DEF CallInv, InCall, Call, Reached
  <2> QED
    BY <2>1, <2>3, <2>4, <2>5, <2>6, CallerKeeps DEF Unanswered
<1>9. CASE WakeSpuriously(t) \/ TimeOut(t)
  BY <1>9 DEF WakeSpuriously, TimeOut, Patient
<1>10. CASE Free(t)
  <2>1. /\ pc[t] \in {"free_ok", "free_timeout", "free_failed"} /\ ind.at = 0 /\ InCall(t)
        /\ pc' = [pc EXCEPT ![t] = "idle"] /\ sel' = [sel EXCEPT ![t] = 0]
        /\ status' = [status EXCEPT ![t] = StatusOf(pc[t])]
        /\ slotInUse' = [slotInUse EXCEPT ![sel[t]] = FALSE]
        /\ slots' = [slots EXCEPT ![sel[t]] = FreeSlot]
        /\ UNCHANGED <<signalled, calls, args, copied, air, ind>>
    BY <1>10 DEF Free, Return, Goto, MutexFree, InCall
  <2>2. /\ slots'[sel[t]] = FreeSlot /\ pc'[t] = "idle" /\ status'[t] = StatusOf(pc[t])
        /\ \A s \in Slots \ {sel[t]} : slots'[s] = slots[s] /\ (slotInUse'[s] <=> slotInUse[s])
    BY <1>0, <1>s, <2>1 DEF TypeOK
  <2>3. sel[t] \notin signalled
    BY <1>0, <2>1 DEF CallInv
  <2>4. \A u \in Threads \ {t} : Same(u)
    BY <1>0, <2>1, <2>2, OthersSame DEF TypeOK
  <2>5. SlotInv'
    BY <1>0, <1>s, <2>1, <2>2, <2>3 DEF SlotInv
  <2>6. status'[t] = "SUCCESS" => Reached(t)
    BY <2>1, <2>2 DEF StatusOf, Reached
  <2>7. CallInv(t)'
    BY <1>0, <2>1, <2>2, <2>6 DEF CallInv, InCall, Call, Reached
  <2> QED
    BY <2>1, <2>4, <2>5, <2>7, CallerKeeps DEF Unanswered
<1> QED
  BY <1>1, <1>2, <1>3, <1>4, <1>5, <1>6, <1>7, <1>8, <1>9, <1>10 DEF Caller

\* A step of the indication thread, seen from the callers: only the call whose
\* answer it carries may see anything of it.
LEMMA IndStartStep ==
  ASSUME AnswerInv, NEW r \in air, IndStart(r)
  PROVE  CallsInv'
<1> USE LocSyncReqAssumption
<1>0. TypeOK /\ SlotInv
  BY DEF AnswerInv, IInv, TypeInv, CallsInv
<1>1. /\ UNCHANGED <<slots, slotInUse, signalled, pc, sel, calls, args, status, copied>>
      /\ air' = air \ {r}
      /\ (ind' = ind /\ ind.at = 0) \/ ind' = At(1, FALSE, FALSE, r)
  BY DEF IndStart, slotVars, callerVars, MutexFree
<1>2. \A u \in Threads : Same(u)
  BY <1>1 DEF Same
<1>3. \A u \in Threads : /\ CallInv(u)' /\ (Unanswered(u)' <=> Unanswered(u))
                         /\ Call(u)' = Call(u)
  BY <1>2, SameKeeps DEF AnswerInv, CallsInv
<1>4. \A q \in air : \E u \in Threads : q.key = args[u].key /\ q.call = Call(u) /\ Unanswered(u)
  BY DEF AnswerInv, CallsInv, AirInv
<1>5. \A q \in air' : q.call # r.call
  <2> SUFFICES ASSUME NEW q \in air, q # r, q.call = r.call PROVE FALSE
    BY <1>1
  <2>1. PICK u \in Threads : q.key = args[u].key /\ q.call = Call(u)
    BY <1>4
  <2>2. PICK v \in Threads : r.key = args[v].key /\ r.call = Call(v)
    BY <1>4
  <2>3. Call(u) = Call(v)
    BY <2>1, <2>2
  <2>5. u = v
    BY <2>3 DEF Call
  <2>4. q = [key |-> q.key, call |-> q.call] /\ r = [key |-> r.key, call |-> r.call]
    BY <1>0 DEF TypeOK
  <2> QED
    BY <2>1, <2>2, <2>4, <2>5
<1>6. PICK t \in Threads : r.key = args[t].key /\ r.call = Call(t) /\ Unanswered(t)
  BY <1>4
<1>7. ind'.at # 0 => ind'.key = r.key /\ ind'.call = r.call
  BY <1>1 DEF At
<1>8. AirInv'
  <2>1. \A q \in air' : \E u \in Threads : q.key = args'[u].key /\ q.call = Call(u)' /\ Unanswered(u)'
    BY <1>1, <1>3, <1>4
  <2>2. ind'.at # 0 => /\ ind'.key = args'[t].key /\ ind'.call = Call(t)'
                       /\ pc'[t] \in {"wait", "blocked", "free_ok"}
                       /\ Unanswered(t)' /\ \A q \in air' : q.call # ind'.call
    BY <1>1, <1>3, <1>5, <1>6, <1>7 DEF Unanswered
  <2> QED
    BY <2>1, <2>2 DEF AirInv
<1>9. SlotInv'
  BY <1>0, <1>1 DEF SlotInv
<1> QED
  BY <1>3, <1>8, <1>9 DEF CallsInv

LEMMA IndLoopStep ==
  ASSUME AnswerInv, IndLoop, Distinct
  PROVE  CallsInv'
<1> USE LocSyncReqAssumption
<1>0. IInv /\ TypeOK /\ SlotInv /\ AirInv /\ IndInv /\ \A u \in Threads : CallInv(u)
  BY DEF AnswerInv, IInv, TypeInv, CallsInv
<1>1. CASE IndEnd
  <2>1. /\ UNCHANGED <<slots, slotInUse, signalled, pc, sel, calls, args, status, copied, air>>
        /\ ind'.at = 0
    BY <1>1, IdleType DEF IndEnd, callerVars
  <2>2. \A u \in Threads : Same(u)
    BY <2>1 DEF Same
  <2>3. \A u \in Threads : /\ CallInv(u)' /\ (Unanswered(u)' <=> Unanswered(u))
                           /\ Call(u)' = Call(u)
    BY <1>0, <2>2, SameKeeps
  <2>4. AirInv' /\ SlotInv'
    BY <1>0, <2>1, <2>3 DEF AirInv, SlotInv
  <2> QED
    BY <2>3, <2>4 DEF CallsInv
<1> SUFFICES ASSUME IndSkip \/ IndMatch PROVE CallsInv'
  BY <1>1 DEF IndLoop
<1> DEFINE s == ind.at
<1>2. /\ s \in Slots /\ s # 0 /\ s \in Nat
      /\ ind'.at = s + 1 /\ ind'.key = ind.key /\ ind'.call = ind.call
      /\ UNCHANGED <<slotInUse, pc, sel, calls, args, status, air>>
  BY DEF IndSkip, IndMatch, At, callerVars, slotVars, Slots
<1>3. PICK t \in Threads : /\ ind.key = args[t].key /\ ind.call = Call(t)
                           /\ pc[t] \in {"wait", "blocked", "free_ok"}
                           /\ s <= sel[t] => Unanswered(t)
                           /\ \A r \in air : r.call # ind.call
  BY <1>0, <1>2 DEF AirInv
<1>4. sel[t] \in Slots /\ sel[t] \in Nat /\ InCall(t)
  BY <1>0, <1>3 DEF InCall, IInv, OwnerInv, Slots
<1>5. CASE IndSkip
  <2>1. UNCHANGED <<slots, signalled, copied>>
    BY <1>5 DEF IndSkip, slotVars, callerVars
  <2>2. \A u \in Threads : Same(u)
    BY <1>2, <2>1 DEF Same
  <2>3. \A u \in Threads : /\ CallInv(u)' /\ (Unanswered(u)' <=> Unanswered(u))
                           /\ Call(u)' = Call(u)
    BY <1>0, <2>2, SameKeeps
  <2>4. s + 1 <= sel[t] => s <= sel[t]
    BY <1>2, <1>4
  <2>5. AirInv' /\ SlotInv'
    BY <1>0, <1>2, <1>3, <2>1, <2>3, <2>4 DEF AirInv, SlotInv
  <2> QED
    BY <2>3, <2>5 DEF CallsInv
<1>6. CASE IndMatch
  <2>1. slotInUse[s] /\ slots[s].key = ind.key /\ ind.key \in Keys
    BY <1>0, <1>2, <1>6 DEF IndMatch, SlotMatches, IndInv
  <2>2. PICK u \in Threads : Holds(u, s)
    BY <1>0, <1>2, <2>1 DEF IInv, OwnerInv
  <2>3. u = t /\ s = sel[t]
    <3>1. sel[u] = s /\ InCall(u) /\ CallInv(u) /\ CallInv(t)
      BY <1>0, <2>2 DEF Holds, InCall
    <3>2. slots[s] # FreeSlot
      BY <2>1 DEF FreeSlot
    <3>3. args[u].key = ind.key /\ args[u].key \in KeysOf[u]
      BY <2>1, <3>1, <3>2 DEF CallInv, InCall
    <3>4. args[t].key \in KeysOf[t]
      BY <1>3, <3>1 DEF CallInv
    <3> QED
      BY <1>3, <3>1, <3>3, <3>4 DEF Distinct
  <2>4. Unanswered(t) /\ CallInv(t) /\ t \in Threads
    BY <1>0, <1>2, <1>3, <2>3
  <2>5. slots[s].buf = args[t].buf /\ (args[t].buf = Call(t) \/ args[t].buf = NoBuf)
        /\ (slots[s].waiting <=> pc[t] = "blocked")
    BY <1>0, <1>3, <1>4, <2>3, <2>4 DEF CallInv, IInv, BufInv
  <2>6. copied' = IF args[t].buf = NoBuf THEN copied
                  ELSE [copied EXCEPT ![t] = @ \cup {Call(t)}]
    <3>1. copied' = IF slots[s].buf = NoBuf THEN copied
                    ELSE [copied EXCEPT ![slots[s].buf[1]] = @ \cup {ind.call}]
      BY <1>6 DEF IndMatch
    <3>2. Call(t)[1] = t
      BY DEF Call
    <3> QED
      BY <1>3, <2>5, <3>1, <3>2
  <2>7. copied'[t] \subseteq {Call(t)} /\ (args[t].buf # NoBuf => copied'[t] # {})
    BY <1>0, <2>4, <2>6 DEF CallInv, TypeOK
  <2>8. \/ slots[s].waiting /\ signalled' = signalled \cup {s} /\ slots' = slots
        \/ ~slots[s].waiting /\ slots' = [slots EXCEPT ![s] = Arrived(slots[s])] /\ signalled' = signalled
    BY <1>6 DEF IndMatch
  <2> DEFINE new == Arrived(slots[s])
  <2>9. new.key = slots[s].key /\ new.buf = slots[s].buf
        /\ new.waiting = slots[s].waiting /\ new.arrived
    BY DEF Arrived
  <2> HIDE DEF new
  <2>10. \A q \in Slots \ {s} : slots'[q] = slots[q] /\ (q \in signalled' <=> q \in signalled)
    BY <1>0, <1>2, <2>8 DEF TypeOK
  <2>11. \/ slots[s].waiting /\ s \in signalled' /\ slots'[s] = slots[s]
         \/ ~slots[s].waiting /\ slots'[s] = new /\ (s \in signalled' <=> s \in signalled)
    BY <1>0, <1>2, <2>8 DEF TypeOK, new
  <2>12. \A v \in Threads \ {t} : copied'[v] = copied[v]
    BY <1>0, <2>6 DEF TypeOK
  <2>13. \A v \in Threads \ {t} : Same(v)
    BY <1>2, <1>4, <2>3, <2>10, <2>12, OthersSame
  <2>14. \A v \in Threads \ {t} : /\ CallInv(v)' /\ (Unanswered(v)' <=> Unanswered(v))
                                  /\ Call(v)' = Call(v)
    BY <1>0, <2>13, SameKeeps
  <2>15. CallInv(t)'
    <3>1. /\ pc'[t] = pc[t] /\ args'[t] = args[t] /\ sel'[t] = s /\ Call(t)' = Call(t)
          /\ (InCall(t)' <=> InCall(t)) /\ pc[t] \in {"wait", "blocked"}
      BY <1>2, <2>3, <2>4 DEF Call, InCall, Unanswered
    <3>2. /\ slots'[s].key = slots[s].key /\ slots'[s].buf = slots[s].buf
          /\ slots'[s].waiting <=> slots[s].waiting
      BY <2>9, <2>11
    <3>3. slots'[s].arrived => pc[t] = "wait"
      BY <2>3, <2>4, <2>5, <2>11, <3>1 DEF Unanswered
    <3>4. s \in signalled' => pc[t] = "blocked"
      BY <2>3, <2>4, <2>5, <2>11 DEF Unanswered
    <3> QED
      BY <1>4, <2>3, <2>4, <2>5, <2>7, <3>1, <3>2, <3>3, <3>4 DEF CallInv
  <2>16. SlotInv'
    BY <1>0, <1>2, <2>1, <2>10 DEF SlotInv
  <2>17. AirInv'
    <3>1. ASSUME NEW r \in air
          PROVE  \E v \in Threads : r.key = args'[v].key /\ r.call = Call(v)' /\ Unanswered(v)'
      <4>1. PICK v \in Threads : r.key = args[v].key /\ r.call = Call(v) /\ Unanswered(v)
        BY <1>0 DEF AirInv
      <4>2. v # t
        BY <1>3, <4>1
      <4> QED
        BY <1>2, <2>14, <4>1, <4>2
    <3>2. /\ ind'.key = args'[t].key /\ ind'.call = Call(t)'
          /\ pc'[t] \in {"wait", "blocked", "free_ok"}
          /\ ~(ind'.at <= sel'[t]) /\ \A r \in air' : r.call # ind'.call
      BY <1>2, <1>3, <1>4, <2>3 DEF Call
    <3> QED
      BY <1>2, <3>1, <3>2 DEF AirInv
  <2> QED
    BY <2>14, <2>15, <2>16, <2>17 DEF CallsInv
<1> QED
  BY <1>5, <1>6

(***************************************************************************)
(* With a slot for every caller, callers that ask for different keys and   *)
(* waits that end only when signalled, loc_sync_send_req gives each call   *)
(* its own answer and no other, and eLOC_CLIENT_SUCCESS means that the     *)
(* payload was copied - also when sends fail, and whether the indication   *)
(* came before or after the caller began to wait.                          *)
(***************************************************************************)
THEOREM SuccessIsAnswered ==
  ASSUME ~Timeouts, ~Spurious,
         \A t, u \in Threads : t # u => KeysOf[t] \cap KeysOf[u] = {},
         IsFiniteSet(Threads), Cardinality(Threads) <= NSlots
  PROVE  Spec => []SuccessMeansAnswered
<1>0. Patient /\ Distinct
  BY DEF Patient, Distinct
<1>1. Init => AnswerInv
  BY TypeInit, OwnerInit, AnswerInit DEF IInv, AnswerInv
<1>2. AnswerInv /\ [Next]_vars => AnswerInv'
  <2> SUFFICES ASSUME AnswerInv, [Next]_vars PROVE AnswerInv'
    OBVIOUS
  <2>1. IInv'
    BY TypeStep, OwnerStep DEF IInv, AnswerInv
  <2>2. ASSUME NEW t \in Threads, Caller(t) PROVE CallsInv'
    BY <1>0, <2>1, <2>2, CallerStep
  <2>3. ASSUME NEW r \in air, IndStart(r) PROVE CallsInv'
    BY <2>3, IndStartStep
  <2>4. CASE IndLoop
    BY <1>0, <2>1, <2>4, IndLoopStep DEF AnswerInv
  <2>5. CASE UNCHANGED vars
    <3>1. \A u \in Threads : Same(u)
      BY <2>5 DEF vars, Same
    <3>2. \A u \in Threads : CallInv(u)' /\ (Unanswered(u)' <=> Unanswered(u)) /\ Call(u)' = Call(u)
      BY <3>1, SameKeeps DEF AnswerInv, CallsInv
    <3> QED
      BY <2>1, <2>5, <3>2 DEF vars, AnswerInv, CallsInv, SlotInv, AirInv
  <2> QED
    BY <2>1, <2>2, <2>3, <2>4, <2>5 DEF Next, Finished, AnswerInv
<1>3. AnswerInv => SuccessMeansAnswered
  BY DEF AnswerInv, CallsInv, CallInv, SuccessMeansAnswered
<1> QED
  BY <1>1, <1>2, <1>3, PTL DEF Spec
=============================================================================
