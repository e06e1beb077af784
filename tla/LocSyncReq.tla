----------------------------- MODULE LocSyncReq -----------------------------
(***************************************************************************)
(* loc_api_sync_req.c: synchronous requests to the GNSS engine on top of   *)
(* the asynchronous QMI client.  A caller takes a slot, sends its request  *)
(* and blocks on the slot's condition variable until the indication        *)
(* thread finds the slot (loc_sync_process_ind) or a timeout expires.      *)
(*                                                                         *)
(* Two locks: loc_sync_call_mutex, held by the indication thread for its   *)
(* whole loop over the slots and by callers to take and free a slot, and   *)
(* one sync_req_lock per slot, held for each access to the slot.           *)
(***************************************************************************)
EXTENDS Naturals, FiniteSets

CONSTANTS
  Threads,     \* the callers of loc_sync_send_req
  Keys,        \* what an indication is matched on: client handle and ind_id
  KeysOf,      \* the keys each caller may ask for
  NSlots,      \* LOC_SYNC_REQ_BUFFER_SIZE
  Timeouts,    \* may pthread_cond_timedwait time out?
  Spurious,    \* may pthread_cond_timedwait wake up spuriously?
  SendFails,   \* may locClientSendReq fail?
  MaxCalls,    \* bound on the calls each caller makes
  NoKey, NoBuf \* no key, and the NULL payload pointer

ASSUME LocSyncReqAssumption ==
  /\ KeysOf \in [Threads -> SUBSET Keys]
  /\ NSlots \in Nat \ {0} /\ MaxCalls \in Nat
  /\ Timeouts \in BOOLEAN /\ Spurious \in BOOLEAN /\ SendFails \in BOOLEAN
  /\ NoKey \notin Keys
  /\ NoBuf \notin Threads \X Nat

Slots == 1..NSlots

VARIABLES
  inUse,       \* loc_sync_array.in_use
  slotInUse,   \* loc_sync_array.slot_in_use
  slots,       \* key, buf (recv_ind_payload_ptr), waiting, arrived of each slot
  signalled,   \* the slots whose condition variable has woken its waiter
  pc, sel,     \* of each caller: where it is, and its select_id (0: none)
  calls,       \* of each caller: the number of calls it has begun
  args,        \* of each caller: the key and the buffer (or NULL) of its call
  status,      \* of each caller: what loc_sync_send_req returned last
  copied,      \* of each caller: the answers copied to the buffer of its call
  air,         \* requests sent whose indication is still to come
  ind          \* the indication thread: what it processes, at which slot

slotVars   == <<inUse, slotInUse, slots, signalled>>
callerVars == <<pc, sel, calls, args, status, copied>>
vars       == <<inUse, slotInUse, slots, signalled, pc, sel, calls, args,
                status, copied, air, ind>>

\* A call is named by its caller and its number; so is the stack buffer the
\* caller passes for the payload, which dies when the call returns.
Call(t) == <<t, calls[t]>>

FreeSlot == [key |-> NoKey, buf |-> NoBuf, waiting |-> FALSE, arrived |-> FALSE]
Waiting(slot, w) ==
  [key |-> slot.key, buf |-> slot.buf, waiting |-> w, arrived |-> slot.arrived]
Arrived(slot) ==
  [key |-> slot.key, buf |-> slot.buf, waiting |-> slot.waiting, arrived |-> TRUE]

\* loc_sync_process_ind at slot i, the two flags of its loop and its argument.
At(i, used, consumed, r) ==
  [at |-> i, used |-> used, consumed |-> consumed, key |-> r.key, call |-> r.call]
NoIndication      == At(0, FALSE, FALSE, [key |-> NoKey, call |-> NoBuf])
MutexFree == ind.at = 0

Init ==     \* loc_sync_req_init
  /\ inUse = FALSE
  /\ slotInUse = [s \in Slots |-> FALSE]
  /\ slots = [s \in Slots |-> FreeSlot]
  /\ signalled = {}
  /\ pc = [t \in Threads |-> "idle"]
  /\ sel = [t \in Threads |-> 0]
  /\ calls = [t \in Threads |-> 0]
  /\ args = [t \in Threads |-> [key |-> NoKey, buf |-> NoBuf]]
  /\ status = [t \in Threads |-> "none"]
  /\ copied = [t \in Threads |-> {}]
  /\ air = {}
  /\ ind = NoIndication
-----------------------------------------------------------------------------
(***************************************************************************)
(* The callers.                                                            *)
(***************************************************************************)
Goto(t, l) == pc' = [pc EXCEPT ![t] = l]

Return(t, st) ==
  /\ Goto(t, "idle")
  /\ status' = [status EXCEPT ![t] = st]

FirstFree(s) == ~slotInUse[s] /\ \A r \in Slots : r < s => slotInUse[r]

Begin(t) ==
  /\ pc[t] = "idle" /\ calls[t] < MaxCalls
  /\ calls' = [calls EXCEPT ![t] = @ + 1]
  /\ \E k \in KeysOf[t], b \in {<<t, calls[t] + 1>>, NoBuf} :
       args' = [args EXCEPT ![t] = [key |-> k, buf |-> b]]
  /\ copied' = [copied EXCEPT ![t] = {}]
  /\ status' = [status EXCEPT ![t] = "none"]
  /\ Goto(t, "alloc")
  /\ UNCHANGED <<slotVars, sel, air, ind>>

\* Mutant: the slot is chosen but not marked.
AllocUnmarked(t) ==
  /\ pc[t] = "alloc" /\ MutexFree
  /\ \E s \in Slots : FirstFree(s) /\ sel' = [sel EXCEPT ![t] = s]
  /\ inUse' = TRUE
  /\ Goto(t, "select")
  /\ UNCHANGED <<slotInUse, slots, signalled, calls, args, status, copied, air, ind>>

\* loc_alloc_slot: the first free slot.
Alloc(t) ==
  /\ pc[t] = "alloc" /\ MutexFree
  /\ \E s \in Slots : /\ FirstFree(s)
                      /\ sel' = [sel EXCEPT ![t] = s]
                      /\ slotInUse' = [slotInUse EXCEPT ![s] = TRUE]
  /\ inUse' = TRUE
  /\ Goto(t, "select")
  /\ UNCHANGED <<slots, signalled, calls, args, status, copied, air, ind>>

\* No free slot: -ENOMEM, and loc_sync_send_req returns its initial status.
BufferFull(t) ==
  /\ pc[t] = "alloc" /\ MutexFree
  /\ \A s \in Slots : slotInUse[s]
  /\ Return(t, "SUCCESS")
  /\ UNCHANGED <<slotVars, sel, calls, args, copied, air, ind>>

\* loc_sync_select_ind, under the slot's lock.
Select(t) ==
  /\ pc[t] = "select"
  /\ slots' = [slots EXCEPT ![sel[t]] = [key |-> args[t].key, buf |-> args[t].buf,
                                         waiting |-> FALSE, arrived |-> FALSE]]
  /\ Goto(t, "send")
  /\ UNCHANGED <<inUse, slotInUse, signalled, sel, calls, args, status, copied, air, ind>>

\* locClientSendReq, successful: the engine will answer in its own time.
Send(t) ==
  /\ pc[t] = "send"
  /\ air' = air \cup {[key |-> args[t].key, call |-> Call(t)]}
  /\ Goto(t, "wait")
  /\ UNCHANGED <<slotVars, sel, calls, args, status, copied, ind>>

SendFail(t) ==
  /\ pc[t] = "send" /\ SendFails
  /\ Goto(t, "free_failed")
  /\ UNCHANGED <<slotVars, sel, calls, args, status, copied, air, ind>>

\* Mutant: an indication that came before the wait is not looked for.
EnterWaitBlind(t) ==
  /\ pc[t] = "wait"
  /\ slots' = [slots EXCEPT ![sel[t]] = Waiting(@, TRUE)]
  /\ Goto(t, "blocked")
  /\ UNCHANGED <<inUse, slotInUse, signalled, sel, calls, args, status, copied, air, ind>>

\* loc_sync_wait_for_ind up to pthread_cond_timedwait.
EnterWait(t) ==
  /\ pc[t] = "wait"
  /\ \/ /\ slots[sel[t]].arrived \/ slots[sel[t]].waiting       \* 0 or -EBUSY
        /\ Goto(t, IF slots[sel[t]].arrived THEN "free_ok" ELSE "free_failed")
        /\ UNCHANGED slots
     \/ /\ ~slots[sel[t]].arrived /\ ~slots[sel[t]].waiting
        /\ slots' = [slots EXCEPT ![sel[t]] = Waiting(@, TRUE)]
        /\ Goto(t, "blocked")
  /\ UNCHANGED <<inUse, slotInUse, signalled, sel, calls, args, status, copied, air, ind>>

\* pthread_cond_timedwait returns; no test of what happened meanwhile.
WaitReturns(t, l) ==
  /\ slots' = [slots EXCEPT ![sel[t]] = Waiting(@, FALSE)]
  /\ signalled' = signalled \ {sel[t]}
  /\ Goto(t, l)
  /\ UNCHANGED <<inUse, slotInUse, sel, calls, args, status, copied, air, ind>>

Wake(t)    == pc[t] = "blocked" /\ sel[t] \in signalled /\ WaitReturns(t, "free_ok")
WakeSpuriously(t) == pc[t] = "blocked" /\ Spurious /\ WaitReturns(t, "free_ok")
TimeOut(t) == pc[t] = "blocked" /\ Timeouts /\ WaitReturns(t, "free_timeout")

StatusOf(l) == IF l = "free_ok" THEN "SUCCESS"
               ELSE IF l = "free_timeout" THEN "FAILURE_TIMEOUT" ELSE "FAILURE"

\* Mutant: a slot whose wait timed out is not freed.
FreeUnlessTimeout(t) ==
  /\ pc[t] \in {"free_ok", "free_timeout", "free_failed"} /\ MutexFree
  /\ IF pc[t] = "free_timeout" THEN UNCHANGED <<slotInUse, slots, inUse>>
     ELSE /\ slotInUse' = [slotInUse EXCEPT ![sel[t]] = FALSE]
          /\ slots' = [slots EXCEPT ![sel[t]] = FreeSlot]
          /\ inUse' = \E s \in Slots : slotInUse'[s]
  /\ sel' = [sel EXCEPT ![t] = 0]
  /\ Return(t, StatusOf(pc[t]))
  /\ UNCHANGED <<signalled, calls, args, copied, air, ind>>

\* loc_free_slot, and loc_sync_send_req returns.
Free(t) ==
  /\ pc[t] \in {"free_ok", "free_timeout", "free_failed"} /\ MutexFree
  /\ slotInUse' = [slotInUse EXCEPT ![sel[t]] = FALSE]
  /\ slots' = [slots EXCEPT ![sel[t]] = FreeSlot]
  /\ inUse' = ((\E s \in Slots : slotInUse'[s]) /\ inUse)
  /\ sel' = [sel EXCEPT ![t] = 0]
  /\ Return(t, StatusOf(pc[t]))
  /\ UNCHANGED <<signalled, calls, args, copied, air, ind>>
-----------------------------------------------------------------------------
(***************************************************************************)
(* The indication thread: loc_sync_process_ind.                            *)
(***************************************************************************)
\* The lock is taken; with no slot in use the indication is dropped.
IndStart(r) ==
  /\ MutexFree /\ r \in air
  /\ air' = air \ {r}
  /\ \/ ~inUse /\ UNCHANGED ind
     \/ inUse /\ ind' = At(1, FALSE, FALSE, r)
  /\ UNCHANGED <<slotVars, callerVars>>

SlotMatches(s) == slotInUse[s] /\ slots[s].key = ind.key /\ ~slots[s].arrived

\* Mutant: only the slots that match are seen to be in use.
IndSkipUsed ==
  LET s == ind.at IN
  /\ s \in Slots /\ ~ind.consumed
  /\ ~SlotMatches(s)
  /\ ind' = At(s + 1, ind.used, FALSE, ind)
  /\ UNCHANGED <<slotVars, callerVars, air>>

\* One turn of the loop, under the slot's lock: not the slot we look for...
IndSkip ==
  LET s == ind.at IN
  /\ s \in Slots /\ ~ind.consumed
  /\ ~SlotMatches(s)
  /\ ind' = At(s + 1, ind.used \/ slotInUse[s], FALSE, ind)
  /\ UNCHANGED <<slotVars, callerVars, air>>

\* Mutant: the payload is copied only for a caller that already waits.
IndMatchNoCopy ==
  LET s == ind.at IN
  /\ s \in Slots /\ ~ind.consumed
  /\ SlotMatches(s)
  /\ \/ /\ slots[s].waiting
        /\ signalled' = signalled \cup {s}
        /\ copied' = IF slots[s].buf = NoBuf THEN copied
                     ELSE [copied EXCEPT ![slots[s].buf[1]] = @ \cup {ind.call}]
        /\ UNCHANGED slots
     \/ /\ ~slots[s].waiting
        /\ slots' = [slots EXCEPT ![s] = Arrived(@)]
        /\ UNCHANGED <<signalled, copied>>
  /\ ind' = At(s + 1, TRUE, slots[s].buf # NoBuf, ind)
  /\ UNCHANGED <<inUse, slotInUse, pc, sel, calls, args, status, air>>

\* ... or the slot is waiting for this indication: copy the payload when
\* there is a buffer, then signal the waiter or remember for the wait.
IndMatch ==
  LET s == ind.at IN
  /\ s \in Slots /\ ~ind.consumed
  /\ SlotMatches(s)
  /\ copied' = IF slots[s].buf = NoBuf THEN copied
               ELSE [copied EXCEPT ![slots[s].buf[1]] = @ \cup {ind.call}]
  /\ \/ /\ slots[s].waiting
        /\ signalled' = signalled \cup {s}
        /\ UNCHANGED slots
     \/ /\ ~slots[s].waiting
        /\ slots' = [slots EXCEPT ![s] = Arrived(@)]
        /\ UNCHANGED signalled
  /\ ind' = At(s + 1, TRUE, slots[s].buf # NoBuf, ind)
  /\ UNCHANGED <<inUse, slotInUse, pc, sel, calls, args, status, air>>

\* After the loop: in_use is cleared when no slot was seen in use.
IndEnd ==
  /\ ind.at = NSlots + 1 \/ (ind.at # 0 /\ ind.consumed)
  /\ inUse' = (inUse /\ ind.used)
  /\ ind' = NoIndication
  /\ UNCHANGED <<slotInUse, slots, signalled, callerVars, air>>

Caller(t) ==
  \/ Begin(t) \/ Alloc(t) \/ BufferFull(t) \/ Select(t) \/ Send(t) \/ SendFail(t)
  \/ EnterWait(t) \/ Wake(t) \/ WakeSpuriously(t) \/ TimeOut(t) \/ Free(t)

IndLoop == IndSkip \/ IndMatch \/ IndEnd

Finished ==
  /\ \A t \in Threads : pc[t] = "idle" /\ calls[t] = MaxCalls
  /\ air = {} /\ MutexFree
  /\ UNCHANGED vars

Next == (\E t \in Threads : Caller(t)) \/ (\E r \in air : IndStart(r)) \/ IndLoop \/ Finished

Spec == Init /\ [][Next]_vars

\* What the scheduler owes a caller inside a call: to run, to get the mutex
\* once the indication thread leaves it alone, and to end a timed wait.
Proceed(t) ==
  \/ Alloc(t) \/ BufferFull(t) \/ Select(t) \/ Send(t) \/ SendFail(t)
  \/ EnterWait(t) \/ Wake(t) \/ TimeOut(t) \/ Free(t)

\* And the engine answers every request it was sent.
AnswerFairness ==
  /\ WF_vars(IndLoop) /\ WF_vars(\E r \in air : IndStart(r))
  /\ \A t \in Threads : WF_vars(Proceed(t))
-----------------------------------------------------------------------------
Calls == Threads \X (1..MaxCalls)

TypeOK ==
  /\ inUse \in BOOLEAN
  /\ slotInUse \in [Slots -> BOOLEAN]
  /\ slots \in [Slots -> [key : Keys \cup {NoKey}, buf : Calls \cup {NoBuf},
                          waiting : BOOLEAN, arrived : BOOLEAN]]
  /\ signalled \subseteq Slots
  /\ pc \in [Threads -> {"idle", "alloc", "select", "send", "wait", "blocked",
                         "free_ok", "free_timeout", "free_failed"}]
  /\ sel \in [Threads -> {0} \cup Slots]
  /\ calls \in [Threads -> 0..MaxCalls]
  /\ args \in [Threads -> [key : Keys \cup {NoKey}, buf : Calls \cup {NoBuf}]]
  /\ status \in [Threads -> {"none", "SUCCESS", "FAILURE_TIMEOUT", "FAILURE"}]
  /\ copied \in [Threads -> SUBSET Calls]
  /\ air \subseteq [key : Keys, call : Calls]
  /\ ind \in [at : 0..(NSlots + 1), key : Keys \cup {NoKey}, call : Calls \cup {NoBuf},
              used : BOOLEAN, consumed : BOOLEAN]

Holds(t, s) == sel[t] = s /\ pc[t] \notin {"idle", "alloc"}

(***************************************************************************)
(* loc_sync_process_ind copies a payload through recv_ind_payload_ptr: a   *)
(* slot in use never points into the stack of a call that has returned,    *)
(* also when the call timed out with its answer on the way.                *)
(***************************************************************************)
BufferAlive ==
  \A s \in Slots : slotInUse[s] /\ slots[s].buf # NoBuf =>
    \E t \in Threads : Holds(t, s) /\ slots[s].buf = Call(t)

(***************************************************************************)
(* loc_alloc_slot gives a slot to one call at a time, and a slot in use    *)
(* has an owner: no slot of the eight is ever lost.                        *)
(***************************************************************************)
OneOwner ==
  /\ \A t, u \in Threads, s \in Slots : Holds(t, s) /\ Holds(u, s) => t = u
  /\ \A s \in Slots : slotInUse[s] <=> \E t \in Threads : Holds(t, s)

(***************************************************************************)
(* in_use, which makes loc_sync_process_ind drop indications unseen, is    *)
(* set whenever a call holds a slot, although three functions write it.    *)
(***************************************************************************)
InUseCoversSlots == (\E s \in Slots : slotInUse[s]) => inUse

(***************************************************************************)
(* With requests that ask for different keys and an engine that answers in *)
(* time, a call gets its own answer and no other, whether the indication   *)
(* came before or after the caller began to wait; and a caller that is     *)
(* told eLOC_CLIENT_SUCCESS, which reads its payload buffer, has got one.  *)
(***************************************************************************)
SuccessMeansAnswered ==
  \A t \in Threads :
    /\ copied[t] \subseteq {Call(t)}
    /\ pc[t] = "idle" /\ status[t] = "SUCCESS" /\ args[t].buf # NoBuf => copied[t] # {}

(***************************************************************************)
(* "Synchronous req call (thread safe)": no call's buffer is written with  *)
(* the answers to two requests.                                            *)
(***************************************************************************)
AnsweredOnce == \A t \in Threads : Cardinality(copied[t]) <= 1

\* Every call returns: nobody waits for ever on a slot or on a lock.
CallsReturn == \A t \in Threads : pc[t] # "idle" ~> pc[t] = "idle"
=============================================================================
