-------------------------- MODULE LocClientProofs --------------------------
(***************************************************************************)
(* Theorems about LocClient, for any number of callback data blocks, any   *)
(* retry limit, any step that fails and callbacks that run at any time.    *)
(***************************************************************************)
EXTENDS LocClient, TLAPS

Between   == {"closed", "calloc", "failed"}   \* the thread has no block
Connected == {"error_cb", "user_handle", "me", "register", "callbacks", "cookie", "open",
              "close", "undo"}
Complete  == {"cookie", "open", "close"}      \* the callbacks are set
Labels    == {"idle", "check", "load", "recheck", "call", "running", "late"}  \* of cb.pc

\* Blocks that are still to be allocated have no client.
FreshInv == \A d \in Data : d > cur => qmi[d] = "none"

\* What the client's thread knows about its block at each of its steps.
BlockInv ==
  lcPc \notin Between =>
    /\ cur \in allocated
    /\ qmi[cur] = IF lcPc = "connect" THEN "none"
                  ELSE IF lcPc \in Connected THEN "connected" ELSE "released"
    /\ lcPc \in {"register", "callbacks", "undo"} \cup Complete => handle = cur
    /\ lcPc \in {"connect", "error_cb", "user_handle"} => fields[cur] = {}
    /\ lcPc = "me" => fields[cur] = {"userHandle"}
    /\ lcPc \in {"register", "callbacks", "undo"} => fields[cur] = {"userHandle", "pMe"}
    /\ lcPc = "cookie" => fields[cur] = {"userHandle", "pMe", "callbacks"}
    /\ lcPc \in {"open", "close"} => fields[cur] = DataFields

\* A callback runs for a client that was connected, and that may have been
\* released since.
CallbackInv == cb.pc # "idle" => cb.of \in Data /\ qmi[cb.of] # "none"

IInv == LcTypeOK /\ FreshInv /\ NothingLeft /\ BlockInv /\ CallbackInv
-----------------------------------------------------------------------------
LEMMA ClientInit == LcInit => IInv
<1> SUFFICES ASSUME LcInit PROVE IInv
  OBVIOUS
<1>1. LcTypeOK
  BY LocClientAssumption DEF LcInit, LcTypeOK, CbAt, NoCallback, Data, DataFields
<1>2. FreshInv /\ BlockInv /\ CallbackInv
  BY DEF LcInit, FreshInv, BlockInv, Between, CallbackInv, CbAt, NoCallback
<1>3. NothingLeft
  BY DEF LcInit, NothingLeft
<1> QED
  BY <1>1, <1>2, <1>3 DEF IInv

\* One step of the client's thread.
LEMMA ThreadStep == ASSUME IInv, Open \/ Opening \/ Close \/ Closing PROVE IInv'
<1> USE LocClientAssumption DEF IInv, Data, data, Delivers
<1>1. CASE Open
  <2>1. LcTypeOK'
    BY <1>1 DEF Open, LcTypeOK, BlockInv, Between, DataFields
  <2>2. FreshInv'
    BY <1>1 DEF Open, LcTypeOK, FreshInv, BlockInv, Between
  <2>3. NothingLeft'
    BY <1>1 DEF Open, LcTypeOK, FreshInv, NothingLeft, BlockInv, Between, Connected, Complete, DataFields
  <2>4. BlockInv'
    BY <1>1 DEF Open, LcTypeOK, FreshInv, NothingLeft, BlockInv, Between, Connected, Complete, DataFields
  <2>5. CallbackInv'
    BY <1>1 DEF Open, LcTypeOK, FreshInv, BlockInv, CallbackInv, Between, Connected, Complete
  <2> QED
    BY <2>1, <2>2, <2>3, <2>4, <2>5
<1>2. CASE Calloc
  <2>1. LcTypeOK'
    BY <1>2 DEF Calloc, LcTypeOK, BlockInv, Between, DataFields
  <2>2. FreshInv'
    BY <1>2 DEF Calloc, LcTypeOK, FreshInv, BlockInv, Between
  <2>3. NothingLeft'
    BY <1>2 DEF Calloc, LcTypeOK, FreshInv, NothingLeft, BlockInv, Between, Connected, Complete, DataFields
  <2>4. BlockInv'
    BY <1>2 DEF Calloc, LcTypeOK, FreshInv, NothingLeft, BlockInv, Between, Connected, Complete, DataFields
  <2>5. CallbackInv'
    BY <1>2 DEF Calloc, LcTypeOK, FreshInv, BlockInv, CallbackInv, Between, Connected, Complete
  <2> QED
    BY <2>1, <2>2, <2>3, <2>4, <2>5
<1>3. CASE Connect
  <2>1. LcTypeOK'
    BY <1>3 DEF Connect, LcTypeOK, BlockInv, Between, DataFields
  <2>2. FreshInv'
    BY <1>3 DEF Connect, LcTypeOK, FreshInv, BlockInv, Between
  <2>3. NothingLeft'
    BY <1>3 DEF Connect, LcTypeOK, FreshInv, NothingLeft, BlockInv, Between, Connected, Complete, DataFields
  <2>4. BlockInv'
    BY <1>3 DEF Connect, LcTypeOK, FreshInv, NothingLeft, BlockInv, Between, Connected, Complete, DataFields
  <2>5. CallbackInv'
    BY <1>3 DEF Connect, LcTypeOK, FreshInv, BlockInv, CallbackInv, Between, Connected, Complete
  <2> QED
    BY <2>1, <2>2, <2>3, <2>4, <2>5
<1>4. CASE ConnectFail
  <2>1. LcTypeOK'
    BY <1>4 DEF ConnectFail, Release, LcTypeOK, BlockInv, Between, DataFields
  <2>2. FreshInv'
    BY <1>4 DEF ConnectFail, Release, LcTypeOK, FreshInv, BlockInv, Between
  <2>3. NothingLeft'
    BY <1>4 DEF ConnectFail, Release, LcTypeOK, FreshInv, NothingLeft, BlockInv, Between, Connected, Complete, DataFields
  <2>4. BlockInv'
    BY <1>4 DEF ConnectFail, Release, LcTypeOK, FreshInv, NothingLeft, BlockInv, Between, Connected, Complete, DataFields
  <2>5. CallbackInv'
    BY <1>4 DEF ConnectFail, Release, LcTypeOK, FreshInv, BlockInv, CallbackInv, Between, Connected, Complete
  <2> QED
    BY <2>1, <2>2, <2>3, <2>4, <2>5
<1>5. CASE RegisterErrorCb
  <2>1. LcTypeOK'
    BY <1>5 DEF RegisterErrorCb, LcTypeOK, BlockInv, Between, DataFields
  <2>2. FreshInv'
    BY <1>5 DEF RegisterErrorCb, LcTypeOK, FreshInv, BlockInv, Between
  <2>3. NothingLeft'
    BY <1>5 DEF RegisterErrorCb, LcTypeOK, FreshInv, NothingLeft, BlockInv, Between, Connected, Complete, DataFields
  <2>4. BlockInv'
    BY <1>5 DEF RegisterErrorCb, LcTypeOK, FreshInv, NothingLeft, BlockInv, Between, Connected, Complete, DataFields
  <2>5. CallbackInv'
    BY <1>5 DEF RegisterErrorCb, LcTypeOK, FreshInv, BlockInv, CallbackInv, Between, Connected, Complete
  <2> QED
    BY <2>1, <2>2, <2>3, <2>4, <2>5
<1>6. CASE SetUserHandle
  <2>1. LcTypeOK'
    BY <1>6 DEF SetUserHandle, Set, LcTypeOK, BlockInv, Between, DataFields
  <2>2. FreshInv'
    BY <1>6 DEF SetUserHandle, Set, LcTypeOK, FreshInv, BlockInv, Between
  <2>3. NothingLeft'
    BY <1>6 DEF SetUserHandle, Set, LcTypeOK, FreshInv, NothingLeft, BlockInv, Between, Connected, Complete, DataFields
  <2>4. BlockInv'
    BY <1>6 DEF SetUserHandle, Set, LcTypeOK, FreshInv, NothingLeft, BlockInv, Between, Connected, Complete, DataFields
  <2>5. CallbackInv'
    BY <1>6 DEF SetUserHandle, Set, LcTypeOK, FreshInv, BlockInv, CallbackInv, Between, Connected, Complete
  <2> QED
    BY <2>1, <2>2, <2>3, <2>4, <2>5
<1>7. CASE SetMe
  <2>1. LcTypeOK'
    BY <1>7 DEF SetMe, Set, LcTypeOK, BlockInv, Between, DataFields
  <2>2. FreshInv'
    BY <1>7 DEF SetMe, Set, LcTypeOK, FreshInv, BlockInv, Between
  <2>3. NothingLeft'
    BY <1>7 DEF SetMe, Set, LcTypeOK, FreshInv, NothingLeft, BlockInv, Between, Connected, Complete, DataFields
  <2>4. BlockInv'
    BY <1>7 DEF SetMe, Set, LcTypeOK, FreshInv, NothingLeft, BlockInv, Between, Connected, Complete, DataFields
  <2>5. CallbackInv'
    BY <1>7 DEF SetMe, Set, LcTypeOK, FreshInv, BlockInv, CallbackInv, Between, Connected, Complete
  <2> QED
    BY <2>1, <2>2, <2>3, <2>4, <2>5
<1>8. CASE RegisterMask
  <2>1. LcTypeOK'
    BY <1>8 DEF RegisterMask, LcTypeOK, BlockInv, Between, DataFields
  <2>2. FreshInv'
    BY <1>8 DEF RegisterMask, LcTypeOK, FreshInv, BlockInv, Between
  <2>3. NothingLeft'
    BY <1>8 DEF RegisterMask, LcTypeOK, FreshInv, NothingLeft, BlockInv, Between, Connected, Complete, DataFields
  <2>4. BlockInv'
    BY <1>8 DEF RegisterMask, LcTypeOK, FreshInv, NothingLeft, BlockInv, Between, Connected, Complete, DataFields
  <2>5. CallbackInv'
    BY <1>8 DEF RegisterMask, LcTypeOK, FreshInv, BlockInv, CallbackInv, Between, Connected, Complete
  <2> QED
    BY <2>1, <2>2, <2>3, <2>4, <2>5
<1>9. CASE SetCallbacks
  <2>1. LcTypeOK'
    BY <1>9 DEF SetCallbacks, Set, LcTypeOK, BlockInv, Between, DataFields
  <2>2. FreshInv'
    BY <1>9 DEF SetCallbacks, Set, LcTypeOK, FreshInv, BlockInv, Between
  <2>3. NothingLeft'
    BY <1>9 DEF SetCallbacks, Set, LcTypeOK, FreshInv, NothingLeft, BlockInv, Between, Connected, Complete, DataFields
  <2>4. BlockInv'
    BY <1>9 DEF SetCallbacks, Set, LcTypeOK, FreshInv, NothingLeft, BlockInv, Between, Connected, Complete, DataFields
  <2>5. CallbackInv'
    BY <1>9 DEF SetCallbacks, Set, LcTypeOK, FreshInv, BlockInv, CallbackInv, Between, Connected, Complete
  <2> QED
    BY <2>1, <2>2, <2>3, <2>4, <2>5
<1>10. CASE SetCookie
  <2>1. LcTypeOK'
    BY <1>10 DEF SetCookie, Set, LcTypeOK, BlockInv, Between, DataFields
  <2>2. FreshInv'
    BY <1>10 DEF SetCookie, Set, LcTypeOK, FreshInv, BlockInv, Between
  <2>3. NothingLeft'
    BY <1>10 DEF SetCookie, Set, LcTypeOK, FreshInv, NothingLeft, BlockInv, Between, Connected, Complete, DataFields
  <2>4. BlockInv'
    BY <1>10 DEF SetCookie, Set, LcTypeOK, FreshInv, NothingLeft, BlockInv, Between, Connected, Complete, DataFields
  <2>5. CallbackInv'
    BY <1>10 DEF SetCookie, Set, LcTypeOK, FreshInv, BlockInv, CallbackInv, Between, Connected, Complete
  <2> QED
    BY <2>1, <2>2, <2>3, <2>4, <2>5
<1>11. CASE GiveUp
  <2>1. LcTypeOK'
    BY <1>11 DEF GiveUp, LcTypeOK, BlockInv, Between, DataFields
  <2>2. FreshInv'
    BY <1>11 DEF GiveUp, LcTypeOK, FreshInv, BlockInv, Between
  <2>3. NothingLeft'
    BY <1>11 DEF GiveUp, LcTypeOK, FreshInv, NothingLeft, BlockInv, Between, Connected, Complete, DataFields
  <2>4. BlockInv'
    BY <1>11 DEF GiveUp, LcTypeOK, FreshInv, NothingLeft, BlockInv, Between, Connected, Complete, DataFields
  <2>5. CallbackInv'
    BY <1>11 DEF GiveUp, LcTypeOK, FreshInv, BlockInv, CallbackInv, Between, Connected, Complete
  <2> QED
    BY <2>1, <2>2, <2>3, <2>4, <2>5
<1>12. CASE Close
  <2>1. LcTypeOK'
    BY <1>12 DEF Close, LcTypeOK, BlockInv, Between, DataFields
  <2>2. FreshInv'
    BY <1>12 DEF Close, LcTypeOK, FreshInv, BlockInv, Between
  <2>3. NothingLeft'
    BY <1>12 DEF Close, LcTypeOK, FreshInv, NothingLeft, BlockInv, Between, Connected, Complete, DataFields
  <2>4. BlockInv'
    BY <1>12 DEF Close, LcTypeOK, FreshInv, NothingLeft, BlockInv, Between, Connected, Complete, DataFields
  <2>5. CallbackInv'
    BY <1>12 DEF Close, LcTypeOK, FreshInv, BlockInv, CallbackInv, Between, Connected, Complete
  <2> QED
    BY <2>1, <2>2, <2>3, <2>4, <2>5
<1>13. CASE QmiRelease
  <2>1. LcTypeOK'
    BY <1>13 DEF QmiRelease, LcTypeOK, BlockInv, Between, DataFields
  <2>2. FreshInv'
    BY <1>13 DEF QmiRelease, LcTypeOK, FreshInv, BlockInv, Between
  <2>3. NothingLeft'
    BY <1>13 DEF QmiRelease, LcTypeOK, FreshInv, NothingLeft, BlockInv, Between, Connected, Complete, DataFields
  <2>4. BlockInv'
    BY <1>13 DEF QmiRelease, LcTypeOK, FreshInv, NothingLeft, BlockInv, Between, Connected, Complete, DataFields
  <2>5. CallbackInv'
    BY <1>13 DEF QmiRelease, LcTypeOK, NothingLeft, BlockInv, CallbackInv, Between, Connected, Complete
  <2> QED
    BY <2>1, <2>2, <2>3, <2>4, <2>5
<1>14. CASE QmiReleaseFail
  <2>1. LcTypeOK'
    BY <1>14 DEF QmiReleaseFail, LcTypeOK, BlockInv, Between, DataFields
  <2>2. FreshInv'
    BY <1>14 DEF QmiReleaseFail, LcTypeOK, FreshInv, BlockInv, Between
  <2>3. NothingLeft'
    BY <1>14 DEF QmiReleaseFail, LcTypeOK, FreshInv, NothingLeft, BlockInv, Between, Connected, Complete, DataFields
  <2>4. BlockInv'
    BY <1>14 DEF QmiReleaseFail, LcTypeOK, FreshInv, NothingLeft, BlockInv, Between, Connected, Complete, DataFields
  <2>5. CallbackInv'
    BY <1>14 DEF QmiReleaseFail, LcTypeOK, NothingLeft, BlockInv, CallbackInv, Between, Connected, Complete
  <2> QED
    BY <2>1, <2>2, <2>3, <2>4, <2>5
<1>15. CASE ClearData
  <2>1. LcTypeOK'
    BY <1>15 DEF ClearData, Clear, LcTypeOK, BlockInv, Between, DataFields
  <2>2. FreshInv'
    BY <1>15 DEF ClearData, Clear, LcTypeOK, FreshInv, BlockInv, Between
  <2>3. NothingLeft'
    BY <1>15 DEF ClearData, Clear, LcTypeOK, FreshInv, NothingLeft, BlockInv, Between, Connected, Complete, DataFields
  <2>4. BlockInv'
    BY <1>15 DEF ClearData, Clear, LcTypeOK, FreshInv, NothingLeft, BlockInv, Between, Connected, Complete, DataFields
  <2>5. CallbackInv'
    BY <1>15 DEF ClearData, Clear, LcTypeOK, FreshInv, BlockInv, CallbackInv, Between, Connected, Complete
  <2> QED
    BY <2>1, <2>2, <2>3, <2>4, <2>5
<1>16. CASE FreeData
  <2>1. LcTypeOK'
    BY <1>16 DEF FreeData, Release, LcTypeOK, BlockInv, Between, DataFields
  <2>2. FreshInv'
    BY <1>16 DEF FreeData, Release, LcTypeOK, FreshInv, BlockInv, Between
  <2>3. NothingLeft'
    BY <1>16 DEF FreeData, Release, LcTypeOK, FreshInv, NothingLeft, BlockInv, Between, Connected, Complete, DataFields
  <2>4. BlockInv'
    BY <1>16 DEF FreeData, Release, LcTypeOK, FreshInv, NothingLeft, BlockInv, Between, Connected, Complete, DataFields
  <2>5. CallbackInv'
    BY <1>16 DEF FreeData, Release, LcTypeOK, FreshInv, BlockInv, CallbackInv, Between, Connected, Complete
  <2> QED
    BY <2>1, <2>2, <2>3, <2>4, <2>5
<1>17. CASE CallocFail
  <2>1. LcTypeOK'
    BY <1>17 DEF CallocFail, LcTypeOK, BlockInv, Between, DataFields
  <2>2. FreshInv'
    BY <1>17 DEF CallocFail, LcTypeOK, FreshInv, BlockInv, Between
  <2>3. NothingLeft'
    BY <1>17 DEF CallocFail, LcTypeOK, FreshInv, NothingLeft, BlockInv, Between, Connected, Complete, DataFields
  <2>4. BlockInv'
    BY <1>17 DEF CallocFail, LcTypeOK, FreshInv, NothingLeft, BlockInv, Between, Connected, Complete, DataFields
  <2>5. CallbackInv'
    BY <1>17 DEF CallocFail, LcTypeOK, FreshInv, BlockInv, CallbackInv, Between, Connected, Complete
  <2> QED
    BY <2>1, <2>2, <2>3, <2>4, <2>5
<1> QED
  BY <1>1, <1>2, <1>3, <1>4, <1>5, <1>6, <1>7, <1>8, <1>9, <1>10, <1>11, <1>12, <1>13, <1>14, <1>15, <1>16, <1>17 DEF Opening, Closing

\* One step of the callback thread leaves the client alone.
LEMMA CallbackStep == ASSUME IInv, Callback \/ Arrives PROVE IInv'
<1>1. CbOnly
  BY DEF Callback, Arrives, IndArrives, ErrorArrives, IndCheck, CbLoad, CbRecheck, CbCall, CbReturn
<1>2. (FreshInv /\ NothingLeft /\ BlockInv)'
  BY <1>1 DEF IInv, CbOnly, data, FreshInv, NothingLeft, BlockInv
<1>3. SUFFICES LcTypeOK' /\ CallbackInv'
  BY <1>2 DEF IInv
<1> USE DEF IInv
<1>4. /\ cb.pc \in Labels /\ cb.of \in 0..NData /\ cb.kind \in {"ind", "error"}
      /\ \A l \in Labels, d \in 0..NData, k \in {"ind", "error"} : cb' = CbAt(l, d, k) =>
           LcTypeOK' /\ cb'.pc = l /\ cb'.of = d
  BY <1>1 DEF LcTypeOK, CbOnly, data, CbAt, Labels
<1>5. cb' = NoCallback => LcTypeOK' /\ CallbackInv'
  BY <1>4, LocClientAssumption DEF NoCallback, CallbackInv, Labels
<1>7. CASE Arrives
  <2>1. PICK d \in Data : /\ cb' = CbAt("check", d, "ind") \/ cb' = CbAt("load", d, "error")
                          /\ Delivers(d)
    BY <1>7 DEF Arrives, IndArrives, ErrorArrives
  <2> QED
    BY <1>1, <1>4, <2>1 DEF CbOnly, CallbackInv, Delivers, Labels, Data
<1>8. CASE Callback /\ cb' # NoCallback
  <2>1. cb.pc # "idle" /\ \E l \in Labels : CbGoto(l)
    BY <1>8 DEF Callback, IndCheck, CbLoad, CbRecheck, CbCall, CbReturn, Labels
  <2> QED
    BY <1>1, <1>4, <2>1 DEF CbGoto, CbOnly, CallbackInv, Labels
<1> QED
  BY <1>5, <1>7, <1>8

LEMMA ClientInvariant == LcSpec => []IInv
<1>1. IInv /\ [LcNext]_lcVars => IInv'
  <2> SUFFICES ASSUME IInv, [LcNext]_lcVars PROVE IInv'
    OBVIOUS
  <2>1. CASE LcNext
    BY <2>1, ThreadStep, CallbackStep DEF LcNext
  <2>2. CASE UNCHANGED lcVars
    BY <2>2 DEF lcVars, IInv, LcTypeOK, FreshInv, NothingLeft, BlockInv, CallbackInv, Delivers
  <2> QED
    BY <2>1, <2>2
<1> QED
  BY <1>1, ClientInit, PTL DEF LcSpec
-----------------------------------------------------------------------------
(***************************************************************************)
(* Every variable of LocClient keeps its type, and no more attempts to     *)
(* open are made than the limit allows.                                    *)
(***************************************************************************)
THEOREM TypeCorrect == LcSpec => []LcTypeOK
<1>1. IInv => LcTypeOK
  BY DEF IInv
<1> QED
  BY <1>1, ClientInvariant, PTL

(***************************************************************************)
(* locClientIndCb and locClientErrorCb read callback data that has been    *)
(* freed in the race of locClientClose with a running callback only: no    *)
(* failed open and no failed close frees the block of a client that still  *)
(* delivers.                                                               *)
(***************************************************************************)
THEOREM FreedOnlyWhenReleased == LcSpec => []ReadsLiveData
<1>1. IInv => ReadsLiveData
  <2> SUFFICES ASSUME IInv, cb.pc # "idle", qmi[cb.of] # "released" PROVE cb.of \in allocated
    BY DEF ReadsLiveData
  <2>1. cb.of \in Data /\ qmi[cb.of] \in {"connected", "stuck"}
    BY DEF IInv, LcTypeOK, CallbackInv
  <2> QED
    BY <2>1 DEF IInv, NothingLeft, BlockInv, Between
<1> QED
  BY <1>1, ClientInvariant, PTL

(***************************************************************************)
(* A failed locClientOpen and a locClientClose leave neither memory nor a  *)
(* connected client behind, except a client whose release failed, and an   *)
(* open handle is complete.                                                *)
(***************************************************************************)
THEOREM OpenAndCloseLeaveNothing == LcSpec => []NothingLeft
<1>1. IInv => NothingLeft
  BY DEF IInv
<1> QED
  BY <1>1, ClientInvariant, PTL
=============================================================================
