------------------------------ MODULE LocClient ------------------------------
(***************************************************************************)
(* loc_api_v02_client.c: the life of a client handle.  One thread opens    *)
(* (with retries) and closes it; the callback thread of the QMI library    *)
(* runs locClientIndCb and locClientErrorCb with a bare pointer to the     *)
(* handle's callback data.  No lock protects that memory, so every read    *)
(* and write of it is a step.                                              *)
(***************************************************************************)
EXTENDS Naturals

CONSTANTS
  NData,        \* bound on the callback data blocks ever allocated
  MaxTries,     \* LOC_CLIENT_MAX_OPEN_RETRIES
  InitFails, RegisterFails, ReleaseFails \* what may fail (InitFails: calloc too)

ASSUME LocClientAssumption ==
  /\ NData \in Nat /\ MaxTries \in Nat
  /\ {InitFails, RegisterFails, ReleaseFails} \subseteq BOOLEAN

Data == 1..NData   \* callback data blocks, in the order of their calloc

VARIABLES
  allocated, \* the blocks that are allocated
  fields,    \* of each block: the fields set, userHandle, pMe, callbacks
             \* (event, response, error) and pClientCookie
  qmi,       \* of each block: the QMI client that was given its address;
             \* "stuck" once a release of it has failed
  errorCb,   \* the blocks registered with qmi_client_register_error_cb
  handle,    \* *pLocClientHandle, 0 for LOC_CLIENT_INVALID_HANDLE_VALUE
  lcPc, cur, \* the client's thread, and the block it works on
  tries,     \* of locClientOpen
  cb         \* the callback thread: its pc, block and kind

data == <<allocated, fields>>
lcVars == <<allocated, fields, qmi, errorCb, handle, lcPc, cur, tries, cb>>

DataFields == {"userHandle", "pMe", "callbacks", "pClientCookie"}
CbAt(label, d, kind) == [pc |-> label, of |-> d, kind |-> kind]
NoCallback == CbAt("idle", 0, "ind")

LcInit ==
  /\ allocated = {}
  /\ fields = [d \in Data |-> {}]
  /\ qmi = [d \in Data |-> "none"]
  /\ errorCb = {}
  /\ handle = 0
  /\ lcPc = "closed" /\ cur = 0 /\ tries = 1
  /\ cb = NoCallback

Set(f)  == fields' = [fields EXCEPT ![cur] = @ \cup {f}] /\ UNCHANGED allocated
Clear   == fields' = [fields EXCEPT ![cur] = {}] /\ UNCHANGED allocated
Release == allocated' = allocated \ {cur} /\ UNCHANGED fields    \* free
-----------------------------------------------------------------------------
(***************************************************************************)
(* locClientOpen and locClientOpenInstance.                                *)
(***************************************************************************)
Open ==
  /\ lcPc = "closed" /\ cur + MaxTries + 1 <= NData
  /\ tries' = 1 /\ lcPc' = "calloc"
  /\ UNCHANGED <<data, qmi, errorCb, handle, cur, cb>>

Calloc ==
  /\ lcPc = "calloc" /\ cur < NData
  /\ cur' = cur + 1
  /\ allocated' = allocated \cup {cur + 1}
  /\ fields' = [fields EXCEPT ![cur + 1] = {}]
  /\ lcPc' = "connect"
  /\ UNCHANGED <<qmi, errorCb, handle, tries, cb>>

CallocFail ==
  /\ lcPc = "calloc" /\ InitFails
  /\ lcPc' = "failed"
  /\ UNCHANGED <<data, qmi, errorCb, handle, cur, tries, cb>>

\* locClientQmiCtrlPointInit: the loop ends when the service is found.
Connect ==
  /\ lcPc = "connect"
  /\ qmi' = [qmi EXCEPT ![cur] = "connected"]
  /\ lcPc' = "error_cb"
  /\ UNCHANGED <<data, errorCb, handle, cur, tries, cb>>

\* Mutant: a client that cannot be initialised is tried for ever.
ConnectFailRetry ==
  /\ lcPc = "connect" /\ InitFails
  /\ UNCHANGED <<data, qmi, errorCb, handle, lcPc, cur, tries>>
  /\ cb' = NoCallback

\* The notifier or qmi_client_init fails: nothing is connected.
ConnectFail ==
  /\ lcPc = "connect" /\ InitFails
  /\ Release
  /\ lcPc' = "failed"
  /\ UNCHANGED <<qmi, errorCb, handle, cur, tries, cb>>

RegisterErrorCb ==
  /\ lcPc = "error_cb"
  /\ errorCb' = errorCb \cup {cur}
  /\ lcPc' = "user_handle"
  /\ UNCHANGED <<data, qmi, handle, cur, tries, cb>>

\* qmi_client_register_error_cb fails: the caller frees the callback data,
\* and nobody releases the client.
RegisterErrorCbFail ==
  /\ lcPc = "error_cb"
  /\ Release
  /\ lcPc' = "failed"
  /\ UNCHANGED <<qmi, errorCb, handle, cur, tries, cb>>

SetUserHandle ==
  /\ lcPc = "user_handle"
  /\ Set("userHandle") /\ lcPc' = "me"
  /\ UNCHANGED <<qmi, errorCb, handle, cur, tries, cb>>

SetMe ==
  /\ lcPc = "me"
  /\ Set("pMe") /\ handle' = cur /\ lcPc' = "register"
  /\ UNCHANGED <<qmi, errorCb, cur, tries, cb>>

\* locClientRegisterEventMask; when it fails, locClientClose.
RegisterMask ==
  /\ lcPc = "register"
  /\ \/ lcPc' = "callbacks"
     \/ RegisterFails /\ lcPc' = "undo"
  /\ UNCHANGED <<data, qmi, errorCb, handle, cur, tries, cb>>

SetCallbacks ==
  /\ lcPc = "callbacks"
  /\ Set("callbacks") /\ lcPc' = "cookie"
  /\ UNCHANGED <<qmi, errorCb, handle, cur, tries, cb>>

SetCookie ==
  /\ lcPc = "cookie"
  /\ Set("pClientCookie") /\ lcPc' = "open"
  /\ UNCHANGED <<qmi, errorCb, handle, cur, tries, cb>>

\* locClientOpenInstance failed: the handle is invalid; try again or give up.
GiveUp ==
  /\ lcPc = "failed"
  /\ handle' = 0
  /\ IF tries <= MaxTries THEN tries' = tries + 1 /\ lcPc' = "calloc"
                          ELSE lcPc' = "closed" /\ UNCHANGED tries
  /\ UNCHANGED <<data, qmi, errorCb, cur, cb>>
-----------------------------------------------------------------------------
(***************************************************************************)
(* locClientClose, called by the client, or by locClientOpenInstance to    *)
(* undo a half-open client ("undo").                                       *)
(***************************************************************************)
Close ==
  /\ lcPc = "open" /\ lcPc' = "close"
  /\ UNCHANGED <<data, qmi, errorCb, handle, cur, tries, cb>>

\* Mutant: the memory goes first.
QmiReleaseLate ==
  /\ lcPc \in {"close", "undo"}
  /\ Release
  /\ lcPc' = (IF lcPc = "close" THEN "clear" ELSE "undo_clear")
  /\ UNCHANGED <<qmi, errorCb, handle, cur, tries, cb>>

\* The release takes effect under a callback that is running: the code speaks
\* of "a race condition occurring between close and the indication callback".
QmiRelease ==
  /\ lcPc \in {"close", "undo"}
  /\ qmi' = [qmi EXCEPT ![cur] = "released"]
  /\ errorCb' = errorCb \ {cur}
  /\ lcPc' = (IF lcPc = "close" THEN "clear" ELSE "undo_clear")
  /\ UNCHANGED <<data, handle, cur, tries, cb>>

\* The client stays; LocApiV02::close drops the handle all the same.
QmiReleaseFail ==
  /\ lcPc \in {"close", "undo"} /\ ReleaseFails
  /\ qmi' = [qmi EXCEPT ![cur] = "stuck"]
  /\ handle' = 0
  /\ lcPc' = (IF lcPc = "close" THEN "closed" ELSE "failed")
  /\ UNCHANGED <<data, errorCb, cur, tries, cb>>

ClearData ==
  /\ lcPc \in {"clear", "undo_clear"}
  /\ Clear
  /\ lcPc' = (IF lcPc = "clear" THEN "free" ELSE "undo_free")
  /\ UNCHANGED <<qmi, errorCb, handle, cur, tries, cb>>

\* Mutant: the block is not freed.
ForgetData ==
  /\ lcPc \in {"free", "undo_free"}
  /\ handle' = 0
  /\ lcPc' = (IF lcPc = "free" THEN "closed" ELSE "failed")
  /\ UNCHANGED <<data, qmi, errorCb, cur, tries, cb>>

FreeData ==
  /\ lcPc \in {"free", "undo_free"}
  /\ Release
  /\ handle' = 0
  /\ lcPc' = (IF lcPc = "free" THEN "closed" ELSE "failed")
  /\ UNCHANGED <<qmi, errorCb, cur, tries, cb>>
-----------------------------------------------------------------------------
(***************************************************************************)
(* The callback thread.  Freed memory reads as anything.                   *)
(***************************************************************************)
FindsSet(d, f)   == d \in allocated => f \in fields[d]
FindsUnset(d, f) == d \in allocated => f \notin fields[d]

CbGoto(label) == cb' = CbAt(label, cb.of, cb.kind)
CbOnly      == UNCHANGED <<data, qmi, errorCb, handle, lcPc, cur, tries>>
Delivers(d) == qmi[d] \in {"connected", "stuck"}

IndArrives(d) ==
  /\ cb.pc = "idle" /\ Delivers(d)
  /\ cb' = CbAt("check", d, "ind")
  /\ CbOnly

ErrorArrives(d) ==
  /\ cb.pc = "idle" /\ Delivers(d) /\ d \in errorCb
  /\ cb' = CbAt("load", d, "error")
  /\ CbOnly

\* locClientIndCb: is the block ours, and of this QMI client?
IndCheck ==
  /\ cb.pc = "check"
  /\ \/ FindsSet(cb.of, "pMe") /\ FindsSet(cb.of, "userHandle") /\ CbGoto("load")
     \/ (FindsUnset(cb.of, "pMe") \/ FindsUnset(cb.of, "userHandle")) /\ cb' = NoCallback
  /\ CbOnly

\* The local copy of the callback...
CbLoad ==
  /\ cb.pc = "load"
  /\ \/ FindsSet(cb.of, "callbacks") /\ CbGoto("recheck")
     \/ FindsUnset(cb.of, "callbacks") /\ cb' = NoCallback
  /\ CbOnly

\* ... the second look, with pMe for an error...
CbRecheck ==
  /\ cb.pc = "recheck"
  /\ \/ /\ FindsSet(cb.of, "callbacks") /\ (cb.kind = "error" => FindsSet(cb.of, "pMe"))
        /\ CbGoto("call")
     \/ /\ FindsUnset(cb.of, "callbacks") \/ (cb.kind = "error" /\ FindsUnset(cb.of, "pMe"))
        /\ cb' = NoCallback
  /\ CbOnly

\* ... and the call, with whatever cookie the block holds; it comes late when
\* the handle has been closed.
CbCall ==
  /\ cb.pc = "call"
  /\ CbGoto(IF handle = cb.of \/ qmi[cb.of] = "stuck" THEN "running" ELSE "late")
  /\ CbOnly

CbReturn == cb.pc \in {"running", "late"} /\ cb' = NoCallback /\ CbOnly

Callback == IndCheck \/ CbLoad \/ CbRecheck \/ CbCall \/ CbReturn

Arrives == \E d \in Data : IndArrives(d) \/ ErrorArrives(d)

Opening ==
  \/ Calloc \/ CallocFail \/ Connect \/ ConnectFail \/ RegisterErrorCb
  \/ SetUserHandle \/ SetMe \/ RegisterMask \/ SetCallbacks \/ SetCookie \/ GiveUp

Closing == QmiRelease \/ QmiReleaseFail \/ ClearData \/ FreeData

LcNext == Open \/ Opening \/ Close \/ Closing \/ Callback \/ Arrives

LcSpec == LcInit /\ [][LcNext]_lcVars

\* The service comes up and the client's thread runs; so does the callback
\* thread, and a client's callbacks return.
LcFairness == WF_lcVars(Opening) /\ WF_lcVars(Closing) /\ WF_lcVars(Callback)

\* With an error callback that cannot be registered.
ErrorCbSpec == LcInit /\ [][LcNext \/ RegisterErrorCbFail]_lcVars
-----------------------------------------------------------------------------
LcTypeOK ==
  /\ allocated \subseteq Data /\ fields \in [Data -> SUBSET DataFields]
  /\ qmi \in [Data -> {"none", "connected", "stuck", "released"}]
  /\ errorCb \subseteq Data
  /\ handle \in 0..NData /\ cur \in 0..NData /\ tries \in 1..(MaxTries + 1)
  /\ lcPc \in {"closed", "calloc", "connect", "error_cb", "user_handle", "me", "register",
             "callbacks", "cookie", "open", "close", "undo", "clear", "undo_clear",
             "free", "undo_free", "failed"}
  /\ cb \in [pc : {"idle", "check", "load", "recheck", "call", "running", "late"},
             of : 0..NData, kind : {"ind", "error"}]

(***************************************************************************)
(* locClientIndCb and locClientErrorCb read callback data that has been    *)
(* freed only when their client has been released under them: whatever     *)
(* step of an open or of a close fails, no other block that a callback     *)
(* holds is given back.                                                    *)
(***************************************************************************)
ReadsLiveData ==
  cb.pc \in {"check", "load", "recheck", "call"} => cb.of \in allocated \/ qmi[cb.of] = "released"

(***************************************************************************)
(* "If the connection to the service succeeds the callback data will be    *)
(* filled in with a qmi_client value": a QMI client that is connected, or  *)
(* comes to be used, has the callback data it was given.                   *)
(***************************************************************************)
ConnectedHasData == \A d \in Data : Delivers(d) => d \in allocated

(***************************************************************************)
(* "To avoid calling the eventCallback after locClientClose is called,     *)
(* check pCallbackData->eventCallback again here": no event or response    *)
(* callback is called for a handle whose close has succeeded.              *)
(***************************************************************************)
NotCalledAfterClose == ~(cb.pc = "late" /\ cb.kind = "ind")

(***************************************************************************)
(* The handle the client holds is the one block that is left, complete     *)
(* and connected; with no handle nothing is left, however many attempts to *)
(* open it took and wherever they failed, except a client that could not   *)
(* be released, which keeps its block.                                     *)
(***************************************************************************)
NothingLeft ==
  /\ lcPc = "open" => handle = cur /\ cur \in allocated /\ fields[cur] = DataFields /\ qmi[cur] = "connected"
  /\ lcPc = "closed" => handle = 0
  /\ \A d \in Data : d # cur \/ lcPc \in {"closed", "calloc", "failed"} =>
       /\ qmi[d] # "connected"
       /\ d \in allocated <=> qmi[d] = "stuck"

\* Once the service is up locClientOpen returns, with a handle or without,
\* however many of its attempts fail; and locClientClose returns.
OpenAndCloseReturn ==
  /\ lcPc = "calloc" ~> lcPc \in {"open", "closed"}
  /\ lcPc = "close" ~> lcPc = "closed"

==============================================================================
