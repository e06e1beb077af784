--------------------------- MODULE MCLocRequests ---------------------------
(***************************************************************************)
(* Small instances, for TLC, of the two halves of the location client that *)
(* its requests go through: the life of the handle (LocClient), and the    *)
(* synchronous requests made on an open handle (LocSyncReq), which touch   *)
(* no state of each other.  In a behaviour one of them runs, the other     *)
(* stays in its initial state, where nothing it is fair to is enabled.     *)
(***************************************************************************)
EXTENDS LocClient, LocSyncReq, TLC

CONSTANTS t1, t2, k1, k2
VARIABLE half

Both == <<half, lcVars, vars>>

RequestsInit == half \in {"handle", "requests"} /\ LcInit /\ Init

RequestsNext ==
  /\ UNCHANGED half
  /\ \/ half = "handle" /\ LcNext /\ UNCHANGED vars
     \/ half = "requests" /\ Next /\ UNCHANGED lcVars

RequestsSpec == RequestsInit /\ [][RequestsNext]_Both /\ LcFairness /\ AnswerFairness

\* Two callers that never ask for the same key at the same time.
MCThreads == {t1, t2}
MCKeys    == {k1, k2}
MCKeysOf  == (t1 :> {k1}) @@ (t2 :> {k2})
=============================================================================
