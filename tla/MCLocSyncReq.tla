---------------------------- MODULE MCLocSyncReq ----------------------------
(* Small instances of LocSyncReq for TLC. *)
EXTENDS LocSyncReq, TLC

CONSTANTS t1, t2, t3, k1, k2

MCThreads2 == {t1, t2}
MCThreads3 == {t1, t2, t3}
MCKeys     == {k1, k2}

\* Callers that may ask for the same key at the same time.
MCSame2   == [t \in MCThreads2 |-> {k1}]
MCSame3   == [t \in MCThreads3 |-> {k1}]

MCSymmetry3 == Permutations(MCThreads3)
=============================================================================
