------------------------------- MODULE ABSlots -------------------------------
(***************************************************************************)
(* What a safe update of the boot chain promises, whatever the mechanism.  *)
(* Every partition of twin is kept in two copies.  At any time one copy is *)
(* loaded by the boot ROM: that copy is complete and of one release, no    *)
(* step writes it, and the ROM moves to the other copy only when that one  *)
(* is complete and of one release too.                                     *)
(***************************************************************************)
CONSTANTS
  Parts,     \* all boot partitions
  Files      \* the partitions the update replaces

VARIABLES
  twin,      \* the partitions that have two copies
  paired,    \* those of which the update writes both copies
  loaded,    \* the copy the boot ROM loads
  slot       \* the contents of the two copies

vars   == <<twin, paired, loaded, slot>>
Copies == {"main", "bak"}
Images == {"old", "new", "torn"}

\* Copy c of the chain can be booted: nothing in it is half written, and
\* the images the update replaces are all of the same release, as far as
\* it writes them all to both copies, or all to one.
Complete(c) ==
  /\ \A p \in twin : slot[c][p] # "torn"
  /\ \A g \in {paired, (twin \cap Files) \ paired} :
       \E v \in {"old", "new"} : \A p \in g : slot[c][p] = v

Init ==
  /\ twin \in SUBSET Parts
  /\ paired \in SUBSET (twin \cap Files)
  /\ loaded = "main"
  /\ slot = [c \in Copies |-> [p \in Parts |-> "old"]]

\* One image of the copy that is not loaded is written; partitions without
\* a twin are written in place.
WriteImage(c, p, v) ==
  /\ p \in twin => c # loaded
  /\ slot' = [slot EXCEPT ![c][p] = v]
  /\ UNCHANGED <<twin, paired, loaded>>

Switch(c) ==
  /\ Complete(c)
  /\ loaded' = c
  /\ UNCHANGED <<twin, paired, slot>>

Next ==
  \/ \E c \in Copies, p \in Parts, v \in Images : WriteImage(c, p, v)
  \/ \E c \in Copies : Switch(c)

Spec == Init /\ [][Next]_vars

\* The loaded copy can always be booted.
LoadedComplete == Complete(loaded)
=============================================================================
