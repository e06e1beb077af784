------------------------- MODULE BootUpdateRefinesAB -------------------------
(***************************************************************************)
(* BootUpdate implements ABSlots: the copy loaded is the one that the      *)
(* table the boot ROM selects on the eMMC names, and a whole stage change  *)
(* of prepare_boot_update (several sector writes) is at most one Switch.   *)
(***************************************************************************)
EXTENDS BootUpdate

LoadedCopy == IF backed # {} /\ \A p \in backed : RomChain[p] = "bak"
              THEN "bak" ELSE "main"

AB == INSTANCE ABSlots WITH twin <- backed, paired <- destBak,
                            loaded <- LoadedCopy, slot <- img

(***************************************************************************)
(* Every step of the update, crashes and restarts included, is a write of  *)
(* a copy that is not loaded, a switch to a complete copy, or a stutter.   *)
(***************************************************************************)
ImplementsAB == AB!Spec
=============================================================================
