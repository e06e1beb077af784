---------------------------- MODULE MCBootUpdate ----------------------------
(* Small instances of BootUpdate for TLC. *)
EXTENDS BootUpdateRefinesAB, TLC

CONSTANTS sbl1, tz, aboot

\* Three partitions of the swap list; the package carries two of them.
MCParts == {sbl1, tz, aboot}
MCFiles == {sbl1, tz}

\* The two partitions the package carries are interchangeable.
MCSymmetry == Permutations({sbl1, tz})
=============================================================================
