------------------------------- MODULE GptSwap -------------------------------
(***************************************************************************)
(* gpt_boot_chain_swap on the partition entries array: for each name of    *)
(* PTN_SWAP_LIST, two linear searches and an exchange of type GUIDs.       *)
(* BootUpdate uses what this loop computes as one step (the array is in    *)
(* memory); here the loop itself is checked against that meaning.          *)
(***************************************************************************)
EXTENDS Naturals, Sequences

CONSTANTS
  SwapList,      \* PTN_SWAP_LIST, a sequence of names
  GptOthers,     \* names of partitions outside the list
  GptMaxEntries  \* bound on the number of entries of the array

ASSUME GptSwapAssumption ==
  /\ SwapList \in Seq(STRING)
  /\ GptMaxEntries \in Nat

VARIABLES
  gptInitial,    \* the array as it was read
  gptEntries,    \* the array being modified
  gptI,          \* the loop index
  gptNotFound    \* backup_not_found
gptVars == <<gptInitial, gptEntries, gptI, gptNotFound>>

\* An entry's name is a base name and what follows it: its end, the twin's
\* extension "bak", or a longer tail.
GptNames    == {SwapList[k] : k \in 1..Len(SwapList)} \cup GptOthers
GptSuffixes == {"nul", "bak", "backup"}

Named(e) == <<e.base, e.suffix>>
\* A GPT does not hold two partitions of the same name.
GptArrays ==
  {a \in UNION {[1..n -> [base : GptNames, suffix : GptSuffixes]] : n \in 0..GptMaxEntries} :
     \A j, k \in DOMAIN a : Named(a[j]) = Named(a[k]) => j = k}

GptInit ==
  /\ \E a \in GptArrays :
       gptInitial = [k \in DOMAIN a |-> [base |-> a[k].base, suffix |-> a[k].suffix, guid |-> k]]
  /\ gptEntries = gptInitial
  /\ gptI = 1
  /\ gptNotFound = 1

\* Mutant: any entry whose name starts with the given one matches.
MatchesPrefix(e, name) == e.base = name

\* strncmp on the name, then the end of the string or the twin's extension.
Matches(e, name) == e.base = name /\ e.suffix \in {"nul", "bak"}

\* gpt_pentry_seek: the first entry from index start on; 0 for NULL.
gpt_pentry_seek(name, start) ==
  LET hits == {k \in start..Len(gptEntries) : Matches(gptEntries[k], name)}
  IN  IF hits = {} THEN 0 ELSE CHOOSE k \in hits : \A j \in hits : k <= j

SwapGuids(a, b) ==
  [gptEntries EXCEPT ![a].guid = gptEntries[b].guid, ![b].guid = gptEntries[a].guid]

\* One turn of the loop over ptn_swap_list.
SwapIterate ==
  /\ gptI <= Len(SwapList)
  /\ LET ptn == gpt_pentry_seek(SwapList[gptI], 1)
         bak == IF ptn = 0 THEN 0 ELSE gpt_pentry_seek(SwapList[gptI], ptn + 1)
     IN  \/ bak = 0 /\ UNCHANGED <<gptEntries, gptNotFound>>     \* continue
         \/ /\ bak # 0
            /\ gptEntries' = SwapGuids(ptn, bak)
            /\ gptNotFound' = 0
  /\ gptI' = gptI + 1
  /\ UNCHANGED gptInitial

GptReturned == gptI > Len(SwapList)

GptNext == SwapIterate
GptSpec == GptInit /\ [][GptNext]_gptVars
-----------------------------------------------------------------------------
Twins(j, k) ==
  /\ gptInitial[j].base = gptInitial[k].base
  /\ {gptInitial[j].suffix, gptInitial[k].suffix} = {"nul", "bak"}
  /\ \E n \in 1..Len(SwapList) : gptInitial[j].base = SwapList[n]

(***************************************************************************)
(* When gpt_boot_chain_swap returns, each entry of the list carries the    *)
(* type GUID of its twin, every other entry the GUID it had; names do not  *)
(* move.  This is the meaning BootUpdate gives the swap.  "1 if no backup  *)
(* partitions found": the result prepare_boot_update takes as a reason to  *)
(* flash without a safe update is 1 exactly when nothing was swapped.      *)
(***************************************************************************)
SwapsExactlyTheTwins ==
  GptReturned =>
    /\ \A j \in DOMAIN gptInitial :
         /\ Named(gptEntries[j]) = Named(gptInitial[j])
         /\ \A k \in DOMAIN gptInitial : Twins(j, k) => gptEntries[j].guid = k
         /\ (\A k \in DOMAIN gptInitial : ~Twins(j, k)) => gptEntries[j].guid = j
    /\ gptNotFound = 1 <=> \A j, k \in DOMAIN gptInitial : ~Twins(j, k)

=============================================================================
