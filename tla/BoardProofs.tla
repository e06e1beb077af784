----------------------------- MODULE BoardProofs -----------------------------
(***************************************************************************)
(* Proofs about three parts of the board's support: the exchange of type   *)
(* GUIDs in the partition entries array (GptSwap), for any array and any   *)
(* swap list; the power HAL (PowerHal), for any number of calls; and the   *)
(* wireless power host (A4wp), for any number of clients and handlers.     *)
(***************************************************************************)
EXTENDS GptSwap, PowerHal, A4wp, FiniteSetTheorems, FunctionTheorems, SequenceTheorems, TLAPS

\* Every set of naturals has a least element.
LEMMA LeastElement ==
  ASSUME NEW T \in SUBSET Nat, T # {}
  PROVE  \E x \in T : \A y \in T : x <= y
<1> DEFINE R == OpToRel(<, Nat)
<1>1. IsWellFoundedOn(R, Nat)
  BY NatLessThanWellFounded
<1>2. \A x, y \in Nat : <<y, x>> \in R <=> y < x
  BY DEF OpToRel
<1> HIDE DEF R
<1>3. PICK x \in T : \A y \in T : ~(<<y, x>> \in R)
  BY <1>1, WFMin
<1>4. ASSUME NEW y \in T PROVE x <= y
  <2>1. x \in Nat /\ y \in Nat /\ ~(y < x)
    BY <1>2, <1>3
  <2> QED
    BY <2>1
<1> QED
  BY <1>4
-----------------------------------------------------------------------------
(***************************************************************************)
(* The exchange of GUIDs.                                                  *)
(***************************************************************************)
GptSize == Len(gptInitial)
GptEntry == [base : GptNames, suffix : GptSuffixes, guid : Nat]

\* No name is twice in PTN_SWAP_LIST.
DistinctNames == \A m, n \in 1..Len(SwapList) : SwapList[m] = SwapList[n] => m = n

\* The array as it was read: an entry's GUID is its own, its name too.
InitialInv ==
  /\ gptInitial \in Seq(GptEntry)
  /\ \A k \in 1..GptSize : gptInitial[k].guid = k
  /\ \A j, k \in 1..GptSize : Named(gptInitial[j]) = Named(gptInitial[k]) => j = k

\* The loop has been at the name of entry j.
Done(j) == \E m \in 1..(gptI - 1) : SwapList[m] = gptInitial[j].base

Swapped(j) ==
  /\ Named(gptEntries[j]) = Named(gptInitial[j])
  /\ \A k \in 1..GptSize : Twins(j, k) /\ Done(j) => gptEntries[j].guid = k
  /\ ~Done(j) \/ (\A k \in 1..GptSize : ~Twins(j, k)) => gptEntries[j].guid = j

EntriesInv ==
  /\ gptEntries \in Seq(GptEntry) /\ Len(gptEntries) = GptSize
  /\ \A j \in 1..GptSize : Swapped(j)

CountInv ==
  /\ gptI \in 1..(Len(SwapList) + 1)
  /\ gptNotFound \in {0, 1}
  /\ gptNotFound = 1 <=> \A j, k \in 1..GptSize : Twins(j, k) => ~Done(j)

GptInv == InitialInv /\ EntriesInv /\ CountInv
-----------------------------------------------------------------------------
LEMMA GptInitInv == GptInit => GptInv
<1> SUFFICES ASSUME GptInit PROVE GptInv
  OBVIOUS
<1>1. PICK a \in GptArrays :
        gptInitial = [k \in DOMAIN a |-> [base |-> a[k].base, suffix |-> a[k].suffix, guid |-> k]]
  BY DEF GptInit
<1>2. PICK n \in 0..GptMaxEntries : a \in [1..n -> [base : GptNames, suffix : GptSuffixes]]
  BY DEF GptArrays
<1>3. n \in Nat /\ DOMAIN a = 1..n
  BY <1>2, GptSwapAssumption
<1>4. \A k \in 1..n : /\ gptInitial[k] \in GptEntry
                      /\ gptInitial[k].guid = k
                      /\ gptInitial[k].base = a[k].base
                      /\ gptInitial[k].suffix = a[k].suffix
  BY <1>1, <1>2, <1>3 DEF GptEntry
<1>5. gptInitial \in [1..n -> GptEntry]
  BY <1>1, <1>3, <1>4
<1>6. gptInitial \in Seq(GptEntry) /\ Len(gptInitial) = n
  BY <1>3, <1>5
<1>7. \A j, k \in 1..n : Named(gptInitial[j]) = Named(gptInitial[k]) => j = k
  BY <1>3, <1>4 DEF GptArrays, Named
<1>8. InitialInv
  BY <1>4, <1>6, <1>7 DEF InitialInv, GptSize
<1>9. gptI = 1 /\ gptNotFound = 1 /\ gptEntries = gptInitial
  BY DEF GptInit
<1>10. \A j : ~Done(j)
  BY <1>9 DEF Done
<1>11. EntriesInv
  BY <1>8, <1>9, <1>10 DEF EntriesInv, InitialInv, Swapped, GptSize
<1>12. CountInv
  BY <1>9, <1>10, GptSwapAssumption DEF CountInv
<1> QED
  BY <1>8, <1>11, <1>12 DEF GptInv

\* What gpt_pentry_seek finds: the first entry from start on that matches.
LEMMA SeekFinds ==
  ASSUME GptInv, NEW name, NEW start \in Nat, start >= 1
  PROVE  LET k == gpt_pentry_seek(name, start) IN
         \/ /\ k = 0
            /\ \A j \in start..GptSize : ~Matches(gptEntries[j], name)
         \/ /\ k \in start..GptSize /\ Matches(gptEntries[k], name)
            /\ \A j \in start..GptSize : Matches(gptEntries[j], name) => k <= j
<1> DEFINE hits == {k \in start..Len(gptEntries) : Matches(gptEntries[k], name)}
<1>1. gpt_pentry_seek(name, start) =
        IF hits = {} THEN 0 ELSE CHOOSE k \in hits : \A j \in hits : k <= j
  BY DEF gpt_pentry_seek
<1>2. Len(gptEntries) = GptSize /\ GptSize \in Nat
  BY DEF GptInv, EntriesInv, InitialInv, GptSize
<1>3. hits \in SUBSET Nat
  BY <1>2
<1>4. CASE hits = {}
  BY <1>1, <1>2, <1>4
<1>5. CASE hits # {}
  <2> HIDE DEF hits
  <2>1. \E k \in hits : \A j \in hits : k <= j
    BY <1>3, <1>5, LeastElement
  <2> DEFINE k == CHOOSE k \in hits : \A j \in hits : k <= j
  <2>2. k \in hits /\ \A j \in hits : k <= j
    BY <2>1
  <2>3. gpt_pentry_seek(name, start) = k
    BY <1>1, <1>5
  <2> HIDE DEF k
  <2> QED
    BY <1>2, <2>2, <2>3 DEF hits
<1> QED
  BY <1>4, <1>5

\* The loop moves no name.
LEMMA NamesStay ==
  ASSUME GptInv, NEW j \in 1..GptSize
  PROVE  /\ gptEntries[j].base = gptInitial[j].base /\ gptEntries[j].suffix = gptInitial[j].suffix
         /\ gptEntries[j] \in GptEntry /\ gptInitial[j] \in GptEntry
  BY DEF GptInv, EntriesInv, InitialInv, Swapped, Named, GptSize

\* Two entries match a name exactly when they are twins of that name.
LEMMA MatchesAreTwins ==
  ASSUME GptInv, NEW m \in 1..Len(SwapList), NEW j \in 1..GptSize, NEW k \in 1..GptSize
  PROVE  (j # k /\ Matches(gptEntries[j], SwapList[m]) /\ Matches(gptEntries[k], SwapList[m]))
         <=> (Twins(j, k) /\ gptInitial[j].base = SwapList[m])
<1>1. /\ gptEntries[j].base = gptInitial[j].base /\ gptEntries[j].suffix = gptInitial[j].suffix
      /\ gptEntries[k].base = gptInitial[k].base /\ gptEntries[k].suffix = gptInitial[k].suffix
  BY NamesStay
<1>2. gptInitial[j].base = gptInitial[k].base /\ gptInitial[j].suffix = gptInitial[k].suffix => j = k
  BY DEF GptInv, InitialInv, Named
<1>3. ASSUME NEW x, NEW y
      PROVE  {x, y} = {"nul", "bak"} <=> x # y /\ x \in {"nul", "bak"} /\ y \in {"nul", "bak"}
  OBVIOUS
<1>4. Twins(j, k) /\ gptInitial[j].base = SwapList[m]
      <=> /\ gptInitial[j].base = SwapList[m] /\ gptInitial[k].base = SwapList[m]
          /\ {gptInitial[j].suffix, gptInitial[k].suffix} = {"nul", "bak"}
  BY DEF Twins
<1>5. {gptInitial[j].suffix, gptInitial[k].suffix} = {"nul", "bak"}
      <=> /\ gptInitial[j].suffix # gptInitial[k].suffix
          /\ gptInitial[j].suffix \in {"nul", "bak"} /\ gptInitial[k].suffix \in {"nul", "bak"}
  BY <1>3
<1> QED
  BY <1>1, <1>2, <1>4, <1>5 DEF Matches

\* A twin is unique.
LEMMA OneTwin ==
  ASSUME GptInv, NEW j \in 1..GptSize, NEW k \in 1..GptSize, NEW l \in 1..GptSize,
         Twins(j, k), Twins(j, l)
  PROVE  k = l
<1>1. gptInitial[k].base = gptInitial[l].base /\ gptInitial[k].suffix = gptInitial[l].suffix
  BY DEF Twins
<1> QED
  BY <1>1 DEF GptInv, InitialInv, Named

LEMMA TwinsBack == \A j, k : Twins(j, k) => Twins(k, j)
  BY DEF Twins

LEMMA GptStep ==
  ASSUME DistinctNames PROVE GptInv /\ [GptNext]_gptVars => GptInv'
<1> SUFFICES ASSUME GptInv, [GptNext]_gptVars PROVE GptInv'
  OBVIOUS
<1>0. /\ GptSize \in Nat /\ Len(SwapList) \in Nat /\ gptI \in Nat /\ gptI >= 1
      /\ gptEntries \in Seq(GptEntry) /\ Len(gptEntries) = GptSize
      /\ \A j \in 1..GptSize : Swapped(j)
  BY GptSwapAssumption DEF GptInv, InitialInv, EntriesInv, CountInv, GptSize
<1>1. CASE UNCHANGED gptVars
  <2>1. UNCHANGED <<gptInitial, gptEntries, gptI, gptNotFound>>
    BY <1>1 DEF gptVars
  <2>2. /\ GptSize' = GptSize /\ \A j : Done(j)' <=> Done(j)
        /\ \A j, k : Twins(j, k)' <=> Twins(j, k)
    BY <2>1 DEF GptSize, Done, Twins
  <2> QED
    BY <2>1, <2>2, ZenonT(60) DEF GptInv, InitialInv, EntriesInv, CountInv, Swapped
<1>2. CASE SwapIterate
  <2> DEFINE name == SwapList[gptI]
             ptn  == gpt_pentry_seek(name, 1)
             bak  == IF ptn = 0 THEN 0 ELSE gpt_pentry_seek(name, ptn + 1)
  <2>1. /\ gptI \in 1..Len(SwapList) /\ gptI' = gptI + 1 /\ gptInitial' = gptInitial
        /\ \/ bak = 0 /\ gptEntries' = gptEntries /\ gptNotFound' = gptNotFound
           \/ bak # 0 /\ gptEntries' = SwapGuids(ptn, bak) /\ gptNotFound' = 0
    BY <1>0, <1>2 DEF SwapIterate
  <2>2. /\ GptSize' = GptSize
        /\ \A j, k : Twins(j, k)' <=> Twins(j, k)
        /\ \A j : Done(j)' <=> Done(j) \/ gptInitial[j].base = name
    <3>1. 1..(gptI' - 1) = 1..(gptI - 1) \cup {gptI}
      BY <1>0, <2>1
    <3> QED
      BY <2>1, <3>1 DEF GptSize, Twins, Done
  <2>3. \A j : gptInitial[j].base = name => ~Done(j)
    BY <1>0, <2>1 DEF DistinctNames, Done
  <2>4. InitialInv' /\ gptI' \in 1..(Len(SwapList) + 1)
    BY <1>0, <2>1, <2>2 DEF GptInv, InitialInv
  <2> HIDE DEF name, ptn, bak
  <2>5. CASE bak = 0
    <3>1. \A j, k \in 1..GptSize : Twins(j, k) => gptInitial[j].base # name
      <4> SUFFICES ASSUME NEW j \in 1..GptSize, NEW k \in 1..GptSize, Twins(j, k),
                          gptInitial[j].base = name
                   PROVE  FALSE
        OBVIOUS
      <4>1. j # k /\ Matches(gptEntries[j], name) /\ Matches(gptEntries[k], name)
        BY <2>1, MatchesAreTwins DEF name
      <4>2. ptn \in 1..GptSize /\ ptn <= j /\ ptn <= k
        BY <1>0, <4>1, SeekFinds DEF ptn
      <4>3. ptn # 0 /\ ptn + 1 \in Nat /\ ptn + 1 >= 1 /\ gpt_pentry_seek(name, ptn + 1) = 0
        BY <1>0, <2>5, <4>2 DEF bak
      <4>4. ~(j \in (ptn + 1)..GptSize) /\ ~(k \in (ptn + 1)..GptSize)
        BY <4>1, <4>3, SeekFinds
      <4> QED
        BY <1>0, <4>1, <4>2, <4>4
    <3>2. \A j \in 1..GptSize : Swapped(j)'
      BY <1>0, <2>1, <2>2, <2>5, <3>1 DEF Swapped
    <3>3. CountInv'
      BY <2>1, <2>2, <2>4, <2>5, <3>1 DEF GptInv, CountInv
    <3> QED
      BY <1>0, <2>1, <2>2, <2>4, <2>5, <3>2, <3>3 DEF GptInv, EntriesInv
  <2>6. CASE bak # 0
    <3>1. ptn \in 1..GptSize /\ Matches(gptEntries[ptn], name)
      BY <1>0, <2>6, SeekFinds DEF bak, ptn
    <3>2. bak \in (ptn + 1)..GptSize /\ Matches(gptEntries[bak], name)
      <4>1. bak = gpt_pentry_seek(name, ptn + 1) /\ ptn + 1 \in Nat /\ ptn + 1 >= 1
        BY <1>0, <2>6, <3>1 DEF bak
      <4> QED
        BY <2>6, <4>1, SeekFinds
    <3>3. ptn # bak /\ bak \in 1..GptSize
      BY <1>0, <3>1, <3>2
    <3>4. Twins(ptn, bak) /\ Twins(bak, ptn) /\ gptInitial[ptn].base = name /\ gptInitial[bak].base = name
      BY <2>1, <3>1, <3>2, <3>3, MatchesAreTwins, TwinsBack DEF name
    <3>5. gptEntries[ptn].guid = ptn /\ gptEntries[bak].guid = bak
      BY <1>0, <2>3, <3>1, <3>3, <3>4 DEF Swapped
    <3>6. gptEntries' = [gptEntries EXCEPT ![ptn].guid = bak, ![bak].guid = ptn]
      BY <2>1, <2>6, <3>5 DEF SwapGuids
    <3>7. \A j \in 1..GptSize : gptEntries[j] \in GptEntry
      BY <1>0
    <3>8. gptEntries' \in Seq(GptEntry) /\ Len(gptEntries') = GptSize
      <4> DEFINE p == [gptEntries[ptn] EXCEPT !.guid = bak]
                 b == [gptEntries[bak] EXCEPT !.guid = ptn]
      <4>1. p \in GptEntry /\ b \in GptEntry
        BY <1>0, <3>1, <3>3, <3>7 DEF GptEntry
      <4>2. gptEntries' = [gptEntries EXCEPT ![ptn] = p, ![bak] = b]
        BY <1>0, <3>1, <3>3, <3>6
      <4> HIDE DEF p, b
      <4> QED
        BY <1>0, <3>1, <3>3, <4>1, <4>2
    <3>9. /\ \A j \in 1..GptSize :
               /\ gptEntries'[j].base = gptEntries[j].base
               /\ gptEntries'[j].suffix = gptEntries[j].suffix
               /\ j # ptn /\ j # bak => gptEntries'[j].guid = gptEntries[j].guid
          /\ gptEntries'[ptn].guid = bak /\ gptEntries'[bak].guid = ptn
      BY <1>0, <3>1, <3>3, <3>6, <3>7 DEF GptEntry
    <3>10. ASSUME NEW j \in 1..GptSize PROVE Swapped(j)'
      <4>1. Named(gptEntries'[j]) = Named(gptInitial[j])
        <5>1. gptEntries[j].base = gptInitial[j].base /\ gptEntries[j].suffix = gptInitial[j].suffix
          BY NamesStay
        <5>2. gptEntries'[j].base = gptEntries[j].base /\ gptEntries'[j].suffix = gptEntries[j].suffix
          BY <3>9
        <5> QED
          BY <5>1, <5>2 DEF Named
      <4>2. CASE j = ptn \/ j = bak
        BY <2>1, <2>2, <3>1, <3>3, <3>4, <3>9, <4>1, <4>2, OneTwin DEF Swapped
      <4>3. CASE j # ptn /\ j # bak
        <5>1. \A k \in 1..GptSize : Twins(j, k) => gptInitial[j].base # name
          <6> SUFFICES ASSUME NEW k \in 1..GptSize, Twins(j, k), gptInitial[j].base = name PROVE FALSE
            OBVIOUS
          <6>1. Matches(gptEntries[j], name)
            BY <2>1, MatchesAreTwins DEF name
          <6>2. Twins(j, ptn) /\ Twins(j, bak)
            BY <2>1, <3>1, <3>2, <3>3, <4>3, <6>1, MatchesAreTwins DEF name
          <6> QED
            BY <3>1, <3>3, <6>2, OneTwin
        <5> QED
          <6>1. Swapped(j) /\ gptEntries'[j].guid = gptEntries[j].guid
            BY <1>0, <3>9, <4>3
          <6>2. \A k \in 1..GptSize : Twins(j, k) => (Done(j)' <=> Done(j))
            BY <2>2, <5>1
          <6> QED
            BY <2>1, <2>2, <4>1, <6>1, <6>2 DEF Swapped
      <4> QED
        BY <4>2, <4>3
    <3>11. CountInv'
      BY <2>1, <2>2, <2>4, <2>6, <3>1, <3>3, <3>4 DEF CountInv
    <3> QED
      BY <2>2, <2>4, <3>8, <3>10, <3>11 DEF GptInv, EntriesInv
  <2> QED
    BY <2>5, <2>6
<1> QED
  BY <1>1, <1>2 DEF GptNext

(***************************************************************************)
(* For any array without two partitions of one name and any list without a *)
(* name twice, the loop of gpt_boot_chain_swap exchanges the type GUIDs of *)
(* exactly the twins of the list and says truly whether there were any.    *)
(***************************************************************************)
THEOREM TwinsAreSwapped ==
  ASSUME \A m, n \in 1..Len(SwapList) : SwapList[m] = SwapList[n] => m = n
  PROVE  GptSpec => []SwapsExactlyTheTwins
<1>0. DistinctNames
  BY DEF DistinctNames
<1>1. GptInv => SwapsExactlyTheTwins
  <2> SUFFICES ASSUME GptInv, GptReturned PROVE SwapsExactlyTheTwins
    BY DEF SwapsExactlyTheTwins
  <2>1. gptI = Len(SwapList) + 1 /\ DOMAIN gptInitial = 1..GptSize /\ Len(SwapList) \in Nat
    BY GptSwapAssumption DEF GptInv, CountInv, InitialInv, GptReturned, GptSize
  <2>2. \A j, k \in 1..GptSize : Twins(j, k) => Done(j)
    BY <2>1 DEF Twins, Done
  <2> QED
    BY <2>1, <2>2 DEF GptInv, EntriesInv, CountInv, Swapped, SwapsExactlyTheTwins
<1>2. GptInv /\ [GptNext]_gptVars => GptInv'
  BY <1>0, GptStep
<1> QED
  BY <1>1, <1>2, GptInitInv, PTL DEF GptSpec
-----------------------------------------------------------------------------
(***************************************************************************)
(* The power HAL.  Its list is reasoned about through the sets of handles  *)
(* it keeps for each hint.                                                 *)
(***************************************************************************)
PwIds == PwVideo \cup {"display"}

\* The handles a list keeps for hint id.
Handles(q, id) == {h \in Nat : \E k \in 1..Len(q) : q[k] = <<id, h>>}

\* A list of hints made in the first n calls, no lock twice.
WellFormed(q, n) ==
  /\ q \in Seq(PwIds \X Nat)
  /\ \A k \in 1..Len(q) : q[k][2] \in 1..n
  /\ \A j, k \in 1..Len(q) : q[j][2] = q[k][2] => j = k

\* add_list_node.
LEMMA Pushed ==
  ASSUME NEW n \in Nat, NEW q, WellFormed(q, n), NEW id \in PwIds
  PROVE  /\ WellFormed(<<<<id, n + 1>>>> \o q, n + 1)
         /\ n + 1 \notin Handles(q, id)
         /\ \A x \in PwIds : Handles(<<<<id, n + 1>>>> \o q, x) =
                              IF x = id THEN Handles(q, x) \cup {n + 1} ELSE Handles(q, x)
<1> DEFINE e == <<id, n + 1>>
           r == <<e>> \o q
<1>1. q \in Seq(PwIds \X Nat) /\ Len(q) \in Nat /\ e \in PwIds \X Nat /\ e[2] = n + 1
  BY DEF WellFormed
<1>2. \A k \in 1..Len(q) : q[k] \in PwIds \X Nat /\ q[k][2] \in 1..n /\ q[k] = <<q[k][1], q[k][2]>>
  BY <1>1 DEF WellFormed
<1> HIDE DEF e
<1>3. <<e>> \in Seq(PwIds \X Nat) /\ Len(<<e>>) = 1 /\ <<e>>[1] = e
  BY <1>1
<1>4. r \in Seq(PwIds \X Nat) /\ Len(r) = Len(q) + 1
  BY <1>1, <1>3, ConcatProperties
<1>5. r[1] = e /\ \A k \in 2..Len(r) : k - 1 \in 1..Len(q) /\ r[k] = q[k - 1]
  BY <1>1, <1>3, <1>4, ConcatProperties
<1>6. \A k \in 1..Len(q) : k + 1 \in 2..Len(r) /\ r[k + 1] = q[k]
  BY <1>1, <1>4, <1>5
<1> HIDE DEF r
<1>7. \A k \in 1..Len(r) : k = 1 \/ k \in 2..Len(r)
  BY <1>1, <1>4
<1>8. ASSUME NEW k \in 1..Len(r) PROVE r[k][2] \in 1..(n + 1)
  <2>1. CASE k = 1
    BY <1>1, <1>5, <2>1
  <2>2. CASE k \in 2..Len(r)
    <3>1. r[k][2] \in 1..n
      BY <1>2, <1>5, <2>2
    <3> QED
      BY <3>1
  <2> QED
    BY <1>7, <2>1, <2>2
<1>9. \A k \in 2..Len(r) : r[k][2] # n + 1
  BY <1>2, <1>5, SMTT(60)
<1>10. ASSUME NEW j \in 1..Len(r), NEW k \in 1..Len(r), r[j][2] = r[k][2] PROVE j = k
  <2>1. CASE j = 1 \/ k = 1
    BY <1>1, <1>5, <1>7, <1>9, <1>10, <2>1
  <2>2. CASE j \in 2..Len(r) /\ k \in 2..Len(r)
    <3>1. j - 1 \in 1..Len(q) /\ k - 1 \in 1..Len(q) /\ q[j - 1][2] = q[k - 1][2]
      BY <1>5, <1>10, <2>2
    <3>2. j - 1 = k - 1
      BY <3>1 DEF WellFormed
    <3> QED
      BY <1>1, <1>4, <3>2
  <2> QED
    BY <1>7, <2>1, <2>2
<1>11. WellFormed(r, n + 1)
  BY <1>4, <1>8, <1>10 DEF WellFormed
<1>12. n + 1 \notin Handles(q, id)
  BY <1>2 DEF Handles
<1>13. ASSUME NEW x \in PwIds, NEW h \in Nat
       PROVE  h \in Handles(r, x) <=> h \in Handles(q, x) \/ (x = id /\ h = n + 1)
  <2>1. ASSUME h \in Handles(r, x) PROVE h \in Handles(q, x) \/ (x = id /\ h = n + 1)
    <3>1. PICK k \in 1..Len(r) : r[k] = <<x, h>>
      BY <2>1 DEF Handles
    <3>2. CASE k = 1
      BY <1>5, <3>1, <3>2 DEF e
    <3>3. CASE k \in 2..Len(r)
      BY <1>5, <3>1, <3>3 DEF Handles
    <3> QED
      BY <1>7, <3>2, <3>3
  <2>2. ASSUME h \in Handles(q, x) PROVE h \in Handles(r, x)
    <3>1. PICK k \in 1..Len(q) : q[k] = <<x, h>>
      BY <2>2 DEF Handles
    <3>2. r[k + 1] = <<x, h>>
      BY <1>6, <3>1
    <3>3. k + 1 \in 1..Len(r)
      BY <1>1, <1>4
    <3> QED
      BY <3>2, <3>3 DEF Handles
  <2>3. ASSUME x = id, h = n + 1 PROVE h \in Handles(r, x)
    BY <1>1, <1>4, <1>5, <2>3 DEF Handles, e
  <2> QED
    BY <2>1, <2>2, <2>3
<1>14. \A x \in PwIds : Handles(r, x) = IF x = id THEN Handles(q, x) \cup {n + 1} ELSE Handles(q, x)
  <2>1. ASSUME NEW x \in PwIds
        PROVE  Handles(r, x) \subseteq Nat /\ Handles(q, x) \subseteq Nat /\ n + 1 \in Nat
    BY DEF Handles
  <2> QED
    BY <1>13, <2>1
<1> QED
  BY <1>11, <1>12, <1>14 DEF r, e

Without(q, i) == SubSeq(q, 1, i - 1) \o SubSeq(q, i + 1, Len(q))

\* remove_list_node.
LEMMA Removed ==
  ASSUME NEW n \in Nat, NEW q, WellFormed(q, n), NEW i \in 1..Len(q)
  PROVE  /\ WellFormed(Without(q, i), n)
         /\ q[i][1] \in PwIds /\ q[i][2] \in Handles(q, q[i][1])
         /\ \A x \in PwIds : Handles(Without(q, i), x) =
                              IF x = q[i][1] THEN Handles(q, x) \ {q[i][2]} ELSE Handles(q, x)
<1> DEFINE r == Without(q, i)
<1>1. q \in Seq(PwIds \X Nat) /\ Len(q) \in Nat
  BY DEF WellFormed
<1>2. \A k \in 1..Len(q) : q[k] \in PwIds \X Nat /\ q[k][2] \in 1..n /\ q[k] = <<q[k][1], q[k][2]>>
  BY <1>1 DEF WellFormed
<1> DEFINE a == SubSeq(q, 1, i - 1)
           b == SubSeq(q, i + 1, Len(q))
<1>3. /\ a \in Seq(PwIds \X Nat) /\ Len(a) = i - 1 /\ \A k \in 1..(i - 1) : a[k] = q[k]
  BY <1>1, SubSeqProperties
<1>4. /\ b \in Seq(PwIds \X Nat) /\ Len(b) = Len(q) - i /\ \A k \in 1..(Len(q) - i) : b[k] = q[i + k]
  BY <1>1, SubSeqProperties, SMTT(60)
<1> HIDE DEF a, b
<1>5. r = a \o b
  BY DEF Without, a, b
<1>6. r \in Seq(PwIds \X Nat) /\ Len(r) = Len(q) - 1
  <2>1. a \o b \in Seq(PwIds \X Nat) /\ Len(a \o b) = Len(a) + Len(b)
    BY <1>3, <1>4, ConcatProperties, Zenon
  <2>2. i \in Int /\ Len(a) + Len(b) = Len(q) - 1
    BY <1>1, <1>3, <1>4
  <2> HIDE DEF r
  <2> QED
    BY <1>5, <2>1, <2>2
<1> DEFINE at(k) == IF k < i THEN k ELSE k + 1
<1>7. ASSUME NEW k \in 1..Len(r) PROVE r[k] = q[at(k)]
  <2>0. k \in 1..(Len(a) + Len(b))
    BY <1>1, <1>3, <1>4, <1>6
  <2>1. r[k] = IF k <= Len(a) THEN a[k] ELSE b[k - Len(a)]
    BY <1>3, <1>4, <1>5, <2>0, ConcatProperties, SMTT(60)
  <2>2. CASE k < i
    <3>1. k \in 1..(i - 1) /\ k <= Len(a) /\ at(k) = k
      BY <1>1, <1>3, <2>0, <2>2
    <3>2. a[k] = q[k]
      BY <1>3, <3>1
    <3> QED
      BY <2>1, <3>1, <3>2
  <2>3. CASE ~(k < i)
    <3>1. k - Len(a) \in 1..(Len(q) - i) /\ i + (k - Len(a)) = k + 1 /\ ~(k <= Len(a))
      BY <1>1, <1>3, <1>6, <2>3
    <3>2. b[k - Len(a)] = q[i + (k - Len(a))]
      BY <1>4, <3>1
    <3> QED
      BY <2>1, <2>3, <3>1, <3>2
  <2> QED
    BY <2>2, <2>3
<1>18. \A k \in 1..Len(r) : at(k) \in 1..Len(q) /\ at(k) # i
  BY <1>1, <1>6, SMTT(60)
<1> HIDE DEF r
<1>8. \A k \in 1..Len(r) : at(k) \in 1..Len(q) /\ at(k) # i /\ r[k] = q[at(k)]
  BY <1>7, <1>18
<1>9. \A j, k \in 1..Len(r) : at(j) = at(k) => j = k
  <2> SUFFICES ASSUME NEW j \in 1..Len(r), NEW k \in 1..Len(r), at(j) = at(k) PROVE j = k
    OBVIOUS
  <2>1. i \in Int /\ j \in Int /\ k \in Int
    BY <1>1
  <2> QED
    BY <2>1
<1>10. \A k \in 1..Len(q) : k # i => \E j \in 1..Len(r) : at(j) = k
  <2> SUFFICES ASSUME NEW k \in 1..Len(q), k # i PROVE \E j \in 1..Len(r) : at(j) = k
    OBVIOUS
  <2>1. CASE k < i
    <3>1. k \in 1..Len(r) /\ at(k) = k
      BY <1>1, <1>6, <2>1
    <3> QED
      BY <3>1
  <2>2. CASE k > i
    <3>1. k - 1 \in 1..Len(r) /\ at(k - 1) = k
      BY <1>1, <1>6, <2>2
    <3> QED
      BY <3>1
  <2> QED
    BY <1>1, <2>1, <2>2
<1> HIDE DEF at
<1>11. \A k \in 1..Len(r) : r[k][2] \in 1..n
  BY <1>2, <1>8
<1>12. ASSUME NEW j \in 1..Len(r), NEW k \in 1..Len(r), r[j][2] = r[k][2] PROVE j = k
  <2>2. at(j) \in 1..Len(q) /\ at(k) \in 1..Len(q) /\ q[at(j)][2] = q[at(k)][2]
    BY <1>8, <1>12
  <2>1. at(j) = at(k)
    BY <2>2 DEF WellFormed
  <2> QED
    BY <1>9, <2>1
<1>13. WellFormed(r, n)
  BY <1>6, <1>11, <1>12 DEF WellFormed
<1>14. q[i][1] \in PwIds /\ q[i][2] \in Nat /\ q[i] = <<q[i][1], q[i][2]>>
  BY <1>2
<1>15. q[i][2] \in Handles(q, q[i][1])
  BY <1>14 DEF Handles
<1>16. ASSUME NEW x \in PwIds, NEW h \in Nat
       PROVE  h \in Handles(r, x) <=> h \in Handles(q, x) /\ ~(x = q[i][1] /\ h = q[i][2])
  <2>1. ASSUME h \in Handles(r, x) PROVE h \in Handles(q, x) /\ ~(x = q[i][1] /\ h = q[i][2])
    <3>1. PICK k \in 1..Len(r) : r[k] = <<x, h>>
      BY <2>1 DEF Handles
    <3>2. at(k) \in 1..Len(q) /\ at(k) # i /\ q[at(k)] = <<x, h>> /\ q[at(k)][2] = h
      BY <1>8, <3>1
    <3>3. h # q[i][2]
      BY <3>2 DEF WellFormed
    <3> QED
      BY <3>2, <3>3 DEF Handles
  <2>2. ASSUME h \in Handles(q, x), ~(x = q[i][1] /\ h = q[i][2]) PROVE h \in Handles(r, x)
    <3>1. PICK k \in 1..Len(q) : q[k] = <<x, h>>
      BY <2>2 DEF Handles
    <3>2. k # i
      BY <2>2, <3>1
    <3>3. PICK j \in 1..Len(r) : at(j) = k
      BY <1>10, <3>2
    <3>4. r[j] = <<x, h>>
      BY <1>8, <3>1, <3>3
    <3> QED
      BY <3>4 DEF Handles
  <2> QED
    BY <2>1, <2>2
<1>17. \A x \in PwIds : Handles(r, x) = IF x = q[i][1] THEN Handles(q, x) \ {q[i][2]} ELSE Handles(q, x)
  BY <1>16 DEF Handles
<1> QED
  BY <1>13, <1>14, <1>15, <1>17 DEF r

\* A list remains one of later calls.
LEMMA StaysWellFormed ==
  ASSUME NEW n \in Nat, NEW q, WellFormed(q, n)
  PROVE  WellFormed(q, n + 1)
<1>1. \A k \in 1..Len(q) : q[k][2] \in 1..(n + 1)
  BY DEF WellFormed
<1> QED
  BY <1>1 DEF WellFormed

\* A handle is kept for one hint.
LEMMA HandlesApart ==
  ASSUME NEW n \in Nat, NEW q, WellFormed(q, n), NEW x, NEW y, NEW h,
         h \in Handles(q, x), h \in Handles(q, y)
  PROVE  x = y
<1>1. PICK j \in 1..Len(q) : q[j] = <<x, h>>
  BY DEF Handles
<1>2. PICK k \in 1..Len(q) : q[k] = <<y, h>>
  BY DEF Handles
<1>3. q[j][2] = h /\ q[k][2] = h
  BY <1>1, <1>2
<1>4. j = k
  BY <1>3 DEF WellFormed
<1> QED
  BY <1>1, <1>2, <1>4
-----------------------------------------------------------------------------
\* All handles the list keeps.
Kept == {h \in Nat : \E id \in PwIds : h \in Handles(pwHints, id)}

\* The list and the library.
LockInv ==
  /\ pwCalls \in 0..PwMaxCalls
  /\ WellFormed(pwHints, pwCalls)
  /\ pwHeld \subseteq 1..pwCalls
  /\ pwHeld = Kept \/ PwOdd({"stuck"})

\* The display's lock is known to display_hint_sent.
DisplayInv ==
  Handles(pwHints, "display") = {} \/ (pwSent /\ \E h : Handles(pwHints, "display") = {h})

\* The governors under which the lock of a video is had.
Performing(v) == IF v = "encode" THEN {"interactive"} ELSE {"ondemand", "interactive"}

\* The locks of the videos that run, and that their governor is still there.
VideoInv ==
  \A v \in PwVideo :
    /\ pwActive[v] \in Nat /\ IsFiniteSet(Handles(pwHints, v))
    /\ \/ PwOdd({"failed", "switched", "kept"})
       \/ /\ Cardinality(Handles(pwHints, v)) = pwActive[v]
          /\ pwActive[v] > 0 => pwGovernor \in Performing(v)

\* The slack nodes: scaled once at most, and then with their values saved and
\* under the governor that will restore them.
NodeInv ==
  /\ pwMode \in {-1, 0, 1}
  /\ \A n \in PwNodes : pwNode[n] \in Nat /\ pwSaved[n] \in Nat \cup {-1}
  /\ \/ PwOdd({"unreached", "switchedDark"})
     \/ \A n \in PwNodes :
          /\ pwSaved[n] \in {-1, 0}
          /\ pwNode[n] # 0 => pwMode = 0 /\ pwSaved[n] = 0 /\ pwGovernor = "msm-dcvs"

PwInv ==
  /\ pwActive \in [PwVideo -> Nat] /\ pwGovernor \in PwGovernors
  /\ LockInv /\ DisplayInv /\ VideoInv /\ NodeInv
-----------------------------------------------------------------------------
LEMMA OddStays == ASSUME NEW S, pwPast \subseteq pwPast', PwOdd(S) PROVE PwOdd(S)'
  BY DEF PwOdd

LEMMA PerformEffect ==
  ASSUME LockInv, PwCall, NEW id \in PwIds, perform_hint_action(id)
  PROVE  /\ LockInv' /\ pwPast \subseteq pwPast'
         /\ \/ /\ pwCalls + 1 \notin Handles(pwHints, id)
               /\ \A x \in PwIds : Handles(pwHints', x) =
                    IF x = id THEN Handles(pwHints, x) \cup {pwCalls + 1} ELSE Handles(pwHints, x)
            \/ pwHints' = pwHints /\ "failed" \in pwPast'
<1>1. pwCalls \in Nat /\ pwCalls' = pwCalls + 1 /\ pwCalls' \in 0..PwMaxCalls
  BY PowerAssumption DEF LockInv, PwCall
<1>2. WellFormed(pwHints, pwCalls) /\ pwHeld \subseteq 1..pwCalls
  BY DEF LockInv
<1>3. CASE /\ pwHints' = <<<<id, pwCalls + 1>>>> \o pwHints /\ pwHeld' = pwHeld \cup {pwCalls + 1}
           /\ pwPast' = pwPast
  <2>1. /\ WellFormed(pwHints', pwCalls')
        /\ pwCalls + 1 \notin Handles(pwHints, id)
        /\ \A x \in PwIds : Handles(pwHints', x) =
             IF x = id THEN Handles(pwHints, x) \cup {pwCalls + 1} ELSE Handles(pwHints, x)
    <3>1. /\ WellFormed(<<<<id, pwCalls + 1>>>> \o pwHints, pwCalls + 1)
          /\ pwCalls + 1 \notin Handles(pwHints, id)
          /\ \A x \in PwIds : Handles(<<<<id, pwCalls + 1>>>> \o pwHints, x) =
               IF x = id THEN Handles(pwHints, x) \cup {pwCalls + 1} ELSE Handles(pwHints, x)
      BY <1>1, <1>2, Pushed
    <3> QED
      BY <1>1, <1>3, <3>1, Zenon
  <2>2. Kept' = Kept \cup {pwCalls + 1}
    <3>1. Kept \subseteq Nat /\ Kept' \subseteq Nat /\ pwCalls + 1 \in Nat
      BY <1>1 DEF Kept
    <3>2. ASSUME NEW h \in Nat PROVE h \in Kept' <=> h \in Kept \/ h = pwCalls + 1
      BY <2>1 DEF Kept
    <3> QED
      BY <3>1, <3>2
  <2>3. pwHeld' \subseteq 1..pwCalls'
    BY <1>1, <1>2, <1>3
  <2>4. pwHeld' = Kept' \/ PwOdd({"stuck"})'
    BY <1>3, <2>2 DEF LockInv, PwOdd
  <2> QED
    BY <1>1, <1>3, <2>1, <2>3, <2>4 DEF LockInv
<1>4. CASE pwHints' = pwHints /\ pwHeld' = pwHeld /\ pwPast' = pwPast \cup {"failed"}
  <2>1. WellFormed(pwHints', pwCalls')
    BY <1>1, <1>2, <1>4, StaysWellFormed
  <2>2. pwHeld' \subseteq 1..pwCalls'
    BY <1>1, <1>2, <1>4
  <2>3. pwHeld' = Kept' \/ PwOdd({"stuck"})'
    BY <1>4 DEF LockInv, PwOdd, Kept
  <2> QED
    BY <1>1, <1>4, <2>1, <2>2, <2>3 DEF LockInv
<1>5. CASE /\ pwHints' = pwHints /\ pwHeld' = pwHeld \cup {pwCalls + 1}
           /\ pwPast' = pwPast \cup {"failed", "stuck"}
  <2>1. WellFormed(pwHints', pwCalls')
    BY <1>1, <1>2, <1>5, StaysWellFormed
  <2>2. pwHeld' \subseteq 1..pwCalls'
    BY <1>1, <1>2, <1>5
  <2>3. PwOdd({"stuck"})' /\ "failed" \in pwPast' /\ pwPast \subseteq pwPast'
    BY <1>5 DEF PwOdd
  <2> QED
    BY <1>1, <1>5, <2>1, <2>2, <2>3 DEF LockInv
<1> QED
  BY <1>3, <1>4, <1>5 DEF perform_hint_action

LEMMA UndoEffect ==
  ASSUME LockInv, PwCall, NEW id \in PwIds, undo_hint_action(id)
  PROVE  /\ LockInv' /\ pwPast \subseteq pwPast'
         /\ \/ pwHints' = pwHints /\ Handles(pwHints, id) = {}
            \/ \E h \in Handles(pwHints, id) : \A x \in PwIds : Handles(pwHints', x) =
                 IF x = id THEN Handles(pwHints, x) \ {h} ELSE Handles(pwHints, x)
<1>1. pwCalls \in Nat /\ pwCalls' = pwCalls + 1 /\ pwCalls' \in 0..PwMaxCalls
  BY PowerAssumption DEF LockInv, PwCall
<1>2. WellFormed(pwHints, pwCalls) /\ pwHeld \subseteq 1..pwCalls
  BY DEF LockInv
<1>3. pwHints \in Seq(PwIds \X Nat) /\ DOMAIN pwHints = 1..Len(pwHints) /\ Len(pwHints) \in Nat
  BY <1>2, SMTT(60) DEF WellFormed
<1> DEFINE found == {k \in DOMAIN pwHints : pwHints[k][1] = id}
           first == CHOOSE k \in found : \A j \in found : k <= j
<1>4. \/ found = {} /\ pwHints' = pwHints /\ pwHeld' = pwHeld /\ pwPast' = pwPast
      \/ /\ found # {} /\ pwHints' = Without(pwHints, first)
         /\ \/ pwHeld' = pwHeld \ {pwHints[first][2]} /\ pwPast' = pwPast
            \/ pwHeld' = pwHeld /\ pwPast' = pwPast \cup {"stuck"}
  BY DEF undo_hint_action, PwWithout, Without
<1>5. CASE found = {}
  <2>1. WellFormed(pwHints', pwCalls')
    BY <1>1, <1>2, <1>4, <1>5, StaysWellFormed
  <2>5. pwHeld' \subseteq pwHeld
    BY <1>4, <1>5
  <2>2. pwHeld' \subseteq 1..pwCalls'
    BY <1>1, <1>2, <2>5
  <2>3. pwHeld' = Kept' \/ PwOdd({"stuck"})'
    BY <1>4, <1>5 DEF LockInv, PwOdd, Kept
  <2>4. Handles(pwHints, id) = {}
    <3>1. \A k \in 1..Len(pwHints) : pwHints[k][1] # id
      BY <1>3, <1>5
    <3>2. \A h : \A k \in 1..Len(pwHints) : pwHints[k] # <<id, h>>
      BY <3>1
    <3> QED
      BY <3>2 DEF Handles
  <2> QED
    BY <1>1, <1>4, <1>5, <2>1, <2>2, <2>3, <2>4 DEF LockInv
<1>6. CASE found # {}
  <2>1. first \in found
    <3>1. found \in SUBSET Nat
      BY <1>3
    <3> HIDE DEF found
    <3>2. \E k \in found : \A j \in found : k <= j
      BY <1>6, <3>1, LeastElement
    <3> QED
      BY <3>2
  <2> HIDE DEF first
  <2> DEFINE h == pwHints[first][2]
  <2>2. first \in 1..Len(pwHints) /\ pwHints[first][1] = id
    BY <1>3, <2>1
  <2>3. /\ WellFormed(pwHints', pwCalls) /\ h \in Handles(pwHints, id)
        /\ \A x \in PwIds : Handles(pwHints', x) =
             IF x = id THEN Handles(pwHints, x) \ {h} ELSE Handles(pwHints, x)
    BY <1>1, <1>2, <1>4, <1>6, <2>2, Removed
  <2>4. WellFormed(pwHints', pwCalls')
    BY <1>1, <2>3, StaysWellFormed
  <2>10. pwHeld' \subseteq pwHeld
    BY <1>4, <1>6
  <2>5. pwHeld' \subseteq 1..pwCalls'
    BY <1>1, <1>2, <2>10
  <2> HIDE DEF h
  <2>6. \A x \in PwIds : h \in Handles(pwHints, x) => x = id
    BY <1>1, <1>2, <2>3, HandlesApart
  <2>7. Kept' = Kept \ {h}
    <3>1. Kept \subseteq Nat /\ Kept' \subseteq Nat
      BY DEF Kept
    <3>2. ASSUME NEW g \in Nat PROVE g \in Kept' <=> g \in Kept /\ g # h
      BY <2>3, <2>6 DEF Kept
    <3> QED
      BY <3>1, <3>2
  <2>8. pwHeld' = Kept' \/ PwOdd({"stuck"})'
    BY <1>4, <1>6, <2>7 DEF LockInv, PwOdd, h
  <2>9. pwPast \subseteq pwPast'
    BY <1>4, <1>6
  <2> QED
    BY <1>1, <2>3, <2>4, <2>5, <2>8, <2>9 DEF LockInv
<1> QED
  BY <1>5, <1>6

\* A call that leaves the list alone.
LEMMA ListStays ==
  ASSUME LockInv, PwCall, UNCHANGED <<pwHints, pwHeld>>, pwPast \subseteq pwPast'
  PROVE  LockInv'
<1>1. pwCalls \in Nat /\ pwCalls' = pwCalls + 1 /\ pwCalls' \in 0..PwMaxCalls
  BY PowerAssumption DEF LockInv, PwCall
<1>2. WellFormed(pwHints', pwCalls')
  BY <1>1, StaysWellFormed DEF LockInv
<1>3. pwHeld' \subseteq 1..pwCalls'
  BY <1>1 DEF LockInv
<1> QED
  BY <1>1, <1>2, <1>3, OddStays DEF LockInv, Kept

\* What the calls that keep the list of a video do to its count.
LEMMA VideoStays ==
  ASSUME VideoInv, UNCHANGED <<pwActive, pwGovernor>>, pwPast \subseteq pwPast',
         \A v \in PwVideo : Handles(pwHints', v) = Handles(pwHints, v)
  PROVE  VideoInv'
<1>1. \A v \in PwVideo : Handles(pwHints, v)' = Handles(pwHints, v)
  OBVIOUS
<1> QED
  BY <1>1, OddStays DEF VideoInv, Performing

LEMMA PwInitInv == PwInit => PwInv
<1> SUFFICES ASSUME PwInit PROVE PwInv
  OBVIOUS
<1>1. pwHints = <<>> /\ Len(pwHints) = 0 /\ pwHints \in Seq(PwIds \X Nat)
  BY DEF PwInit
<1>2. \A id : Handles(pwHints, id) = {}
  BY <1>1 DEF Handles
<1>3. LockInv
  <2>1. WellFormed(pwHints, pwCalls)
    BY <1>1 DEF WellFormed
  <2>2. pwHeld = Kept
    BY <1>2 DEF PwInit, Kept
  <2> QED
    BY <2>1, <2>2, PowerAssumption DEF PwInit, LockInv
<1>4. DisplayInv
  BY <1>2 DEF DisplayInv
<1>5. VideoInv
  <2>1. \A v \in PwVideo : pwActive[v] = 0
    BY DEF PwInit
  <2>2. \A v : IsFiniteSet(Handles(pwHints, v)) /\ Cardinality(Handles(pwHints, v)) = 0
    BY <1>2, FS_EmptySet
  <2> QED
    BY <2>1, <2>2 DEF VideoInv
<1>6. NodeInv
  BY DEF PwInit, NodeInv
<1>7. pwActive \in [PwVideo -> Nat] /\ pwGovernor \in PwGovernors
  BY DEF PwInit
<1> QED
  BY <1>3, <1>4, <1>5, <1>6, <1>7 DEF PwInv

LEMMA VideoStep ==
  ASSUME PwInv, NEW v \in PwVideo, PwVideoStarts(v) \/ PwVideoEnds(v)
  PROVE  PwInv'
<1>0. /\ PwCall /\ UNCHANGED <<pwGovernor, pwSent, pwMode, pwSaved, pwNode>>
      /\ LockInv /\ DisplayInv /\ VideoInv /\ NodeInv /\ v \in PwIds /\ v # "display"
      /\ "display" \in PwIds /\ PwVideo \subseteq PwIds
      /\ pwActive \in [PwVideo -> Nat] /\ pwGovernor \in PwGovernors
  BY DEF PwVideoStarts, PwVideoEnds, PwInv, PwIds, PwVideo
<1>1. ASSUME pwPast \subseteq pwPast' PROVE NodeInv'
  BY <1>0, <1>1, OddStays DEF NodeInv
<1>2. CASE PwVideoStarts(v)
  <2>1. pwActive' = [pwActive EXCEPT ![v] = @ + 1]
    BY <1>2 DEF PwVideoStarts
  <2>2. /\ pwActive' \in [PwVideo -> Nat] /\ pwActive'[v] = pwActive[v] + 1
        /\ \A u \in PwVideo : u # v => pwActive'[u] = pwActive[u]
    BY <1>0, <2>1
  <2>3. CASE PwPerforms(v) /\ perform_hint_action(v)
    <3>1. /\ LockInv' /\ pwPast \subseteq pwPast'
          /\ \/ /\ pwCalls + 1 \notin Handles(pwHints, v)
                /\ \A x \in PwIds : Handles(pwHints', x) =
                     IF x = v THEN Handles(pwHints, x) \cup {pwCalls + 1} ELSE Handles(pwHints, x)
             \/ pwHints' = pwHints /\ "failed" \in pwPast'
      BY <1>0, <2>3, PerformEffect
    <3>2. Handles(pwHints', "display") = Handles(pwHints, "display")
      BY <1>0, <3>1
    <3>3. DisplayInv'
      BY <1>0, <3>2 DEF DisplayInv
    <3>4. VideoInv'
      <4>1. CASE pwHints' = pwHints /\ "failed" \in pwPast'
        BY <1>0, <2>2, <4>1 DEF VideoInv, PwOdd
      <4>2. CASE /\ pwCalls + 1 \notin Handles(pwHints, v)
                 /\ \A x \in PwIds : Handles(pwHints', x) =
                      IF x = v THEN Handles(pwHints, x) \cup {pwCalls + 1} ELSE Handles(pwHints, x)
        <5>1. /\ IsFiniteSet(Handles(pwHints', v))
              /\ Cardinality(Handles(pwHints', v)) = Cardinality(Handles(pwHints, v)) + 1
          BY <1>0, <4>2, FS_AddElement DEF VideoInv
        <5>2. pwGovernor \in Performing(v)
          BY <2>3 DEF PwPerforms, Performing
        <5>3. \A u \in PwVideo : u # v => Handles(pwHints', u) = Handles(pwHints, u)
          BY <1>0, <4>2
        <5> QED
          BY <1>0, <2>2, <3>1, <5>1, <5>2, <5>3, OddStays DEF VideoInv, Performing
      <4> QED
        BY <3>1, <4>1, <4>2
    <3> QED
      BY <1>0, <1>1, <2>2, <3>1, <3>3, <3>4 DEF PwInv
  <2>4. CASE pwPast' = pwPast \cup {"failed"} /\ UNCHANGED <<pwHints, pwHeld>>
    <3>1. LockInv' /\ NodeInv'
      BY <1>0, <1>1, <2>4, ListStays
    <3>2. DisplayInv'
      BY <1>0, <2>4 DEF DisplayInv
    <3>3. VideoInv'
      BY <1>0, <2>2, <2>4 DEF VideoInv, PwOdd
    <3> QED
      BY <1>0, <2>2, <3>1, <3>2, <3>3 DEF PwInv
  <2> QED
    BY <1>2, <2>3, <2>4 DEF PwVideoStarts
<1>3. CASE PwVideoEnds(v)
  <2>1. pwActive[v] > 0 /\ pwActive' = [pwActive EXCEPT ![v] = @ - 1]
    BY <1>3 DEF PwVideoEnds
  <2>2. /\ pwActive' \in [PwVideo -> Nat] /\ pwActive'[v] = pwActive[v] - 1
        /\ \A u \in PwVideo : u # v => pwActive'[u] = pwActive[u]
    BY <1>0, <2>1
  <2>3. CASE PwUndoes(v) /\ undo_hint_action(v)
    <3>1. /\ LockInv' /\ pwPast \subseteq pwPast'
          /\ \/ pwHints' = pwHints /\ Handles(pwHints, v) = {}
             \/ \E h \in Handles(pwHints, v) : \A x \in PwIds : Handles(pwHints', x) =
                  IF x = v THEN Handles(pwHints, x) \ {h} ELSE Handles(pwHints, x)
      BY <1>0, <2>3, UndoEffect
    <3>2. Handles(pwHints', "display") = Handles(pwHints, "display")
      BY <1>0, <3>1
    <3>3. DisplayInv'
      BY <1>0, <3>2 DEF DisplayInv
    <3>4. VideoInv'
      <4>1. CASE pwHints' = pwHints /\ Handles(pwHints, v) = {}
        <5>1. PwOdd({"failed", "switched", "kept"})
          BY <1>0, <2>1, <4>1, FS_EmptySet DEF VideoInv
        <5> QED
          BY <1>0, <2>2, <3>1, <4>1, <5>1, OddStays DEF VideoInv
      <4>2. CASE \E h \in Handles(pwHints, v) : \A x \in PwIds : Handles(pwHints', x) =
                   IF x = v THEN Handles(pwHints, x) \ {h} ELSE Handles(pwHints, x)
        <5>1. PICK h \in Handles(pwHints, v) : \A x \in PwIds : Handles(pwHints', x) =
                     IF x = v THEN Handles(pwHints, x) \ {h} ELSE Handles(pwHints, x)
          BY <4>2
        <5>2. /\ IsFiniteSet(Handles(pwHints', v))
              /\ Cardinality(Handles(pwHints', v)) = Cardinality(Handles(pwHints, v)) - 1
          BY <1>0, <5>1, FS_RemoveElement DEF VideoInv
        <5>3. \A u \in PwVideo : u # v => Handles(pwHints', u) = Handles(pwHints, u)
          BY <1>0, <5>1
        <5> QED
          BY <1>0, <2>1, <2>2, <3>1, <5>2, <5>3, OddStays DEF VideoInv, Performing
      <4> QED
        BY <3>1, <4>1, <4>2
    <3> QED
      BY <1>0, <1>1, <2>2, <3>1, <3>3, <3>4 DEF PwInv
  <2>4. CASE /\ ~PwUndoes(v) /\ UNCHANGED <<pwHints, pwHeld>>
             /\ pwPast' = pwPast \cup (IF pwGovernor = "ondemand" /\ v = "decode" THEN {"kept"} ELSE {})
    <3>1. LockInv' /\ NodeInv' /\ pwPast \subseteq pwPast'
      BY <1>0, <1>1, <2>4, ListStays
    <3>2. DisplayInv'
      BY <1>0, <2>4 DEF DisplayInv
    <3>3. PwOdd({"failed", "switched", "kept"}) \/ pwGovernor \in Performing(v)
      BY <1>0, <2>1 DEF VideoInv
    <3>4. PwOdd({"failed", "switched", "kept"})'
      <4>1. CASE PwOdd({"failed", "switched", "kept"})
        BY <3>1, <4>1, OddStays
      <4>2. CASE pwGovernor \in Performing(v)
        <5>1. v = "decode" /\ pwGovernor = "ondemand"
          BY <2>4, <4>2 DEF Performing, PwUndoes, PwVideo
        <5> QED
          BY <2>4, <5>1 DEF PwOdd
      <4> QED
        BY <3>3, <4>1, <4>2
    <3>5. VideoInv'
      BY <1>0, <2>2, <2>4, <3>4 DEF VideoInv
    <3> QED
      BY <1>0, <2>2, <3>1, <3>2, <3>5 DEF PwInv
  <2> QED
    BY <1>3, <2>3, <2>4 DEF PwVideoEnds
<1> QED
  BY <1>2, <1>3

\* Under the other governors no node is scaled, so that any mode will do.
LEMMA NodesStay ==
  ASSUME NodeInv, pwGovernor # "msm-dcvs" \/ pwMode # 0 \/ pwMode' = pwMode,
         UNCHANGED <<pwSaved, pwNode, pwGovernor>>,
         pwPast \subseteq pwPast', pwMode' \in {-1, 0, 1}
  PROVE  NodeInv'
<1>1. CASE PwOdd({"unreached", "switchedDark"})
  BY <1>1, OddStays DEF NodeInv
<1>2. CASE ~PwOdd({"unreached", "switchedDark"})
  <2>1. \A n \in PwNodes :
          /\ pwSaved[n] \in {-1, 0}
          /\ pwNode[n] # 0 => pwMode = 0 /\ pwSaved[n] = 0 /\ pwGovernor = "msm-dcvs"
    BY <1>2 DEF NodeInv
  <2> QED
    BY <2>1 DEF NodeInv
<1> QED
  BY <1>1, <1>2

\* The display goes off under msm-dcvs: values are scaled only from the originals.
LEMMA SlackOffStep ==
  ASSUME NodeInv, PwSlackOff, pwGovernor = "msm-dcvs", pwMode' = 0, UNCHANGED pwGovernor
  PROVE  NodeInv' /\ pwPast \subseteq pwPast'
<1>1. CASE pwMode # 1 /\ UNCHANGED <<pwHints, pwHeld, pwSent, pwSaved, pwNode, pwPast>>
  <2>1. \A n \in PwNodes : pwNode[n] \in Nat /\ pwSaved[n] \in Nat \cup {-1}
    BY DEF NodeInv
  <2>2. CASE PwOdd({"unreached", "switchedDark"})
    BY <1>1, <2>1, <2>2, OddStays DEF NodeInv
  <2>3. CASE ~PwOdd({"unreached", "switchedDark"})
    BY <1>1, <2>1, <2>3 DEF NodeInv
  <2> QED
    BY <1>1, <2>2, <2>3
<1>2. CASE pwMode = 1 /\ \E unread, unwritten \in SUBSET PwNodes :
             /\ pwSaved' = [n \in PwNodes |-> IF n \in unread THEN pwSaved[n] ELSE pwNode[n]]
             /\ pwNode' = [n \in PwNodes |-> IF n \in unwritten \/ pwSaved'[n] = -1 THEN pwNode[n]
                                             ELSE pwSaved'[n] + 1]
             /\ pwPast' = pwPast \cup PwUnreached(unread \cup unwritten)
  <2>1. PICK unread \in SUBSET PwNodes, unwritten \in SUBSET PwNodes :
             /\ pwSaved' = [n \in PwNodes |-> IF n \in unread THEN pwSaved[n] ELSE pwNode[n]]
             /\ pwNode' = [n \in PwNodes |-> IF n \in unwritten \/ pwSaved'[n] = -1 THEN pwNode[n]
                                             ELSE pwSaved'[n] + 1]
             /\ pwPast' = pwPast \cup PwUnreached(unread \cup unwritten)
    BY <1>2
  <2>2. pwPast \subseteq pwPast'
    BY <2>1
  <2>3. ASSUME NEW n \in PwNodes
        PROVE  /\ pwSaved'[n] = IF n \in unread THEN pwSaved[n] ELSE pwNode[n]
               /\ pwNode'[n] = IF n \in unwritten \/ pwSaved'[n] = -1 THEN pwNode[n]
                               ELSE pwSaved'[n] + 1
    BY <2>1
  <2>4. ASSUME NEW n \in PwNodes
        PROVE  pwNode'[n] \in Nat /\ pwSaved'[n] \in Nat \cup {-1}
    <3>1. pwNode[n] \in Nat /\ pwSaved[n] \in Nat \cup {-1}
      BY DEF NodeInv
    <3>2. pwSaved'[n] \in Nat \cup {-1}
      BY <2>3, <3>1
    <3>3. CASE n \in unwritten \/ pwSaved'[n] = -1
      BY <2>3, <3>1, <3>2, <3>3
    <3>4. CASE n \notin unwritten /\ pwSaved'[n] # -1
      <4>1. pwSaved'[n] \in Nat /\ pwNode'[n] = pwSaved'[n] + 1
        BY <2>3, <3>2, <3>4
      <4> QED
        BY <3>2, <4>1
    <3> QED
      BY <3>3, <3>4
  <2>5. CASE PwOdd({"unreached", "switchedDark"})
    <3>1. PwOdd({"unreached", "switchedDark"})'
      BY <2>2, <2>5, OddStays
    <3> QED
      BY <2>2, <2>4, <3>1 DEF NodeInv
  <2>6. CASE ~PwOdd({"unreached", "switchedDark"})
    <3>1. \A n \in PwNodes : pwNode[n] = 0 /\ pwSaved[n] \in {-1, 0}
      <4>1. \A n \in PwNodes : pwSaved[n] \in {-1, 0} /\ (pwNode[n] # 0 => pwMode = 0)
        BY <2>6 DEF NodeInv
      <4> QED
        BY <1>2, <4>1
    <3>2. ASSUME NEW n \in PwNodes
          PROVE  pwSaved'[n] \in {-1, 0} /\ (pwNode'[n] # 0 => pwSaved'[n] = 0)
      BY <2>3, <3>1
    <3> QED
      BY <2>2, <2>4, <3>2 DEF NodeInv
  <2> QED
    BY <2>5, <2>6
<1> QED
  BY <1>1, <1>2 DEF PwSlackOff

\* The display goes on under msm-dcvs: what was saved is written back.
LEMMA SlackOnStep ==
  ASSUME NodeInv, PwSlackOn, pwMode' = 1, UNCHANGED pwGovernor
  PROVE  NodeInv' /\ pwPast \subseteq pwPast'
<1>1. CASE pwMode = 1 /\ UNCHANGED <<pwHints, pwHeld, pwSent, pwSaved, pwNode, pwPast>>
  BY <1>1, NodesStay
<1>2. CASE pwMode # 1 /\ UNCHANGED pwSaved /\ \E unwritten \in SUBSET PwNodes :
             /\ pwNode' = [n \in PwNodes |-> IF n \in unwritten \/ pwSaved[n] = -1 THEN pwNode[n]
                                             ELSE pwSaved[n]]
             /\ pwPast' = pwPast \cup PwUnreached(unwritten)
  <2>1. PICK unwritten \in SUBSET PwNodes :
             /\ pwNode' = [n \in PwNodes |-> IF n \in unwritten \/ pwSaved[n] = -1 THEN pwNode[n]
                                             ELSE pwSaved[n]]
             /\ pwPast' = pwPast \cup PwUnreached(unwritten)
    BY <1>2
  <2>2. pwPast \subseteq pwPast'
    BY <2>1
  <2>3. ASSUME NEW n \in PwNodes
        PROVE  pwNode'[n] = IF n \in unwritten \/ pwSaved[n] = -1 THEN pwNode[n] ELSE pwSaved[n]
    BY <2>1
  <2>4. ASSUME NEW n \in PwNodes
        PROVE  pwNode'[n] \in Nat /\ pwSaved'[n] \in Nat \cup {-1}
    BY <1>2, <2>3 DEF NodeInv
  <2>5. CASE PwOdd({"unreached", "switchedDark"}) \/ unwritten # {}
    <3>1. PwOdd({"unreached", "switchedDark"})'
      <4>1. CASE PwOdd({"unreached", "switchedDark"})
        BY <2>2, <4>1, OddStays
      <4>2. CASE unwritten # {}
        BY <2>1, <4>2 DEF PwOdd, PwUnreached
      <4> QED
        BY <2>5, <4>1, <4>2
    <3> QED
      BY <2>2, <2>4, <3>1 DEF NodeInv
  <2>6. CASE ~PwOdd({"unreached", "switchedDark"}) /\ unwritten = {}
    <3>1. \A n \in PwNodes : pwSaved[n] \in {-1, 0} /\ (pwNode[n] # 0 => pwSaved[n] = 0)
      BY <2>6 DEF NodeInv
    <3>2. ASSUME NEW n \in PwNodes PROVE pwSaved'[n] \in {-1, 0} /\ pwNode'[n] = 0
      <4>1. pwNode'[n] = IF pwSaved[n] = -1 THEN pwNode[n] ELSE pwSaved[n]
        BY <2>3, <2>6
      <4>2. pwSaved[n] \in {-1, 0} /\ (pwNode[n] # 0 => pwSaved[n] = 0) /\ pwSaved'[n] = pwSaved[n]
        BY <1>2, <3>1
      <4>3. CASE pwSaved[n] = -1
        BY <4>1, <4>2, <4>3
      <4>4. CASE pwSaved[n] = 0
        BY <4>1, <4>2, <4>4
      <4> QED
        BY <4>2, <4>3, <4>4
    <3> QED
      BY <2>2, <2>4, <3>2 DEF NodeInv
  <2> QED
    BY <2>5, <2>6
<1> QED
  BY <1>1, <1>2 DEF PwSlackOn

LEMMA InteractiveStep ==
  ASSUME PwInv, NEW on \in BOOLEAN, set_interactive(on)
  PROVE  PwInv'
<1>0. /\ PwCall /\ UNCHANGED <<pwGovernor, pwActive>>
      /\ pwMode' = IF pwGovernor = "unreadable" THEN pwMode ELSE IF on THEN 1 ELSE 0
      /\ LockInv /\ DisplayInv /\ VideoInv /\ NodeInv
      /\ "display" \in PwIds /\ "display" \notin PwVideo /\ PwVideo \subseteq PwIds
      /\ pwActive \in [PwVideo -> Nat] /\ pwGovernor \in PwGovernors
  BY DEF set_interactive, PwInv, PwIds, PwVideo
<1>1. pwMode' \in {-1, 0, 1}
  BY <1>0 DEF NodeInv
<1>2. ASSUME LockInv', DisplayInv', VideoInv', NodeInv' PROVE PwInv'
  BY <1>0, <1>2 DEF PwInv
<1>3. ASSUME UNCHANGED <<pwHints, pwHeld, pwSent>>, pwPast \subseteq pwPast'
      PROVE  LockInv' /\ DisplayInv' /\ VideoInv'
  <2>1. LockInv'
    BY <1>0, <1>3, ListStays
  <2>2. DisplayInv'
    BY <1>0, <1>3 DEF DisplayInv
  <2>3. VideoInv'
    BY <1>0, <1>3, VideoStays
  <2> QED
    BY <2>1, <2>2, <2>3
<1>4. CASE pwGovernor \in {"ondemand", "interactive"} /\ ~on /\ PwDisplayOff
  <2>0. UNCHANGED <<pwSaved, pwNode>>
    BY <1>4 DEF PwDisplayOff
  <2>1. CASE ~pwSent /\ perform_hint_action("display") /\ pwSent' = TRUE
    <3>1. /\ LockInv' /\ pwPast \subseteq pwPast'
          /\ \/ /\ pwCalls + 1 \notin Handles(pwHints, "display")
                /\ \A x \in PwIds : Handles(pwHints', x) =
                     IF x = "display" THEN Handles(pwHints, x) \cup {pwCalls + 1}
                     ELSE Handles(pwHints, x)
             \/ pwHints' = pwHints /\ "failed" \in pwPast'
      BY <1>0, <2>1, PerformEffect
    <3>2. Handles(pwHints, "display") = {}
      BY <1>0, <2>1 DEF DisplayInv
    <3>3. Handles(pwHints', "display") = {} \/ \E h : Handles(pwHints', "display") = {h}
      BY <1>0, <3>1, <3>2
    <3>4. DisplayInv'
      BY <2>1, <3>3 DEF DisplayInv
    <3>5. \A v \in PwVideo : Handles(pwHints', v) = Handles(pwHints, v)
      BY <1>0, <3>1
    <3>6. VideoInv'
      BY <1>0, <3>1, <3>5, VideoStays
    <3>7. NodeInv'
      BY <1>0, <1>1, <1>4, <2>0, <3>1, NodesStay
    <3> QED
      BY <1>2, <3>1, <3>4, <3>6, <3>7
  <2>2. CASE pwSent /\ UNCHANGED <<pwHints, pwHeld, pwSent, pwPast>>
    <3>1. NodeInv'
      BY <1>0, <1>1, <1>4, <2>0, <2>2, NodesStay
    <3> QED
      BY <1>2, <1>3, <2>2, <3>1
  <2> QED
    BY <1>4, <2>1, <2>2 DEF PwDisplayOff
<1>5. CASE pwGovernor \in {"ondemand", "interactive"} /\ on /\ PwDisplayOn
  <2>0. UNCHANGED <<pwSaved, pwNode>> /\ undo_hint_action("display")
    BY <1>5 DEF PwDisplayOn
  <2>1. /\ LockInv' /\ pwPast \subseteq pwPast'
        /\ \/ pwHints' = pwHints /\ Handles(pwHints, "display") = {}
           \/ \E h \in Handles(pwHints, "display") : \A x \in PwIds : Handles(pwHints', x) =
                IF x = "display" THEN Handles(pwHints, x) \ {h} ELSE Handles(pwHints, x)
    BY <1>0, <2>0, UndoEffect
  <2>2. Handles(pwHints', "display") = {}
    BY <1>0, <2>1 DEF DisplayInv
  <2>3. DisplayInv'
    BY <2>2 DEF DisplayInv
  <2>4. \A v \in PwVideo : Handles(pwHints', v) = Handles(pwHints, v)
    BY <1>0, <2>1
  <2>5. VideoInv'
    BY <1>0, <2>1, <2>4, VideoStays
  <2>6. NodeInv'
    BY <1>0, <1>1, <1>5, <2>0, <2>1, NodesStay
  <2> QED
    BY <1>2, <2>1, <2>3, <2>5, <2>6
<1>6. CASE pwGovernor = "msm-dcvs" /\ ~on /\ PwSlackOff
  <2>1. UNCHANGED <<pwHints, pwHeld, pwSent>>
    BY <1>6 DEF PwSlackOff
  <2>2. NodeInv' /\ pwPast \subseteq pwPast'
    BY <1>0, <1>6, SlackOffStep
  <2> QED
    BY <1>2, <1>3, <2>1, <2>2
<1>7. CASE pwGovernor = "msm-dcvs" /\ on /\ PwSlackOn
  <2>1. UNCHANGED <<pwHints, pwHeld, pwSent>>
    BY <1>7 DEF PwSlackOn
  <2>2. NodeInv' /\ pwPast \subseteq pwPast'
    BY <1>0, <1>7, SlackOnStep
  <2> QED
    BY <1>2, <1>3, <2>1, <2>2
<1>8. CASE /\ pwGovernor \in {"other", "unreadable"}
           /\ UNCHANGED <<pwHints, pwHeld, pwSent, pwSaved, pwNode, pwPast>>
  <2>1. NodeInv'
    BY <1>0, <1>1, <1>8, NodesStay
  <2> QED
    BY <1>2, <1>3, <1>8, <2>1
<1> QED
  BY <1>4, <1>5, <1>6, <1>7, <1>8 DEF set_interactive

LEMMA SwitchStep ==
  ASSUME PwInv, NEW g \in PwGovernors, PwSwitches(g)
  PROVE  PwInv'
<1>0. /\ PwCall /\ UNCHANGED <<pwHints, pwHeld, pwSent, pwMode, pwSaved, pwNode, pwActive>>
      /\ pwGovernor' = g /\ pwPast \subseteq pwPast'
      /\ LockInv /\ DisplayInv /\ VideoInv /\ NodeInv /\ pwActive \in [PwVideo -> Nat]
  BY DEF PwSwitches, PwInv
<1>1. LockInv'
  BY <1>0, ListStays
<1>2. DisplayInv'
  BY <1>0 DEF DisplayInv
<1>3. VideoInv'
  <2>1. CASE \E v \in PwVideo : pwActive[v] > 0
    <3>1. PwOdd({"failed", "switched", "kept"})'
      BY <2>1 DEF PwSwitches, PwOdd
    <3> QED
      BY <1>0, <3>1 DEF VideoInv
  <2>2. CASE ~ \E v \in PwVideo : pwActive[v] > 0
    BY <1>0, <2>2, OddStays DEF VideoInv
  <2> QED
    BY <2>1, <2>2
<1>4. NodeInv'
  <2>0. \A n \in PwNodes : pwNode[n] \in Nat /\ pwSaved[n] \in Nat \cup {-1}
    BY <1>0 DEF NodeInv
  <2>1. CASE pwMode = 0
    <3>1. PwOdd({"unreached", "switchedDark"})'
      BY <2>1 DEF PwSwitches, PwOdd
    <3> QED
      BY <1>0, <2>0, <2>1, <3>1 DEF NodeInv
  <2>2. CASE pwMode # 0
    <3>1. CASE PwOdd({"unreached", "switchedDark"})
      <4>1. PwOdd({"unreached", "switchedDark"})'
        BY <1>0, <3>1, OddStays
      <4> QED
        BY <1>0, <2>0, <4>1 DEF NodeInv
    <3>2. CASE ~PwOdd({"unreached", "switchedDark"})
      BY <1>0, <2>0, <2>2, <3>2 DEF NodeInv
    <3> QED
      BY <3>1, <3>2
  <2> QED
    BY <2>1, <2>2
<1> QED
  BY <1>0, <1>1, <1>2, <1>3, <1>4 DEF PwInv

LEMMA PwStep == PwInv /\ [PwNext]_pwVars => PwInv'
<1> SUFFICES ASSUME PwInv, [PwNext]_pwVars PROVE PwInv'
  OBVIOUS
<1>1. CASE UNCHANGED pwVars
  BY <1>1 DEF pwVars, PwInv, LockInv, DisplayInv, VideoInv, NodeInv, Kept, PwOdd
<1> QED
  BY <1>1, VideoStep, InteractiveStep, SwitchStep DEF PwNext

(***************************************************************************)
(* The entries of a hint in the list are as many as its handles.           *)
(***************************************************************************)
LEMMA EntriesAreHandles ==
  ASSUME NEW n \in Nat, NEW q, WellFormed(q, n), NEW id, IsFiniteSet(Handles(q, id)),
         NEW Ks, Ks = {k \in DOMAIN q : q[k][1] = id}
  PROVE  Cardinality(Ks) = Cardinality(Handles(q, id))
<1> DEFINE f == [k \in Ks |-> q[k][2]]
<1>1. q \in Seq(PwIds \X Nat) /\ DOMAIN q = 1..Len(q)
  BY DEF WellFormed
<1>2. \A k \in 1..Len(q) : q[k] = <<q[k][1], q[k][2]>> /\ q[k][2] \in Nat
  BY <1>1
<1>3. \A k \in Ks : k \in 1..Len(q) /\ q[k] = <<id, q[k][2]>> /\ q[k][2] \in Handles(q, id)
  BY <1>1, <1>2 DEF Handles
<1>4. f \in [Ks -> Handles(q, id)]
  BY <1>3
<1>5. ASSUME NEW h \in Handles(q, id) PROVE \E k \in Ks : f[k] = h
  <2>1. PICK k \in 1..Len(q) : q[k] = <<id, h>>
    BY DEF Handles
  <2>2. k \in Ks /\ q[k][2] = h
    BY <1>1, <2>1
  <2> QED
    BY <2>2
<1>6. \A j, k \in Ks : f[j] = f[k] => j = k
  BY <1>3 DEF WellFormed
<1>7. f \in Bijection(Ks, Handles(q, id))
  BY <1>4, <1>5, <1>6, Fun_IsBij
<1>8. ExistsBijection(Ks, Handles(q, id))
  BY <1>7 DEF ExistsBijection
<1> QED
  BY <1>8, FS_Bijection, Fun_ExistsBijSymmetric

(***************************************************************************)
(* The list of the power HAL holds only hints of the three ids with locks  *)
(* the library gave out, and the nodes hold numbers.                       *)
(***************************************************************************)
THEOREM PwTypeCorrect == PwSpec => []PwTypeOK
<1>1. PwInv => PwTypeOK
  <2> SUFFICES ASSUME PwInv PROVE PwTypeOK
    OBVIOUS
  <2>1. /\ pwHints \in Seq(PwIds \X Nat) /\ pwCalls \in 0..PwMaxCalls
        /\ \A k \in 1..Len(pwHints) : pwHints[k][2] \in 1..pwCalls
        /\ pwHeld \subseteq 1..pwCalls
    BY DEF PwInv, LockInv, WellFormed
  <2>2. \A k \in 1..Len(pwHints) : pwHints[k] \in PwIds \X (1..PwMaxCalls)
    <3> SUFFICES ASSUME NEW k \in 1..Len(pwHints)
                 PROVE  pwHints[k] \in PwIds \X (1..PwMaxCalls)
      OBVIOUS
    <3>1. pwHints[k] \in PwIds \X Nat
      BY <2>1
    <3>2. pwHints[k][2] \in 1..PwMaxCalls
      BY <2>1, PowerAssumption
    <3> QED
      BY <3>1, <3>2
  <2>3. pwHints \in Seq(PwIds \X (1..PwMaxCalls))
    BY <2>1, <2>2
  <2>4. pwHeld \subseteq 1..PwMaxCalls
    BY <2>1, PowerAssumption
  <2> QED
    BY <2>3, <2>4 DEF PwTypeOK, PwInv, NodeInv, PwIds
<1> QED
  BY <1>1, PwInitInv, PwStep, PTL DEF PwSpec

(***************************************************************************)
(* For any number of calls, nodes and changes of the governor: what        *)
(* perform_hint_action and set_interactive changed is changed back, but    *)
(* for what HintsUndone names.                                             *)
(***************************************************************************)
THEOREM HintsAreUndone == PwSpec => []HintsUndone
<1>1. PwInv => HintsUndone
  <2> SUFFICES ASSUME PwInv PROVE HintsUndone
    OBVIOUS
  <2>1. /\ pwCalls \in Nat /\ WellFormed(pwHints, pwCalls)
        /\ LockInv /\ DisplayInv /\ VideoInv /\ NodeInv
    BY DEF PwInv, LockInv
  <2>2. /\ pwHints \in Seq(PwIds \X Nat) /\ DOMAIN pwHints = 1..Len(pwHints)
        /\ \A j, k \in 1..Len(pwHints) : pwHints[j][2] = pwHints[k][2] => j = k
    BY <2>1 DEF WellFormed
  <2>3. \A k \in 1..Len(pwHints) : /\ pwHints[k] = <<pwHints[k][1], pwHints[k][2]>>
                                   /\ pwHints[k][1] \in PwIds /\ pwHints[k][2] \in Nat
    BY <2>2
  <2>4. Kept = {pwHints[k][2] : k \in DOMAIN pwHints}
    <3>1. ASSUME NEW h \in Kept PROVE \E k \in DOMAIN pwHints : h = pwHints[k][2]
      <4>1. PICK id \in PwIds : h \in Handles(pwHints, id)
        BY DEF Kept
      <4>2. PICK k \in 1..Len(pwHints) : pwHints[k] = <<id, h>>
        BY <4>1 DEF Handles
      <4>3. k \in DOMAIN pwHints
        BY <2>2, Zenon
      <4>4. pwHints[k][2] = h
        <5>1. <<id, h>>[2] = h
          OBVIOUS
        <5> QED
          BY <4>2, <5>1
      <4> QED
        BY <4>3, <4>4
    <3>2. ASSUME NEW k \in DOMAIN pwHints PROVE pwHints[k][2] \in Kept
      BY <2>2, <2>3 DEF Kept, Handles
    <3> QED
      BY <3>1, <3>2
  <2>5. pwHeld = {pwHints[k][2] : k \in DOMAIN pwHints} \/ PwOdd({"stuck"})
    BY <2>1, <2>4 DEF LockInv
  <2>6. ASSUME NEW j \in PwLocks("display"), NEW k \in PwLocks("display") PROVE j = k /\ pwSent
    <3>1. j \in 1..Len(pwHints) /\ k \in 1..Len(pwHints)
      BY <2>2 DEF PwLocks
    <3>2. pwHints[j] = <<"display", pwHints[j][2]>> /\ pwHints[k] = <<"display", pwHints[k][2]>>
      BY <2>3, <3>1 DEF PwLocks
    <3>3. pwHints[j][2] \in Handles(pwHints, "display") /\ pwHints[k][2] \in Handles(pwHints, "display")
      BY <2>3, <3>1, <3>2 DEF Handles
    <3>4. pwSent /\ pwHints[j][2] = pwHints[k][2]
      BY <2>1, <3>3 DEF DisplayInv
    <3> QED
      BY <2>2, <3>1, <3>4
  <2>7. ASSUME NEW v \in PwVideo
        PROVE  Cardinality(PwLocks(v)) = pwActive[v] \/ PwOdd({"failed", "switched", "kept"})
    <3>1. Cardinality(PwLocks(v)) = Cardinality(Handles(pwHints, v))
      BY <2>1, EntriesAreHandles DEF PwLocks, VideoInv
    <3> QED
      BY <2>1, <3>1 DEF VideoInv
  <2>8. pwMode = 1 => (\A n \in PwNodes : pwNode[n] = 0) \/ PwOdd({"unreached", "switchedDark"})
    <3> SUFFICES ASSUME pwMode = 1, ~PwOdd({"unreached", "switchedDark"}),
                        NEW n \in PwNodes
                 PROVE  pwNode[n] = 0
      OBVIOUS
    <3>1. pwNode[n] # 0 => pwMode = 0
      BY <2>1 DEF NodeInv
    <3>2. pwMode # 0
      OBVIOUS
    <3> QED
      BY <3>1, <3>2
  <2> QED
    BY <2>2, <2>5, <2>6, <2>7, <2>8 DEF HintsUndone
<1> QED
  BY <1>1, PwInitInv, PwStep, PTL DEF PwSpec
-----------------------------------------------------------------------------
(***************************************************************************)
(* The wireless power host.  The lists of steps that a thread can be left  *)
(* with are few; for each, what its next step makes of the list.  The      *)
(* fields are then related to what is still in the lists (A4Inv): a field  *)
(* that does not fit is about to be set.  When all is handled nothing is   *)
(* left, and the relation is the property.                                 *)
(***************************************************************************)
\* What may be left of the handlers of each thread.
A4GattLists ==
  {<<"off", "device", "connected", "dataOn">>, <<"device">>,
   <<"disconnected", "discingOff", "outputOff", "dataOff", "stop", "off", "mode", "unlock", "forget", "portOff">>,
   <<"portOff">>, <<"lock", "outputOn">>, <<"stop", "portOff", "outputOff">>,
   <<"device", "connected", "dataOn">>, <<>>,
   <<"discingOff", "outputOff", "dataOff", "stop", "off", "mode", "unlock", "forget", "portOff">>,
   <<"outputOn">>, <<"portOff", "outputOff">>, <<"connected", "dataOn">>,
   <<"outputOff", "dataOff", "stop", "off", "mode", "unlock", "forget", "portOff">>,
   <<"outputOff">>, <<"dataOn">>,
   <<"dataOff", "stop", "off", "mode", "unlock", "forget", "portOff">>,
   <<"stop", "off", "mode", "unlock", "forget", "portOff">>,
   <<"off", "mode", "unlock", "forget", "portOff">>, <<"mode", "unlock", "forget", "portOff">>,
   <<"long", "unlock", "forget", "portOff">>, <<"short", "unlock", "forget", "portOff">>,
   <<"unlock", "forget", "portOff">>, <<"forget", "portOff">>}

A4ChipLists ==
  {<<"enter", "ifConnected", "ifDevice", "discingOn", "cancel", "off", "mode", "leave">>,
   <<"ifNoPort", "ifOutput", "start", "portOn", "ifPort", "start">>,
   <<"ifNoPort", "ifOutput", "start", "portOn">>, <<"ifPort", "start">>, <<>>,
   <<"ifConnected", "ifDevice", "discingOn", "cancel", "off", "mode", "leave">>,
   <<"ifOutput", "start", "portOn", "ifPort", "start">>, <<"ifOutput", "start", "portOn">>,
   <<"start">>, <<"ifDevice", "discingOn", "cancel", "off", "mode", "leave">>, <<"leave">>,
   <<"start", "portOn", "ifPort", "start">>, <<"start", "portOn">>,
   <<"discingOn", "cancel", "off", "mode", "leave">>, <<"portOn", "ifPort", "start">>,
   <<"portOn">>, <<"cancel", "off", "mode", "leave">>, <<"off", "mode", "leave">>,
   <<"mode", "leave">>, <<"long", "leave">>, <<"short", "leave">>}

A4WbcLists ==
  {<<"enter", "ifConnected", "ifDevice", "discingOn", "cancel", "off", "mode", "leave">>,
   <<"off", "completeOff", "ifDisconnected", "short">>,
   <<"off", "completeOn", "ifDisconnected", "long">>,
   <<"ifConnected", "ifDevice", "discingOn", "cancel", "off", "mode", "leave">>,
   <<"completeOff", "ifDisconnected", "short">>, <<"completeOn", "ifDisconnected", "long">>,
   <<"ifDevice", "discingOn", "cancel", "off", "mode", "leave">>, <<"leave">>,
   <<"ifDisconnected", "short">>, <<"ifDisconnected", "long">>,
   <<"discingOn", "cancel", "off", "mode", "leave">>, <<>>, <<"short">>, <<"long">>,
   <<"cancel", "off", "mode", "leave">>, <<"off", "mode", "leave">>, <<"mode", "leave">>,
   <<"long", "leave">>, <<"short", "leave">>}

\* ... of the main thread, while the service is up and in onDestroy.
A4MainLists ==
  {<<"ifBoot", "mode", "unlock">>, <<"off", "mode", "bootOn">>, <<"off", "mode">>, <<>>,
   <<"mode", "unlock">>, <<"unlock">>, <<"mode", "bootOn">>, <<"mode">>, <<"long", "unlock">>,
   <<"short", "unlock">>, <<"long", "bootOn">>, <<"short", "bootOn">>, <<"long">>, <<"short">>,
   <<"bootOn">>}

A4EndLists ==
  {<<"unlock", "outputOff", "portOff">>, <<"outputOff", "portOff">>, <<"portOff">>}

\* The static fields.
A4Statics == {"discing", "complete", "output", "port", "boot"}

\* The types of the variables.
A4Typed ==
  /\ a4 \in [up : BOOLEAN, connected : BOOLEAN, device : {0} \cup A4Devices, lock : BOOLEAN]
  /\ a4Static \in SUBSET A4Statics
  /\ a4Chip \in [bound : BOOLEAN, apply : {"off", "short", "long"}, charging : BOOLEAN, data : BOOLEAN]
  /\ a4Peer \in {0} \cup A4Devices
  /\ a4World \in [linked : SUBSET A4Devices, told : SUBSET A4Devices, advertised : BOOLEAN]
  /\ a4World.told \subseteq a4World.linked

\* The handlers under way.
A4Lists ==
  /\ a4Todo = [t \in A4Threads |-> a4Todo[t]]
  /\ a4Todo["gatt"] \in A4GattLists /\ a4Todo["chip"] \in A4ChipLists
     /\ a4Todo["wbc"] \in A4WbcLists
  /\ a4Todo["main"] \in A4MainLists \/ (~a4.up /\ a4Todo["main"] \in A4EndLists)

\* The step x is still to be taken, in a list and by a thread; it is the next one.
A4In(s, x) == \E k \in DOMAIN s : s[k] = x
A4Due(t, x) == A4In(a4Todo[t], x)
A4At(t, x) == ~A4Idle(t) /\ Head(a4Todo[t]) = x

\* What the step x of thread t makes of the fields and of the chip.
A4StepEffect(x) ==
  /\ UNCHANGED <<a4Peer, a4World>>
  /\ a4'.up = a4.up
  /\ a4'.connected <=> x = "connected" \/ (a4.connected /\ x # "disconnected")
  /\ a4'.device = IF x = "device" THEN a4Peer ELSE IF x = "forget" THEN 0 ELSE a4.device
  /\ a4'.lock <=> x = "lock" \/ (a4.lock /\ x # "unlock")
  /\ "discing" \in a4Static' <=> x = "discingOn" \/ ("discing" \in a4Static /\ x # "discingOff")
  /\ "complete" \in a4Static' <=> x = "completeOn" \/ ("complete" \in a4Static /\ x # "completeOff")
  /\ "output" \in a4Static' <=> x = "outputOn" \/ ("output" \in a4Static /\ x # "outputOff")
  /\ "port" \in a4Static' <=> x = "portOn" \/ ("port" \in a4Static /\ x # "portOff")
  /\ "boot" \in a4Static' <=> x = "bootOn" \/ "boot" \in a4Static
  /\ a4Chip'.bound = a4Chip.bound
  /\ a4Chip'.apply = IF a4Chip.bound /\ x \in {"off", "short", "long"} THEN x ELSE a4Chip.apply
  /\ a4Chip'.charging <=> (x = "start" /\ a4Chip.bound) \/ (a4Chip.charging /\ (x = "stop" => ~a4Chip.bound))
  /\ a4Chip'.data <=> (x = "dataOn" /\ a4Chip.bound) \/ (a4Chip.data /\ (x = "dataOff" => ~a4Chip.bound))

\* The thread t applies power; the GATT thread withdraws the output.
A4Modal(t) == A4Due(t, "mode") \/ A4Due(t, "short") \/ A4Due(t, "long")
A4Withdrawing == A4Due("gatt", "stop") \/ A4Due("gatt", "portOff") \/ A4Due("gatt", "outputOff")

\* What is out of turn.
A4PastEffect(t, x) ==
  /\ \A f \in {"stranger", "stolen", "carried"} : f \in a4Past' <=> f \in a4Past
  /\ "late" \in a4Past' <=>
       \/ "late" \in a4Past
       \/ x \in A4Withdrawal /\ (A4Due("chip", "start") \/ A4Due("chip", "portOn"))
       \/ x = "start" /\ A4Withdrawing
  /\ "overtaken" \in a4Past' <=>
       \/ "overtaken" \in a4Past
       \/ x = "connected" /\ \E u \in A4Threads \ {t} :
            A4Modal(u) /\ ~A4Due(u, "ifConnected") /\ ~A4Due(u, "ifDisconnected")
       \/ x \in {"short", "long"} /\ A4Due("gatt", "connected")
  /\ "stale" \in a4Past' <=>
       \/ "stale" \in a4Past
       \/ x \in {"completeOn", "completeOff"} /\ \E u \in A4Threads \ {t} :
            (A4Due(u, "short") \/ A4Due(u, "long")) /\ (a4.connected => u # "gatt")
  /\ "crossed" \in a4Past' <=>
       \/ "crossed" \in a4Past
       \/ x = "disconnected" /\ \E u \in A4Threads \ {t} :
            (A4Due(u, "discingOn") \/ A4Due(u, "cancel")) /\ ~A4Due(u, "ifConnected")

\* A4Has of the model, step by step.
LEMMA A4HasIs ==
  ASSUME NEW t
  PROVE  /\ \A x : A4Has(t, {x}) <=> A4Due(t, x)
         /\ \A x, y : A4Has(t, {x, y}) <=> A4Due(t, x) \/ A4Due(t, y)
         /\ \A x, y, z : A4Has(t, {x, y, z}) <=> A4Due(t, x) \/ A4Due(t, y) \/ A4Due(t, z)
BY DEF A4Has, A4Due, A4In

\* Every step has this effect on a typed state.
LEMMA A4StepIs ==
  ASSUME A4Typed, NEW t \in A4Threads, A4Step(t)
  PROVE  A4StepEffect(Head(a4Todo[t])) /\ A4Typed'
<1> DEFINE x == Head(a4Todo[t])
<1>1. A4Fields(x) /\ A4ChipCall(x) /\ UNCHANGED <<a4Peer, a4World>> BY DEF A4Step
<1> HIDE DEF x
<1>2. /\ a4' \in [up : BOOLEAN, connected : BOOLEAN, device : {0} \cup A4Devices, lock : BOOLEAN]
      /\ a4'.up = a4.up
      /\ a4'.connected <=> x = "connected" \/ (a4.connected /\ x # "disconnected")
      /\ a4'.device = IF x = "device" THEN a4Peer ELSE IF x = "forget" THEN 0 ELSE a4.device
      /\ a4'.lock <=> x = "lock" \/ (a4.lock /\ x # "unlock")
  BY <1>1 DEF A4Fields, A4Typed
<1>3. a4Static' = (a4Static \cup A4Raised(x)) \ A4Lowered(x) BY <1>1 DEF A4Fields
<1>4. /\ "discing" \in a4Static' <=> x = "discingOn" \/ ("discing" \in a4Static /\ x # "discingOff")
      /\ "complete" \in a4Static' <=> x = "completeOn" \/ ("complete" \in a4Static /\ x # "completeOff")
      /\ "output" \in a4Static' <=> x = "outputOn" \/ ("output" \in a4Static /\ x # "outputOff")
      /\ "port" \in a4Static' <=> x = "portOn" \/ ("port" \in a4Static /\ x # "portOff")
      /\ "boot" \in a4Static' <=> x = "bootOn" \/ "boot" \in a4Static
  BY <1>3 DEF A4Raised, A4Lowered
<1>5. a4Static' \in SUBSET A4Statics
  <2>1. A4Raised(x) \subseteq A4Statics BY DEF A4Raised, A4Statics
  <2> QED BY <1>3, <2>1 DEF A4Typed
<1>6. /\ a4Chip' \in [bound : BOOLEAN, apply : {"off", "short", "long"}, charging : BOOLEAN, data : BOOLEAN]
      /\ a4Chip'.bound = a4Chip.bound
      /\ a4Chip'.apply = IF a4Chip.bound /\ x \in {"off", "short", "long"} THEN x ELSE a4Chip.apply
      /\ a4Chip'.charging <=> (x = "start" /\ a4Chip.bound) \/ (a4Chip.charging /\ (x = "stop" => ~a4Chip.bound))
      /\ a4Chip'.data <=> (x = "dataOn" /\ a4Chip.bound) \/ (a4Chip.data /\ (x = "dataOff" => ~a4Chip.bound))
  BY <1>1 DEF A4ChipCall, A4Typed
<1>7. A4StepEffect(x) BY <1>1, <1>2, <1>4, <1>6 DEF A4StepEffect
<1>8. A4Typed' BY <1>1, <1>2, <1>5, <1>6 DEF A4Typed
<1> QED BY <1>7, <1>8 DEF x

\* Every step remembers what is out of turn.
LEMMA A4PastIs ==
  ASSUME NEW t \in A4Threads, A4Step(t)
  PROVE  A4PastEffect(t, Head(a4Todo[t]))
<1> DEFINE x == Head(a4Todo[t])
<1>1. a4Past' = a4Past \cup A4OutOfTurn(t, x) BY DEF A4Step
<1> HIDE DEF x
<1>2. \A f \in {"stranger", "stolen", "carried"} : f \notin A4OutOfTurn(t, x) BY DEF A4OutOfTurn
<1>3. "late" \in A4OutOfTurn(t, x) <=>
       \/ x \in A4Withdrawal /\ A4Has("chip", {"start", "portOn"})
       \/ x = "start" /\ A4Has("gatt", A4Withdrawal)
  BY DEF A4OutOfTurn
<1>4. "overtaken" \in A4OutOfTurn(t, x) <=>
       \/ x = "connected" /\ \E u \in A4Threads \ {t} :
            A4Has(u, {"mode", "short", "long"}) /\ ~A4Has(u, {"ifConnected", "ifDisconnected"})
       \/ x \in {"short", "long"} /\ A4Has("gatt", {"connected"})
  BY DEF A4OutOfTurn
<1>5. "stale" \in A4OutOfTurn(t, x) <=>
       /\ x \in {"completeOn", "completeOff"}
       /\ \E u \in A4Threads \ {t} : A4Has(u, {"short", "long"}) /\ (a4.connected => u # "gatt")
  BY DEF A4OutOfTurn
<1>6. "crossed" \in A4OutOfTurn(t, x) <=>
       x = "disconnected" /\ \E u \in A4Threads \ {t} : A4Has(u, {"discingOn", "cancel"})
             /\ ~A4Has(u, {"ifConnected"})
  BY DEF A4OutOfTurn
<1>7. A4Has("gatt", A4Withdrawal) <=> A4Withdrawing BY A4HasIs DEF A4Withdrawal, A4Withdrawing
<1>8. /\ A4Has("chip", {"start", "portOn"}) <=> A4Due("chip", "start") \/ A4Due("chip", "portOn")
      /\ A4Has("gatt", {"connected"}) <=> A4Due("gatt", "connected")
  BY A4HasIs
<1>9. ASSUME NEW u
      PROVE  /\ A4Has(u, {"mode", "short", "long"}) <=> A4Modal(u)
             /\ A4Has(u, {"ifConnected", "ifDisconnected"}) <=> A4Due(u, "ifConnected") \/ A4Due(u, "ifDisconnected")
             /\ A4Has(u, {"short", "long"}) <=> A4Due(u, "short") \/ A4Due(u, "long")
             /\ A4Has(u, {"discingOn", "cancel"}) <=> A4Due(u, "discingOn") \/ A4Due(u, "cancel")
             /\ A4Has(u, {"ifConnected"}) <=> A4Due(u, "ifConnected")
  BY A4HasIs DEF A4Modal
<1>10. \A f : f \in a4Past' <=> f \in a4Past \/ f \in A4OutOfTurn(t, x) BY <1>1
<1>11. A4PastEffect(t, x)
  BY <1>2, <1>3, <1>4, <1>5, <1>6, <1>7, <1>8, <1>9, <1>10 DEF A4PastEffect
<1> QED BY <1>11 DEF x

\* The lists of the other threads are as they were.
A4Others(t) ==
  /\ \A u \in A4Threads \ {t} : a4Todo'[u] = a4Todo[u]
  /\ \A u \in A4Threads \ {t} : \A x : (A4Due(u, x)' <=> A4Due(u, x))
     /\ (A4At(u, x)' <=> A4At(u, x))
  /\ a4Todo' = [u \in A4Threads |-> a4Todo'[u]]

\* One thread's list is replaced.
LEMMA A4Turn ==
  ASSUME A4Lists, NEW t \in A4Threads, NEW rest, a4Todo' = [a4Todo EXCEPT ![t] = rest]
  PROVE  a4Todo'[t] = rest /\ A4Others(t)
<1>1. a4Todo'[t] = rest /\ \A u \in A4Threads \ {t} : a4Todo'[u] = a4Todo[u] BY DEF A4Lists
<1>2. a4Todo' = [u \in A4Threads |-> a4Todo'[u]] BY DEF A4Lists
<1> QED BY <1>1, <1>2 DEF A4Others, A4Due, A4At, A4Idle

\* A step of a thread is a step of its own list.
LEMMA A4RestIs ==
  ASSUME A4Lists, NEW t \in A4Threads, A4Step(t)
  PROVE  /\ a4Todo[t] # <<>> /\ A4Others(t)
         /\ a4Todo'[t] = A4Rest(t, Head(a4Todo[t]))
BY A4Turn DEF A4Step, A4Idle

\* The pad the service serves has its output switched on; the mode that is asked for.
A4Told == a4.device \in a4World.told
A4Right == IF "complete" \in a4Static THEN "long" ELSE "short"

\* Before WipowerManager is bound the chip is as it was started.
A4Unbound ==
  /\ ~a4Chip.bound => a4Chip.apply = "off" /\ ~a4Chip.charging /\ ~a4Chip.data
  /\ A4Due("chip", "start") \/ A4Due("chip", "portOn") => a4Chip.bound

\* The output, the charging and the charge port are for a pad that asked for
\* them, or what takes them back is under way.
A4InTurn == \A f \in {"late", "stranger", "stolen", "carried"} : f \notin a4Past
A4Asked ==
  /\ "output" \in a4Static => A4Told \/ A4Due("gatt", "outputOff")
  /\ a4Chip.charging => A4Told \/ A4Due("gatt", "stop")
  /\ "port" \in a4Static => a4Chip.charging \/ A4Due("gatt", "portOff")
  /\ A4At("chip", "portOn") => a4Chip.charging
  /\ A4At("chip", "start") => A4Told \/ A4Withdrawing
  /\ A4Due("gatt", "forget") => ~A4Told
  /\ A4Due("gatt", "outputOn") => A4Told
  /\ A4Due("gatt", "device") => a4.device \in {0, a4Peer}
A4Charge == a4.up /\ A4InTurn => A4Asked

\* A disconnection that is initiated is still to come.
A4Discing ==
  a4.up /\ ~A4Odd({"crossed", "carried"}) =>
    /\ "discing" \in a4Static => a4.connected \/ A4Due("gatt", "discingOff")
    /\ \A u \in {"chip", "wbc"} : A4Due(u, "discingOn") /\ ~A4Due(u, "ifConnected") => a4.connected

\* The wake lock is held for a client that is there.
A4Locked ==
  a4.up =>
    /\ A4Due("gatt", "device") => a4Peer \in a4World.linked
    /\ "stranger" \notin a4Past =>
         /\ a4.lock => a4.device \in a4World.linked \/ A4Due("gatt", "unlock")
         /\ A4Due("gatt", "forget") /\ ~A4Due("gatt", "unlock") => ~a4.lock
         /\ A4Due("gatt", "lock") => a4.device \in a4World.linked

\* In onConnectionStateChange mState is reset first.
A4Leaving ==
  /\ A4Due("gatt", "forget") /\ ~A4Due("gatt", "disconnected") => ~a4.connected
  /\ A4Due("gatt", "short") \/ A4Due("gatt", "long") => ~a4.connected

\* With a pad nobody applies power, unless to disconnect it.
A4Serving ==
  a4.up /\ "overtaken" \notin a4Past =>
    /\ a4.connected => a4Chip.apply = "off" \/ "discing" \in a4Static
    /\ a4.connected => \A u \in {"chip", "wbc", "main"} :
         A4Modal(u) /\ ~A4Due(u, "ifConnected") /\ ~A4Due(u, "ifDisconnected") =>
           "discing" \in a4Static \/ A4Due(u, "discingOn")
    /\ A4Due("gatt", "connected") /\ ~A4Due("gatt", "off") => a4Chip.apply = "off"

\* A mode that was read is right, and without a pad the chip has the right mode
\* or a thread is about to set it.
A4ModesRight ==
  \A t \in A4Threads : ~A4Due(t, "completeOn") /\ ~A4Due(t, "completeOff") =>
    /\ A4Due(t, "short") => "complete" \notin a4Static
    /\ A4Due(t, "long") => "complete" \in a4Static
A4Owes(t) == A4Modal(t) /\ ~A4Due(t, "ifConnected") /\ ~A4Due(t, "ifDevice") /\ ~A4Due(t, "cancel")
A4Owed == A4Due("gatt", "connected") \/ \E t \in A4Threads : A4Owes(t)
A4Alone == a4Chip.bound /\ ("boot" \in a4Static \/ A4Due("main", "bootOn")) /\ ~a4.connected
A4Seeking ==
  a4.up /\ "stale" \notin a4Past =>
    A4ModesRight /\ (A4Alone => a4Chip.apply = A4Right \/ A4Owed)

\* The inductive invariant.
A4Inv == A4Typed /\ A4Lists /\ A4Unbound /\ A4Charge /\ A4Discing /\ A4Locked /\ A4Leaving
      /\ A4Serving /\ A4Seeking

\* What a step x of the GATT thread makes of its list: the order of the steps.
A4GattMove(x) ==
  /\ A4Due("gatt", x) /\ ~A4Due("gatt", x)'
  /\ \A y : y # x => (A4Due("gatt", y)' <=> A4Due("gatt", y) \/ (x = "mode" /\ y = A4Right))
  /\ \A y \in {"ifConnected", "ifDevice", "cancel", "completeOn", "completeOff", "discingOn", "bootOn", "start", "portOn"} :
       ~A4Due("gatt", y)
  /\ x = "device" => ~A4Withdrawing /\ ~A4Due("gatt", "forget") /\ ~A4Due("gatt", "outputOn")
  /\ x = "lock" => ~A4Due("gatt", "forget")
  /\ x = "connected" => \A y \in {"forget", "off", "short", "long"} : ~A4Due("gatt", y)
  /\ x = "disconnected" => A4Due("gatt", "discingOff") /\ A4Due("gatt", "mode")
  /\ x \in {"discingOff", "mode", "short", "long"} => A4Due("gatt", "forget")
     /\ ~A4Due("gatt", "disconnected")
  /\ x = "stop" => A4Due("gatt", "portOff")
  /\ x = "off" => A4Due("gatt", "mode") \/ A4Due("gatt", "connected")
  /\ x = "forget" => /\ A4Due("gatt", "portOff")
                     /\ \A y \in {"outputOff", "stop", "unlock", "lock", "outputOn", "device"} : ~A4Due("gatt", y)

\* ... of the chip's thread and of the battery monitor's.
A4SideSteps == {"enter", "ifConnected", "ifDevice", "discingOn", "cancel", "off", "mode", "short", "long", "leave",
                "completeOn", "completeOff", "ifDisconnected", "ifNoPort", "ifOutput", "ifPort", "start", "portOn"}
A4SideMove(t, x) ==
  /\ x \in A4SideSteps /\ A4Due(t, x)
  /\ \A y : A4Due(t, y)' => A4Due(t, y) \/ (x = "mode" /\ y = A4Right)
  /\ \A y \in {"ifConnected", "ifDisconnected", "completeOn", "completeOff"} :
       A4Due(t, y) /\ ~A4Due(t, y)' => x = y
  /\ x = "ifConnected" /\ A4Due(t, "discingOn")' => a4.connected /\ "discing" \notin a4Static
  /\ x = "discingOn" => ~A4Due(t, "ifConnected")
  /\ A4Modal(t)' => /\ A4Due(t, "discingOn") /\ x # "discingOn" => A4Due(t, "discingOn")'
                    /\ x = "ifConnected" => A4Due(t, "discingOn")'
                    /\ x = "ifDisconnected" => ~a4.connected
                    /\ A4Modal(t)
  /\ x \in {"short", "long"} =>
       \A y \in {"ifConnected", "ifDisconnected", "discingOn", "completeOn", "completeOff"} : ~A4Due(t, y)
  /\ x = "completeOn" => ~A4Due(t, "short")
  /\ x = "completeOff" => ~A4Due(t, "long")
  /\ x \in {"off", "mode", "completeOn", "completeOff"} => A4Owes(t)'
  /\ A4Owes(t) /\ x \notin {"short", "long"} /\ ~(x = "ifDisconnected" /\ a4.connected) =>
     A4Owes(t)'

\* ... where the chip's thread starts to charge.
A4ChipMove(x) ==
  /\ x \notin {"completeOn", "completeOff"}
  /\ A4At("chip", x)
  /\ A4At("chip", "start")' => \/ x = "ifOutput" /\ "output" \in a4Static
                               \/ x = "ifPort" /\ "port" \in a4Static
  /\ A4At("chip", "portOn")' => x = "start"

\* The battery monitor's thread never charges.
A4WbcMove(x) == x \notin {"start", "portOn"}

\* ... of the main thread, while the service is up.
A4MainMove(x) ==
  /\ x \in {"ifBoot", "off", "mode", "short", "long", "unlock", "bootOn"} /\ A4Due("main", x)
  /\ \A y : A4Due("main", y)' => A4Due("main", y) \/ (x = "mode" /\ y = A4Right)
  /\ \A y \in {"ifConnected", "ifDisconnected", "ifDevice", "cancel", "discingOn", "completeOn", "completeOff"} :
       ~A4Due("main", y)
  /\ A4Due("main", "bootOn") /\ x # "bootOn" => A4Due("main", "bootOn")'
  /\ x = "ifBoot" => ~A4Due("main", "bootOn")
  /\ x \in {"off", "mode"} => A4Modal("main")'
  /\ A4Modal("main") /\ x \notin {"short", "long"} /\ (x = "ifBoot" => "boot" \in a4Static) =>
     A4Modal("main")'

\* The GATT thread, for each list.
LEMMA A4GattMoves ==
  ASSUME A4Lists, A4Step("gatt"), NEW x, x = Head(a4Todo["gatt"])
  PROVE  A4GattMove(x)
         /\ a4Todo'["gatt"] \in A4GattLists
<1>0. a4Todo["gatt"] # <<>> /\ a4Todo'["gatt"] = A4Rest("gatt", Head(a4Todo["gatt"]))
  BY A4RestIs DEF A4Threads
<1>1. CASE a4Todo["gatt"] = <<"off", "device", "connected", "dataOn">>
  <2>1. Head(a4Todo["gatt"]) = "off" /\ x = "off" BY <1>1
  <2>2. \A y : A4Due("gatt", y) <=> y \in {"off", "device", "connected", "dataOn"}
    BY <1>1 DEF A4Due, A4In
  <2>3. a4Todo'["gatt"] = <<"device", "connected", "dataOn">>
    BY <1>0, <1>1, <2>1 DEF A4Rest, A4Tests
  <2>4. \A y : A4Due("gatt", y)' <=> y \in {"device", "connected", "dataOn"}
    BY <2>3 DEF A4Due, A4In
  <2>7. a4Todo'["gatt"] \in A4GattLists BY <2>3 DEF A4GattLists
  <2>8. A4GattMove("off") BY <2>2, <2>4 DEF A4GattMove, A4Withdrawing
  <2> QED BY <2>1, <2>7, <2>8
<1>2. CASE a4Todo["gatt"] = <<"device">>
  <2>1. Head(a4Todo["gatt"]) = "device" /\ x = "device" BY <1>2
  <2>2. \A y : A4Due("gatt", y) <=> y \in {"device"}
    BY <1>2 DEF A4Due, A4In
  <2>3. a4Todo'["gatt"] = <<>>
    BY <1>0, <1>2, <2>1 DEF A4Rest, A4Tests
  <2>4. \A y : A4Due("gatt", y)' <=> y \in {}
    BY <2>3 DEF A4Due, A4In
  <2>7. a4Todo'["gatt"] \in A4GattLists BY <2>3 DEF A4GattLists
  <2>8. A4GattMove("device") BY <2>2, <2>4 DEF A4GattMove, A4Withdrawing
  <2> QED BY <2>1, <2>7, <2>8
<1>3. CASE a4Todo["gatt"] = <<"disconnected", "discingOff", "outputOff", "dataOff", "stop", "off",
       "mode", "unlock", "forget", "portOff">>
  <2>1. Head(a4Todo["gatt"]) = "disconnected" /\ x = "disconnected" BY <1>3
  <2>2. \A y : A4Due("gatt", y) <=> y \in {"disconnected", "discingOff", "outputOff", "dataOff",
        "stop", "off", "mode", "unlock", "forget", "portOff"}
    BY <1>3 DEF A4Due, A4In
  <2>3. a4Todo'["gatt"] = <<"discingOff", "outputOff", "dataOff", "stop", "off", "mode", "unlock",
        "forget", "portOff">>
    BY <1>0, <1>3, <2>1 DEF A4Rest, A4Tests
  <2>4. \A y : A4Due("gatt", y)' <=> y \in {"discingOff", "outputOff", "dataOff", "stop", "off",
        "mode", "unlock", "forget", "portOff"}
    BY <2>3 DEF A4Due, A4In
  <2>7. a4Todo'["gatt"] \in A4GattLists BY <2>3 DEF A4GattLists
  <2>8. A4GattMove("disconnected") BY <2>2, <2>4 DEF A4GattMove, A4Withdrawing
  <2> QED BY <2>1, <2>7, <2>8
<1>4. CASE a4Todo["gatt"] = <<"portOff">>
  <2>1. Head(a4Todo["gatt"]) = "portOff" /\ x = "portOff" BY <1>4
  <2>2. \A y : A4Due("gatt", y) <=> y \in {"portOff"}
    BY <1>4 DEF A4Due, A4In
  <2>3. a4Todo'["gatt"] = <<>>
    BY <1>0, <1>4, <2>1 DEF A4Rest, A4Tests
  <2>4. \A y : A4Due("gatt", y)' <=> y \in {}
    BY <2>3 DEF A4Due, A4In
  <2>7. a4Todo'["gatt"] \in A4GattLists BY <2>3 DEF A4GattLists
  <2>8. A4GattMove("portOff") BY <2>2, <2>4 DEF A4GattMove, A4Withdrawing
  <2> QED BY <2>1, <2>7, <2>8
<1>5. CASE a4Todo["gatt"] = <<"lock", "outputOn">>
  <2>1. Head(a4Todo["gatt"]) = "lock" /\ x = "lock" BY <1>5
  <2>2. \A y : A4Due("gatt", y) <=> y \in {"lock", "outputOn"}
    BY <1>5 DEF A4Due, A4In
  <2>3. a4Todo'["gatt"] = <<"outputOn">>
    BY <1>0, <1>5, <2>1 DEF A4Rest, A4Tests
  <2>4. \A y : A4Due("gatt", y)' <=> y \in {"outputOn"}
    BY <2>3 DEF A4Due, A4In
  <2>7. a4Todo'["gatt"] \in A4GattLists BY <2>3 DEF A4GattLists
  <2>8. A4GattMove("lock") BY <2>2, <2>4 DEF A4GattMove, A4Withdrawing
  <2> QED BY <2>1, <2>7, <2>8
<1>6. CASE a4Todo["gatt"] = <<"stop", "portOff", "outputOff">>
  <2>1. Head(a4Todo["gatt"]) = "stop" /\ x = "stop" BY <1>6
  <2>2. \A y : A4Due("gatt", y) <=> y \in {"stop", "portOff", "outputOff"}
    BY <1>6 DEF A4Due, A4In
  <2>3. a4Todo'["gatt"] = <<"portOff", "outputOff">>
    BY <1>0, <1>6, <2>1 DEF A4Rest, A4Tests
  <2>4. \A y : A4Due("gatt", y)' <=> y \in {"portOff", "outputOff"}
    BY <2>3 DEF A4Due, A4In
  <2>7. a4Todo'["gatt"] \in A4GattLists BY <2>3 DEF A4GattLists
  <2>8. A4GattMove("stop") BY <2>2, <2>4 DEF A4GattMove, A4Withdrawing
  <2> QED BY <2>1, <2>7, <2>8
<1>7. CASE a4Todo["gatt"] = <<"device", "connected", "dataOn">>
  <2>1. Head(a4Todo["gatt"]) = "device" /\ x = "device" BY <1>7
  <2>2. \A y : A4Due("gatt", y) <=> y \in {"device", "connected", "dataOn"}
    BY <1>7 DEF A4Due, A4In
  <2>3. a4Todo'["gatt"] = <<"connected", "dataOn">>
    BY <1>0, <1>7, <2>1 DEF A4Rest, A4Tests
  <2>4. \A y : A4Due("gatt", y)' <=> y \in {"connected", "dataOn"}
    BY <2>3 DEF A4Due, A4In
  <2>7. a4Todo'["gatt"] \in A4GattLists BY <2>3 DEF A4GattLists
  <2>8. A4GattMove("device") BY <2>2, <2>4 DEF A4GattMove, A4Withdrawing
  <2> QED BY <2>1, <2>7, <2>8
<1>8. CASE a4Todo["gatt"] = <<"discingOff", "outputOff", "dataOff", "stop", "off", "mode",
       "unlock", "forget", "portOff">>
  <2>1. Head(a4Todo["gatt"]) = "discingOff" /\ x = "discingOff" BY <1>8
  <2>2. \A y : A4Due("gatt", y) <=> y \in {"discingOff", "outputOff", "dataOff", "stop", "off",
        "mode", "unlock", "forget", "portOff"}
    BY <1>8 DEF A4Due, A4In
  <2>3. a4Todo'["gatt"] = <<"outputOff", "dataOff", "stop", "off", "mode", "unlock", "forget",
        "portOff">>
    BY <1>0, <1>8, <2>1 DEF A4Rest, A4Tests
  <2>4. \A y : A4Due("gatt", y)' <=> y \in {"outputOff", "dataOff", "stop", "off", "mode",
        "unlock", "forget", "portOff"}
    BY <2>3 DEF A4Due, A4In
  <2>7. a4Todo'["gatt"] \in A4GattLists BY <2>3 DEF A4GattLists
  <2>8. A4GattMove("discingOff") BY <2>2, <2>4 DEF A4GattMove, A4Withdrawing
  <2> QED BY <2>1, <2>7, <2>8
<1>9. CASE a4Todo["gatt"] = <<"outputOn">>
  <2>1. Head(a4Todo["gatt"]) = "outputOn" /\ x = "outputOn" BY <1>9
  <2>2. \A y : A4Due("gatt", y) <=> y \in {"outputOn"}
    BY <1>9 DEF A4Due, A4In
  <2>3. a4Todo'["gatt"] = <<>>
    BY <1>0, <1>9, <2>1 DEF A4Rest, A4Tests
  <2>4. \A y : A4Due("gatt", y)' <=> y \in {}
    BY <2>3 DEF A4Due, A4In
  <2>7. a4Todo'["gatt"] \in A4GattLists BY <2>3 DEF A4GattLists
  <2>8. A4GattMove("outputOn") BY <2>2, <2>4 DEF A4GattMove, A4Withdrawing
  <2> QED BY <2>1, <2>7, <2>8
<1>10. CASE a4Todo["gatt"] = <<"portOff", "outputOff">>
  <2>1. Head(a4Todo["gatt"]) = "portOff" /\ x = "portOff" BY <1>10
  <2>2. \A y : A4Due("gatt", y) <=> y \in {"portOff", "outputOff"}
    BY <1>10 DEF A4Due, A4In
  <2>3. a4Todo'["gatt"] = <<"outputOff">>
    BY <1>0, <1>10, <2>1 DEF A4Rest, A4Tests
  <2>4. \A y : A4Due("gatt", y)' <=> y \in {"outputOff"}
    BY <2>3 DEF A4Due, A4In
  <2>7. a4Todo'["gatt"] \in A4GattLists BY <2>3 DEF A4GattLists
  <2>8. A4GattMove("portOff") BY <2>2, <2>4 DEF A4GattMove, A4Withdrawing
  <2> QED BY <2>1, <2>7, <2>8
<1>11. CASE a4Todo["gatt"] = <<"connected", "dataOn">>
  <2>1. Head(a4Todo["gatt"]) = "connected" /\ x = "connected" BY <1>11
  <2>2. \A y : A4Due("gatt", y) <=> y \in {"connected", "dataOn"}
    BY <1>11 DEF A4Due, A4In
  <2>3. a4Todo'["gatt"] = <<"dataOn">>
    BY <1>0, <1>11, <2>1 DEF A4Rest, A4Tests
  <2>4. \A y : A4Due("gatt", y)' <=> y \in {"dataOn"}
    BY <2>3 DEF A4Due, A4In
  <2>7. a4Todo'["gatt"] \in A4GattLists BY <2>3 DEF A4GattLists
  <2>8. A4GattMove("connected") BY <2>2, <2>4 DEF A4GattMove, A4Withdrawing
  <2> QED BY <2>1, <2>7, <2>8
<1>12. CASE a4Todo["gatt"] = <<"outputOff", "dataOff", "stop", "off", "mode", "unlock", "forget",
       "portOff">>
  <2>1. Head(a4Todo["gatt"]) = "outputOff" /\ x = "outputOff" BY <1>12
  <2>2. \A y : A4Due("gatt", y) <=> y \in {"outputOff", "dataOff", "stop", "off", "mode", "unlock",
        "forget", "portOff"}
    BY <1>12 DEF A4Due, A4In
  <2>3. a4Todo'["gatt"] = <<"dataOff", "stop", "off", "mode", "unlock", "forget", "portOff">>
    BY <1>0, <1>12, <2>1 DEF A4Rest, A4Tests
  <2>4. \A y : A4Due("gatt", y)' <=> y \in {"dataOff", "stop", "off", "mode", "unlock", "forget",
        "portOff"}
    BY <2>3 DEF A4Due, A4In
  <2>7. a4Todo'["gatt"] \in A4GattLists BY <2>3 DEF A4GattLists
  <2>8. A4GattMove("outputOff") BY <2>2, <2>4 DEF A4GattMove, A4Withdrawing
  <2> QED BY <2>1, <2>7, <2>8
<1>13. CASE a4Todo["gatt"] = <<"outputOff">>
  <2>1. Head(a4Todo["gatt"]) = "outputOff" /\ x = "outputOff" BY <1>13
  <2>2. \A y : A4Due("gatt", y) <=> y \in {"outputOff"}
    BY <1>13 DEF A4Due, A4In
  <2>3. a4Todo'["gatt"] = <<>>
    BY <1>0, <1>13, <2>1 DEF A4Rest, A4Tests
  <2>4. \A y : A4Due("gatt", y)' <=> y \in {}
    BY <2>3 DEF A4Due, A4In
  <2>7. a4Todo'["gatt"] \in A4GattLists BY <2>3 DEF A4GattLists
  <2>8. A4GattMove("outputOff") BY <2>2, <2>4 DEF A4GattMove, A4Withdrawing
  <2> QED BY <2>1, <2>7, <2>8
<1>14. CASE a4Todo["gatt"] = <<"dataOn">>
  <2>1. Head(a4Todo["gatt"]) = "dataOn" /\ x = "dataOn" BY <1>14
  <2>2. \A y : A4Due("gatt", y) <=> y \in {"dataOn"}
    BY <1>14 DEF A4Due, A4In
  <2>3. a4Todo'["gatt"] = <<>>
    BY <1>0, <1>14, <2>1 DEF A4Rest, A4Tests
  <2>4. \A y : A4Due("gatt", y)' <=> y \in {}
    BY <2>3 DEF A4Due, A4In
  <2>7. a4Todo'["gatt"] \in A4GattLists BY <2>3 DEF A4GattLists
  <2>8. A4GattMove("dataOn") BY <2>2, <2>4 DEF A4GattMove, A4Withdrawing
  <2> QED BY <2>1, <2>7, <2>8
<1>15. CASE a4Todo["gatt"] = <<"dataOff", "stop", "off", "mode", "unlock", "forget", "portOff">>
  <2>1. Head(a4Todo["gatt"]) = "dataOff" /\ x = "dataOff" BY <1>15
  <2>2. \A y : A4Due("gatt", y) <=> y \in {"dataOff", "stop", "off", "mode", "unlock", "forget",
        "portOff"}
    BY <1>15 DEF A4Due, A4In
  <2>3. a4Todo'["gatt"] = <<"stop", "off", "mode", "unlock", "forget", "portOff">>
    BY <1>0, <1>15, <2>1 DEF A4Rest, A4Tests
  <2>4. \A y : A4Due("gatt", y)' <=> y \in {"stop", "off", "mode", "unlock", "forget", "portOff"}
    BY <2>3 DEF A4Due, A4In
  <2>7. a4Todo'["gatt"] \in A4GattLists BY <2>3 DEF A4GattLists
  <2>8. A4GattMove("dataOff") BY <2>2, <2>4 DEF A4GattMove, A4Withdrawing
  <2> QED BY <2>1, <2>7, <2>8
<1>16. CASE a4Todo["gatt"] = <<"stop", "off", "mode", "unlock", "forget", "portOff">>
  <2>1. Head(a4Todo["gatt"]) = "stop" /\ x = "stop" BY <1>16
  <2>2. \A y : A4Due("gatt", y) <=> y \in {"stop", "off", "mode", "unlock", "forget", "portOff"}
    BY <1>16 DEF A4Due, A4In
  <2>3. a4Todo'["gatt"] = <<"off", "mode", "unlock", "forget", "portOff">>
    BY <1>0, <1>16, <2>1 DEF A4Rest, A4Tests
  <2>4. \A y : A4Due("gatt", y)' <=> y \in {"off", "mode", "unlock", "forget", "portOff"}
    BY <2>3 DEF A4Due, A4In
  <2>7. a4Todo'["gatt"] \in A4GattLists BY <2>3 DEF A4GattLists
  <2>8. A4GattMove("stop") BY <2>2, <2>4 DEF A4GattMove, A4Withdrawing
  <2> QED BY <2>1, <2>7, <2>8
<1>17. CASE a4Todo["gatt"] = <<"off", "mode", "unlock", "forget", "portOff">>
  <2>1. Head(a4Todo["gatt"]) = "off" /\ x = "off" BY <1>17
  <2>2. \A y : A4Due("gatt", y) <=> y \in {"off", "mode", "unlock", "forget", "portOff"}
    BY <1>17 DEF A4Due, A4In
  <2>3. a4Todo'["gatt"] = <<"mode", "unlock", "forget", "portOff">>
    BY <1>0, <1>17, <2>1 DEF A4Rest, A4Tests
  <2>4. \A y : A4Due("gatt", y)' <=> y \in {"mode", "unlock", "forget", "portOff"}
    BY <2>3 DEF A4Due, A4In
  <2>7. a4Todo'["gatt"] \in A4GattLists BY <2>3 DEF A4GattLists
  <2>8. A4GattMove("off") BY <2>2, <2>4 DEF A4GattMove, A4Withdrawing
  <2> QED BY <2>1, <2>7, <2>8
<1>18. CASE a4Todo["gatt"] = <<"mode", "unlock", "forget", "portOff">>
  <2>1. Head(a4Todo["gatt"]) = "mode" /\ x = "mode" BY <1>18
  <2>2. \A y : A4Due("gatt", y) <=> y \in {"mode", "unlock", "forget", "portOff"}
    BY <1>18 DEF A4Due, A4In
  <2>3. a4Todo'["gatt"] = <<A4Right, "unlock", "forget", "portOff">>
    BY <1>0, <1>18, <2>1 DEF A4Rest, A4Tests, A4Right
  <2>4. \A y : A4Due("gatt", y)' <=> y \in {A4Right, "unlock", "forget", "portOff"}
    BY <2>3 DEF A4Due, A4In
  <2>7. a4Todo'["gatt"] \in A4GattLists BY <2>3 DEF A4GattLists, A4Right
  <2>8. A4GattMove("mode") BY <2>2, <2>4 DEF A4GattMove, A4Withdrawing, A4Right
  <2> QED BY <2>1, <2>7, <2>8
<1>19. CASE a4Todo["gatt"] = <<"long", "unlock", "forget", "portOff">>
  <2>1. Head(a4Todo["gatt"]) = "long" /\ x = "long" BY <1>19
  <2>2. \A y : A4Due("gatt", y) <=> y \in {"long", "unlock", "forget", "portOff"}
    BY <1>19 DEF A4Due, A4In
  <2>3. a4Todo'["gatt"] = <<"unlock", "forget", "portOff">>
    BY <1>0, <1>19, <2>1 DEF A4Rest, A4Tests
  <2>4. \A y : A4Due("gatt", y)' <=> y \in {"unlock", "forget", "portOff"}
    BY <2>3 DEF A4Due, A4In
  <2>7. a4Todo'["gatt"] \in A4GattLists BY <2>3 DEF A4GattLists
  <2>8. A4GattMove("long") BY <2>2, <2>4 DEF A4GattMove, A4Withdrawing
  <2> QED BY <2>1, <2>7, <2>8
<1>20. CASE a4Todo["gatt"] = <<"short", "unlock", "forget", "portOff">>
  <2>1. Head(a4Todo["gatt"]) = "short" /\ x = "short" BY <1>20
  <2>2. \A y : A4Due("gatt", y) <=> y \in {"short", "unlock", "forget", "portOff"}
    BY <1>20 DEF A4Due, A4In
  <2>3. a4Todo'["gatt"] = <<"unlock", "forget", "portOff">>
    BY <1>0, <1>20, <2>1 DEF A4Rest, A4Tests
  <2>4. \A y : A4Due("gatt", y)' <=> y \in {"unlock", "forget", "portOff"}
    BY <2>3 DEF A4Due, A4In
  <2>7. a4Todo'["gatt"] \in A4GattLists BY <2>3 DEF A4GattLists
  <2>8. A4GattMove("short") BY <2>2, <2>4 DEF A4GattMove, A4Withdrawing
  <2> QED BY <2>1, <2>7, <2>8
<1>21. CASE a4Todo["gatt"] = <<"unlock", "forget", "portOff">>
  <2>1. Head(a4Todo["gatt"]) = "unlock" /\ x = "unlock" BY <1>21
  <2>2. \A y : A4Due("gatt", y) <=> y \in {"unlock", "forget", "portOff"}
    BY <1>21 DEF A4Due, A4In
  <2>3. a4Todo'["gatt"] = <<"forget", "portOff">>
    BY <1>0, <1>21, <2>1 DEF A4Rest, A4Tests
  <2>4. \A y : A4Due("gatt", y)' <=> y \in {"forget", "portOff"}
    BY <2>3 DEF A4Due, A4In
  <2>7. a4Todo'["gatt"] \in A4GattLists BY <2>3 DEF A4GattLists
  <2>8. A4GattMove("unlock") BY <2>2, <2>4 DEF A4GattMove, A4Withdrawing
  <2> QED BY <2>1, <2>7, <2>8
<1>22. CASE a4Todo["gatt"] = <<"forget", "portOff">>
  <2>1. Head(a4Todo["gatt"]) = "forget" /\ x = "forget" BY <1>22
  <2>2. \A y : A4Due("gatt", y) <=> y \in {"forget", "portOff"}
    BY <1>22 DEF A4Due, A4In
  <2>3. a4Todo'["gatt"] = <<"portOff">>
    BY <1>0, <1>22, <2>1 DEF A4Rest, A4Tests
  <2>4. \A y : A4Due("gatt", y)' <=> y \in {"portOff"}
    BY <2>3 DEF A4Due, A4In
  <2>7. a4Todo'["gatt"] \in A4GattLists BY <2>3 DEF A4GattLists
  <2>8. A4GattMove("forget") BY <2>2, <2>4, SMTT(60) DEF A4GattMove, A4Withdrawing
  <2> QED BY <2>1, <2>7, <2>8
<1> QED BY <1>0, <1>1, <1>2, <1>3, <1>4, <1>5, <1>6, <1>7, <1>8, <1>9, <1>10, <1>11, <1>12, <1>13,
  <1>14, <1>15, <1>16, <1>17, <1>18, <1>19, <1>20, <1>21, <1>22 DEF A4Lists, A4GattLists

\* The chip's thread, for each list.
LEMMA A4ChipMoves ==
  ASSUME A4Lists, A4Step("chip"), NEW x, x = Head(a4Todo["chip"])
  PROVE  A4SideMove("chip", x) /\ A4ChipMove(x)
         /\ a4Todo'["chip"] \in A4ChipLists
<1>0. a4Todo["chip"] # <<>> /\ a4Todo'["chip"] = A4Rest("chip", Head(a4Todo["chip"]))
  BY A4RestIs DEF A4Threads
<1>1. CASE a4Todo["chip"] = <<"enter", "ifConnected", "ifDevice", "discingOn", "cancel", "off",
       "mode", "leave">>
  <2>1. Head(a4Todo["chip"]) = "enter" /\ x = "enter" BY <1>1
  <2>2. \A y : A4Due("chip", y) <=> y \in {"enter", "ifConnected", "ifDevice", "discingOn",
        "cancel", "off", "mode", "leave"}
    BY <1>1 DEF A4Due, A4In
  <2>3. a4Todo'["chip"] = <<"ifConnected", "ifDevice", "discingOn", "cancel", "off", "mode",
        "leave">>
    BY <1>0, <1>1, <2>1 DEF A4Rest, A4Tests
  <2>4. \A y : A4Due("chip", y)' <=> y \in {"ifConnected", "ifDevice", "discingOn", "cancel",
        "off", "mode", "leave"}
    BY <2>3 DEF A4Due, A4In
  <2>5. A4At("chip", "enter") BY <1>0, <2>1 DEF A4At, A4Idle
  <2>6. \A y : A4At("chip", y)' => y = "ifConnected"
    BY <2>3 DEF A4At, A4Idle
  <2>7. a4Todo'["chip"] \in A4ChipLists BY <2>3 DEF A4ChipLists
  <2> QED
    BY <2>1, <2>2, <2>4, <2>5, <2>6, <2>7 DEF A4SideMove, A4SideSteps, A4ChipMove, A4Modal, A4Owes
<1>2. CASE a4Todo["chip"] = <<"ifNoPort", "ifOutput", "start", "portOn", "ifPort", "start">>
  <2>1. Head(a4Todo["chip"]) = "ifNoPort" /\ x = "ifNoPort" BY <1>2
  <2>2. \A y : A4Due("chip", y) <=> y \in {"ifNoPort", "ifOutput", "start", "portOn", "ifPort"}
    BY <1>2 DEF A4Due, A4In
  <2>3. a4Todo'["chip"] = IF A4Holds("ifNoPort") THEN <<"ifOutput", "start", "portOn", "ifPort",
        "start">> ELSE <<"ifPort", "start">>
    BY <1>0, <1>2, <2>1 DEF A4Rest, A4Tests, A4Else
  <2>4. \A y : A4Due("chip", y)' <=> y \in IF A4Holds("ifNoPort") THEN {"ifOutput", "start",
        "portOn", "ifPort"} ELSE {"ifPort", "start"}
    BY <2>3 DEF A4Due, A4In
  <2>5. A4At("chip", "ifNoPort") BY <1>0, <2>1 DEF A4At, A4Idle
  <2>6. \A y : A4At("chip", y)' => IF A4Holds("ifNoPort") THEN y = "ifOutput" ELSE y = "ifPort"
    BY <2>3 DEF A4At, A4Idle
  <2>7. a4Todo'["chip"] \in A4ChipLists BY <2>3 DEF A4ChipLists
  <2> QED
    BY <2>1, <2>2, <2>4, <2>5, <2>6, <2>7 DEF A4SideMove, A4SideSteps, A4ChipMove, A4Modal, A4Owes,
       A4Holds
<1>3. CASE a4Todo["chip"] = <<"ifNoPort", "ifOutput", "start", "portOn">>
  <2>1. Head(a4Todo["chip"]) = "ifNoPort" /\ x = "ifNoPort" BY <1>3
  <2>2. \A y : A4Due("chip", y) <=> y \in {"ifNoPort", "ifOutput", "start", "portOn"}
    BY <1>3 DEF A4Due, A4In
  <2>3. a4Todo'["chip"] = IF A4Holds("ifNoPort") THEN <<"ifOutput", "start", "portOn">> ELSE <<>>
    BY <1>0, <1>3, <2>1 DEF A4Rest, A4Tests, A4Else
  <2>4. \A y : A4Due("chip", y)' <=> y \in IF A4Holds("ifNoPort") THEN {"ifOutput", "start",
        "portOn"} ELSE {}
    BY <2>3 DEF A4Due, A4In
  <2>5. A4At("chip", "ifNoPort") BY <1>0, <2>1 DEF A4At, A4Idle
  <2>6. \A y : A4At("chip", y)' => IF A4Holds("ifNoPort") THEN y = "ifOutput" ELSE FALSE
    BY <2>3 DEF A4At, A4Idle
  <2>7. a4Todo'["chip"] \in A4ChipLists BY <2>3 DEF A4ChipLists
  <2> QED
    BY <2>1, <2>2, <2>4, <2>5, <2>6, <2>7 DEF A4SideMove, A4SideSteps, A4ChipMove, A4Modal, A4Owes,
       A4Holds
<1>4. CASE a4Todo["chip"] = <<"ifPort", "start">>
  <2>1. Head(a4Todo["chip"]) = "ifPort" /\ x = "ifPort" BY <1>4
  <2>2. \A y : A4Due("chip", y) <=> y \in {"ifPort", "start"}
    BY <1>4 DEF A4Due, A4In
  <2>3. a4Todo'["chip"] = IF A4Holds("ifPort") THEN <<"start">> ELSE <<>>
    BY <1>0, <1>4, <2>1 DEF A4Rest, A4Tests, A4Else
  <2>4. \A y : A4Due("chip", y)' <=> y \in IF A4Holds("ifPort") THEN {"start"} ELSE {}
    BY <2>3 DEF A4Due, A4In
  <2>5. A4At("chip", "ifPort") BY <1>0, <2>1 DEF A4At, A4Idle
  <2>6. \A y : A4At("chip", y)' => IF A4Holds("ifPort") THEN y = "start" ELSE FALSE
    BY <2>3 DEF A4At, A4Idle
  <2>7. a4Todo'["chip"] \in A4ChipLists BY <2>3 DEF A4ChipLists
  <2> QED
    BY <2>1, <2>2, <2>4, <2>5, <2>6, <2>7 DEF A4SideMove, A4SideSteps, A4ChipMove, A4Modal, A4Owes,
       A4Holds
<1>5. CASE a4Todo["chip"] = <<"ifConnected", "ifDevice", "discingOn", "cancel", "off", "mode",
       "leave">>
  <2>1. Head(a4Todo["chip"]) = "ifConnected" /\ x = "ifConnected" BY <1>5
  <2>2. \A y : A4Due("chip", y) <=> y \in {"ifConnected", "ifDevice", "discingOn", "cancel", "off",
        "mode", "leave"}
    BY <1>5 DEF A4Due, A4In
  <2>3. a4Todo'["chip"] = IF A4Holds("ifConnected") THEN <<"ifDevice", "discingOn", "cancel",
        "off", "mode", "leave">> ELSE <<"leave">>
    BY <1>0, <1>5, <2>1 DEF A4Rest, A4Tests, A4Else
  <2>4. \A y : A4Due("chip", y)' <=> y \in IF A4Holds("ifConnected") THEN {"ifDevice", "discingOn",
        "cancel", "off", "mode", "leave"} ELSE {"leave"}
    BY <2>3 DEF A4Due, A4In
  <2>5. A4At("chip", "ifConnected") BY <1>0, <2>1 DEF A4At, A4Idle
  <2>6. \A y : A4At("chip", y)' => IF A4Holds("ifConnected") THEN y = "ifDevice" ELSE y = "leave"
    BY <2>3 DEF A4At, A4Idle
  <2>7. a4Todo'["chip"] \in A4ChipLists BY <2>3 DEF A4ChipLists
  <2> QED
    BY <2>1, <2>2, <2>4, <2>5, <2>6, <2>7 DEF A4SideMove, A4SideSteps, A4ChipMove, A4Modal, A4Owes,
       A4Holds
<1>6. CASE a4Todo["chip"] = <<"ifOutput", "start", "portOn", "ifPort", "start">>
  <2>1. Head(a4Todo["chip"]) = "ifOutput" /\ x = "ifOutput" BY <1>6
  <2>2. \A y : A4Due("chip", y) <=> y \in {"ifOutput", "start", "portOn", "ifPort"}
    BY <1>6 DEF A4Due, A4In
  <2>3. a4Todo'["chip"] = IF A4Holds("ifOutput") THEN <<"start", "portOn", "ifPort",
        "start">> ELSE <<"ifPort", "start">>
    BY <1>0, <1>6, <2>1 DEF A4Rest, A4Tests, A4Else
  <2>4. \A y : A4Due("chip", y)' <=> y \in IF A4Holds("ifOutput") THEN {"start", "portOn",
        "ifPort"} ELSE {"ifPort", "start"}
    BY <2>3 DEF A4Due, A4In
  <2>5. A4At("chip", "ifOutput") BY <1>0, <2>1 DEF A4At, A4Idle
  <2>6. \A y : A4At("chip", y)' => IF A4Holds("ifOutput") THEN y = "start" ELSE y = "ifPort"
    BY <2>3 DEF A4At, A4Idle
  <2>7. a4Todo'["chip"] \in A4ChipLists BY <2>3 DEF A4ChipLists
  <2> QED
    BY <2>1, <2>2, <2>4, <2>5, <2>6, <2>7 DEF A4SideMove, A4SideSteps, A4ChipMove, A4Modal, A4Owes,
       A4Holds
<1>7. CASE a4Todo["chip"] = <<"ifOutput", "start", "portOn">>
  <2>1. Head(a4Todo["chip"]) = "ifOutput" /\ x = "ifOutput" BY <1>7
  <2>2. \A y : A4Due("chip", y) <=> y \in {"ifOutput", "start", "portOn"}
    BY <1>7 DEF A4Due, A4In
  <2>3. a4Todo'["chip"] = IF A4Holds("ifOutput") THEN <<"start", "portOn">> ELSE <<>>
    BY <1>0, <1>7, <2>1 DEF A4Rest, A4Tests, A4Else
  <2>4. \A y : A4Due("chip", y)' <=> y \in IF A4Holds("ifOutput") THEN {"start", "portOn"} ELSE {}
    BY <2>3 DEF A4Due, A4In
  <2>5. A4At("chip", "ifOutput") BY <1>0, <2>1 DEF A4At, A4Idle
  <2>6. \A y : A4At("chip", y)' => IF A4Holds("ifOutput") THEN y = "start" ELSE FALSE
    BY <2>3 DEF A4At, A4Idle
  <2>7. a4Todo'["chip"] \in A4ChipLists BY <2>3 DEF A4ChipLists
  <2> QED
    BY <2>1, <2>2, <2>4, <2>5, <2>6, <2>7 DEF A4SideMove, A4SideSteps, A4ChipMove, A4Modal, A4Owes,
       A4Holds
<1>8. CASE a4Todo["chip"] = <<"start">>
  <2>1. Head(a4Todo["chip"]) = "start" /\ x = "start" BY <1>8
  <2>2. \A y : A4Due("chip", y) <=> y \in {"start"}
    BY <1>8 DEF A4Due, A4In
  <2>3. a4Todo'["chip"] = <<>>
    BY <1>0, <1>8, <2>1 DEF A4Rest, A4Tests
  <2>4. \A y : A4Due("chip", y)' <=> y \in {}
    BY <2>3 DEF A4Due, A4In
  <2>5. A4At("chip", "start") BY <1>0, <2>1 DEF A4At, A4Idle
  <2>6. \A y : A4At("chip", y)' => FALSE
    BY <2>3 DEF A4At, A4Idle
  <2>7. a4Todo'["chip"] \in A4ChipLists BY <2>3 DEF A4ChipLists
  <2> QED
    BY <2>1, <2>2, <2>4, <2>5, <2>6, <2>7 DEF A4SideMove, A4SideSteps, A4ChipMove, A4Modal, A4Owes
<1>9. CASE a4Todo["chip"] = <<"ifDevice", "discingOn", "cancel", "off", "mode", "leave">>
  <2>1. Head(a4Todo["chip"]) = "ifDevice" /\ x = "ifDevice" BY <1>9
  <2>2. \A y : A4Due("chip", y) <=> y \in {"ifDevice", "discingOn", "cancel", "off", "mode",
        "leave"}
    BY <1>9 DEF A4Due, A4In
  <2>3. a4Todo'["chip"] = IF A4Holds("ifDevice") THEN <<"discingOn", "cancel", "off", "mode",
        "leave">> ELSE <<"leave">>
    BY <1>0, <1>9, <2>1 DEF A4Rest, A4Tests, A4Else
  <2>4. \A y : A4Due("chip", y)' <=> y \in IF A4Holds("ifDevice") THEN {"discingOn", "cancel",
        "off", "mode", "leave"} ELSE {"leave"}
    BY <2>3 DEF A4Due, A4In
  <2>5. A4At("chip", "ifDevice") BY <1>0, <2>1 DEF A4At, A4Idle
  <2>6. \A y : A4At("chip", y)' => IF A4Holds("ifDevice") THEN y = "discingOn" ELSE y = "leave"
    BY <2>3 DEF A4At, A4Idle
  <2>7. a4Todo'["chip"] \in A4ChipLists BY <2>3 DEF A4ChipLists
  <2> QED
    BY <2>1, <2>2, <2>4, <2>5, <2>6, <2>7 DEF A4SideMove, A4SideSteps, A4ChipMove, A4Modal, A4Owes,
       A4Holds
<1>10. CASE a4Todo["chip"] = <<"leave">>
  <2>1. Head(a4Todo["chip"]) = "leave" /\ x = "leave" BY <1>10
  <2>2. \A y : A4Due("chip", y) <=> y \in {"leave"}
    BY <1>10 DEF A4Due, A4In
  <2>3. a4Todo'["chip"] = <<>>
    BY <1>0, <1>10, <2>1 DEF A4Rest, A4Tests
  <2>4. \A y : A4Due("chip", y)' <=> y \in {}
    BY <2>3 DEF A4Due, A4In
  <2>5. A4At("chip", "leave") BY <1>0, <2>1 DEF A4At, A4Idle
  <2>6. \A y : A4At("chip", y)' => FALSE
    BY <2>3 DEF A4At, A4Idle
  <2>7. a4Todo'["chip"] \in A4ChipLists BY <2>3 DEF A4ChipLists
  <2> QED
    BY <2>1, <2>2, <2>4, <2>5, <2>6, <2>7 DEF A4SideMove, A4SideSteps, A4ChipMove, A4Modal, A4Owes
<1>11. CASE a4Todo["chip"] = <<"start", "portOn", "ifPort", "start">>
  <2>1. Head(a4Todo["chip"]) = "start" /\ x = "start" BY <1>11
  <2>2. \A y : A4Due("chip", y) <=> y \in {"start", "portOn", "ifPort"}
    BY <1>11 DEF A4Due, A4In
  <2>3. a4Todo'["chip"] = <<"portOn", "ifPort", "start">>
    BY <1>0, <1>11, <2>1 DEF A4Rest, A4Tests
  <2>4. \A y : A4Due("chip", y)' <=> y \in {"portOn", "ifPort", "start"}
    BY <2>3 DEF A4Due, A4In
  <2>5. A4At("chip", "start") BY <1>0, <2>1 DEF A4At, A4Idle
  <2>6. \A y : A4At("chip", y)' => y = "portOn"
    BY <2>3 DEF A4At, A4Idle
  <2>7. a4Todo'["chip"] \in A4ChipLists BY <2>3 DEF A4ChipLists
  <2> QED
    BY <2>1, <2>2, <2>4, <2>5, <2>6, <2>7 DEF A4SideMove, A4SideSteps, A4ChipMove, A4Modal, A4Owes
<1>12. CASE a4Todo["chip"] = <<"start", "portOn">>
  <2>1. Head(a4Todo["chip"]) = "start" /\ x = "start" BY <1>12
  <2>2. \A y : A4Due("chip", y) <=> y \in {"start", "portOn"}
    BY <1>12 DEF A4Due, A4In
  <2>3. a4Todo'["chip"] = <<"portOn">>
    BY <1>0, <1>12, <2>1 DEF A4Rest, A4Tests
  <2>4. \A y : A4Due("chip", y)' <=> y \in {"portOn"}
    BY <2>3 DEF A4Due, A4In
  <2>5. A4At("chip", "start") BY <1>0, <2>1 DEF A4At, A4Idle
  <2>6. \A y : A4At("chip", y)' => y = "portOn"
    BY <2>3 DEF A4At, A4Idle
  <2>7. a4Todo'["chip"] \in A4ChipLists BY <2>3 DEF A4ChipLists
  <2> QED
    BY <2>1, <2>2, <2>4, <2>5, <2>6, <2>7 DEF A4SideMove, A4SideSteps, A4ChipMove, A4Modal, A4Owes
<1>13. CASE a4Todo["chip"] = <<"discingOn", "cancel", "off", "mode", "leave">>
  <2>1. Head(a4Todo["chip"]) = "discingOn" /\ x = "discingOn" BY <1>13
  <2>2. \A y : A4Due("chip", y) <=> y \in {"discingOn", "cancel", "off", "mode", "leave"}
    BY <1>13 DEF A4Due, A4In
  <2>3. a4Todo'["chip"] = <<"cancel", "off", "mode", "leave">>
    BY <1>0, <1>13, <2>1 DEF A4Rest, A4Tests
  <2>4. \A y : A4Due("chip", y)' <=> y \in {"cancel", "off", "mode", "leave"}
    BY <2>3 DEF A4Due, A4In
  <2>5. A4At("chip", "discingOn") BY <1>0, <2>1 DEF A4At, A4Idle
  <2>6. \A y : A4At("chip", y)' => y = "cancel"
    BY <2>3 DEF A4At, A4Idle
  <2>7. a4Todo'["chip"] \in A4ChipLists BY <2>3 DEF A4ChipLists
  <2> QED
    BY <2>1, <2>2, <2>4, <2>5, <2>6, <2>7 DEF A4SideMove, A4SideSteps, A4ChipMove, A4Modal, A4Owes
<1>14. CASE a4Todo["chip"] = <<"portOn", "ifPort", "start">>
  <2>1. Head(a4Todo["chip"]) = "portOn" /\ x = "portOn" BY <1>14
  <2>2. \A y : A4Due("chip", y) <=> y \in {"portOn", "ifPort", "start"}
    BY <1>14 DEF A4Due, A4In
  <2>3. a4Todo'["chip"] = <<"ifPort", "start">>
    BY <1>0, <1>14, <2>1 DEF A4Rest, A4Tests
  <2>4. \A y : A4Due("chip", y)' <=> y \in {"ifPort", "start"}
    BY <2>3 DEF A4Due, A4In
  <2>5. A4At("chip", "portOn") BY <1>0, <2>1 DEF A4At, A4Idle
  <2>6. \A y : A4At("chip", y)' => y = "ifPort"
    BY <2>3 DEF A4At, A4Idle
  <2>7. a4Todo'["chip"] \in A4ChipLists BY <2>3 DEF A4ChipLists
  <2> QED
    BY <2>1, <2>2, <2>4, <2>5, <2>6, <2>7 DEF A4SideMove, A4SideSteps, A4ChipMove, A4Modal, A4Owes
<1>15. CASE a4Todo["chip"] = <<"portOn">>
  <2>1. Head(a4Todo["chip"]) = "portOn" /\ x = "portOn" BY <1>15
  <2>2. \A y : A4Due("chip", y) <=> y \in {"portOn"}
    BY <1>15 DEF A4Due, A4In
  <2>3. a4Todo'["chip"] = <<>>
    BY <1>0, <1>15, <2>1 DEF A4Rest, A4Tests
  <2>4. \A y : A4Due("chip", y)' <=> y \in {}
    BY <2>3 DEF A4Due, A4In
  <2>5. A4At("chip", "portOn") BY <1>0, <2>1 DEF A4At, A4Idle
  <2>6. \A y : A4At("chip", y)' => FALSE
    BY <2>3 DEF A4At, A4Idle
  <2>7. a4Todo'["chip"] \in A4ChipLists BY <2>3 DEF A4ChipLists
  <2> QED
    BY <2>1, <2>2, <2>4, <2>5, <2>6, <2>7 DEF A4SideMove, A4SideSteps, A4ChipMove, A4Modal, A4Owes
<1>16. CASE a4Todo["chip"] = <<"cancel", "off", "mode", "leave">>
  <2>1. Head(a4Todo["chip"]) = "cancel" /\ x = "cancel" BY <1>16
  <2>2. \A y : A4Due("chip", y) <=> y \in {"cancel", "off", "mode", "leave"}
    BY <1>16 DEF A4Due, A4In
  <2>3. a4Todo'["chip"] = IF a4.device # 0 THEN <<"off", "mode", "leave">> ELSE <<"leave">>
    BY <1>0, <1>16, <2>1 DEF A4Rest, A4Tests
  <2>4. \A y : A4Due("chip", y)' <=> y \in IF a4.device # 0 THEN {"off", "mode",
        "leave"} ELSE {"leave"}
    BY <2>3 DEF A4Due, A4In
  <2>5. A4At("chip", "cancel") BY <1>0, <2>1 DEF A4At, A4Idle
  <2>6. \A y : A4At("chip", y)' => IF a4.device # 0 THEN y = "off" ELSE y = "leave"
    BY <2>3 DEF A4At, A4Idle
  <2>7. a4Todo'["chip"] \in A4ChipLists BY <2>3 DEF A4ChipLists
  <2> QED
    BY <2>1, <2>2, <2>4, <2>5, <2>6, <2>7 DEF A4SideMove, A4SideSteps, A4ChipMove, A4Modal, A4Owes
<1>17. CASE a4Todo["chip"] = <<"off", "mode", "leave">>
  <2>1. Head(a4Todo["chip"]) = "off" /\ x = "off" BY <1>17
  <2>2. \A y : A4Due("chip", y) <=> y \in {"off", "mode", "leave"}
    BY <1>17 DEF A4Due, A4In
  <2>3. a4Todo'["chip"] = <<"mode", "leave">>
    BY <1>0, <1>17, <2>1 DEF A4Rest, A4Tests
  <2>4. \A y : A4Due("chip", y)' <=> y \in {"mode", "leave"}
    BY <2>3 DEF A4Due, A4In
  <2>5. A4At("chip", "off") BY <1>0, <2>1 DEF A4At, A4Idle
  <2>6. \A y : A4At("chip", y)' => y = "mode"
    BY <2>3 DEF A4At, A4Idle
  <2>7. a4Todo'["chip"] \in A4ChipLists BY <2>3 DEF A4ChipLists
  <2> QED
    BY <2>1, <2>2, <2>4, <2>5, <2>6, <2>7 DEF A4SideMove, A4SideSteps, A4ChipMove, A4Modal, A4Owes
<1>18. CASE a4Todo["chip"] = <<"mode", "leave">>
  <2>1. Head(a4Todo["chip"]) = "mode" /\ x = "mode" BY <1>18
  <2>2. \A y : A4Due("chip", y) <=> y \in {"mode", "leave"}
    BY <1>18 DEF A4Due, A4In
  <2>3. a4Todo'["chip"] = <<A4Right, "leave">>
    BY <1>0, <1>18, <2>1 DEF A4Rest, A4Tests, A4Right
  <2>4. \A y : A4Due("chip", y)' <=> y \in {A4Right, "leave"}
    BY <2>3 DEF A4Due, A4In
  <2>5. A4At("chip", "mode") BY <1>0, <2>1 DEF A4At, A4Idle
  <2>6. \A y : A4At("chip", y)' => y = A4Right
    BY <2>3 DEF A4At, A4Idle
  <2>7. a4Todo'["chip"] \in A4ChipLists BY <2>3 DEF A4ChipLists, A4Right
  <2> QED
    BY <2>1, <2>2, <2>4, <2>5, <2>6, <2>7 DEF A4SideMove, A4SideSteps, A4ChipMove, A4Modal, A4Owes,
       A4Right
<1>19. CASE a4Todo["chip"] = <<"long", "leave">>
  <2>1. Head(a4Todo["chip"]) = "long" /\ x = "long" BY <1>19
  <2>2. \A y : A4Due("chip", y) <=> y \in {"long", "leave"}
    BY <1>19 DEF A4Due, A4In
  <2>3. a4Todo'["chip"] = <<"leave">>
    BY <1>0, <1>19, <2>1 DEF A4Rest, A4Tests
  <2>4. \A y : A4Due("chip", y)' <=> y \in {"leave"}
    BY <2>3 DEF A4Due, A4In
  <2>5. A4At("chip", "long") BY <1>0, <2>1 DEF A4At, A4Idle
  <2>6. \A y : A4At("chip", y)' => y = "leave"
    BY <2>3 DEF A4At, A4Idle
  <2>7. a4Todo'["chip"] \in A4ChipLists BY <2>3 DEF A4ChipLists
  <2> QED
    BY <2>1, <2>2, <2>4, <2>5, <2>6, <2>7 DEF A4SideMove, A4SideSteps, A4ChipMove, A4Modal, A4Owes
<1>20. CASE a4Todo["chip"] = <<"short", "leave">>
  <2>1. Head(a4Todo["chip"]) = "short" /\ x = "short" BY <1>20
  <2>2. \A y : A4Due("chip", y) <=> y \in {"short", "leave"}
    BY <1>20 DEF A4Due, A4In
  <2>3. a4Todo'["chip"] = <<"leave">>
    BY <1>0, <1>20, <2>1 DEF A4Rest, A4Tests
  <2>4. \A y : A4Due("chip", y)' <=> y \in {"leave"}
    BY <2>3 DEF A4Due, A4In
  <2>5. A4At("chip", "short") BY <1>0, <2>1, SMTT(60) DEF A4At, A4Idle
  <2>6. \A y : A4At("chip", y)' => y = "leave"
    BY <2>3 DEF A4At, A4Idle
  <2>7. a4Todo'["chip"] \in A4ChipLists BY <2>3 DEF A4ChipLists
  <2> QED
    BY <2>1, <2>2, <2>4, <2>5, <2>6, <2>7 DEF A4SideMove, A4SideSteps, A4ChipMove, A4Modal, A4Owes
<1> QED BY <1>0, <1>1, <1>2, <1>3, <1>4, <1>5, <1>6, <1>7, <1>8, <1>9, <1>10, <1>11, <1>12, <1>13,
  <1>14, <1>15, <1>16, <1>17, <1>18, <1>19, <1>20 DEF A4Lists, A4ChipLists

\* The battery monitor's thread, for each list.
LEMMA A4WbcMoves ==
  ASSUME A4Lists, A4Step("wbc"), NEW x, x = Head(a4Todo["wbc"])
  PROVE  A4SideMove("wbc", x) /\ A4WbcMove(x)
         /\ a4Todo'["wbc"] \in A4WbcLists
<1>0. a4Todo["wbc"] # <<>> /\ a4Todo'["wbc"] = A4Rest("wbc", Head(a4Todo["wbc"]))
  BY A4RestIs DEF A4Threads
<1>1. CASE a4Todo["wbc"] = <<"enter", "ifConnected", "ifDevice", "discingOn", "cancel", "off",
       "mode", "leave">>
  <2>1. Head(a4Todo["wbc"]) = "enter" /\ x = "enter" BY <1>1
  <2>2. \A y : A4Due("wbc", y) <=> y \in {"enter", "ifConnected", "ifDevice", "discingOn",
        "cancel", "off", "mode", "leave"}
    BY <1>1 DEF A4Due, A4In
  <2>3. a4Todo'["wbc"] = <<"ifConnected", "ifDevice", "discingOn", "cancel", "off", "mode",
        "leave">>
    BY <1>0, <1>1, <2>1 DEF A4Rest, A4Tests
  <2>4. \A y : A4Due("wbc", y)' <=> y \in {"ifConnected", "ifDevice", "discingOn", "cancel", "off",
        "mode", "leave"}
    BY <2>3 DEF A4Due, A4In
  <2>7. a4Todo'["wbc"] \in A4WbcLists BY <2>3 DEF A4WbcLists
  <2> QED BY <2>1, <2>2, <2>4, <2>7 DEF A4SideMove, A4SideSteps, A4WbcMove, A4Modal, A4Owes
<1>2. CASE a4Todo["wbc"] = <<"off", "completeOff", "ifDisconnected", "short">>
  <2>1. Head(a4Todo["wbc"]) = "off" /\ x = "off" BY <1>2
  <2>2. \A y : A4Due("wbc", y) <=> y \in {"off", "completeOff", "ifDisconnected", "short"}
    BY <1>2 DEF A4Due, A4In
  <2>3. a4Todo'["wbc"] = <<"completeOff", "ifDisconnected", "short">>
    BY <1>0, <1>2, <2>1 DEF A4Rest, A4Tests
  <2>4. \A y : A4Due("wbc", y)' <=> y \in {"completeOff", "ifDisconnected", "short"}
    BY <2>3 DEF A4Due, A4In
  <2>7. a4Todo'["wbc"] \in A4WbcLists BY <2>3 DEF A4WbcLists
  <2> QED BY <2>1, <2>2, <2>4, <2>7 DEF A4SideMove, A4SideSteps, A4WbcMove, A4Modal, A4Owes
<1>3. CASE a4Todo["wbc"] = <<"off", "completeOn", "ifDisconnected", "long">>
  <2>1. Head(a4Todo["wbc"]) = "off" /\ x = "off" BY <1>3
  <2>2. \A y : A4Due("wbc", y) <=> y \in {"off", "completeOn", "ifDisconnected", "long"}
    BY <1>3 DEF A4Due, A4In
  <2>3. a4Todo'["wbc"] = <<"completeOn", "ifDisconnected", "long">>
    BY <1>0, <1>3, <2>1 DEF A4Rest, A4Tests
  <2>4. \A y : A4Due("wbc", y)' <=> y \in {"completeOn", "ifDisconnected", "long"}
    BY <2>3 DEF A4Due, A4In
  <2>7. a4Todo'["wbc"] \in A4WbcLists BY <2>3 DEF A4WbcLists
  <2> QED BY <2>1, <2>2, <2>4, <2>7 DEF A4SideMove, A4SideSteps, A4WbcMove, A4Modal, A4Owes
<1>4. CASE a4Todo["wbc"] = <<"ifConnected", "ifDevice", "discingOn", "cancel", "off", "mode",
       "leave">>
  <2>1. Head(a4Todo["wbc"]) = "ifConnected" /\ x = "ifConnected" BY <1>4
  <2>2. \A y : A4Due("wbc", y) <=> y \in {"ifConnected", "ifDevice", "discingOn", "cancel", "off",
        "mode", "leave"}
    BY <1>4 DEF A4Due, A4In
  <2>3. a4Todo'["wbc"] = IF A4Holds("ifConnected") THEN <<"ifDevice", "discingOn", "cancel", "off",
        "mode", "leave">> ELSE <<"leave">>
    BY <1>0, <1>4, <2>1 DEF A4Rest, A4Tests, A4Else
  <2>4. \A y : A4Due("wbc", y)' <=> y \in IF A4Holds("ifConnected") THEN {"ifDevice", "discingOn",
        "cancel", "off", "mode", "leave"} ELSE {"leave"}
    BY <2>3 DEF A4Due, A4In
  <2>7. a4Todo'["wbc"] \in A4WbcLists BY <2>3 DEF A4WbcLists
  <2> QED BY <2>1, <2>2, <2>4, <2>7 DEF A4SideMove, A4SideSteps, A4WbcMove, A4Modal, A4Owes, A4Holds
<1>5. CASE a4Todo["wbc"] = <<"completeOff", "ifDisconnected", "short">>
  <2>1. Head(a4Todo["wbc"]) = "completeOff" /\ x = "completeOff" BY <1>5
  <2>2. \A y : A4Due("wbc", y) <=> y \in {"completeOff", "ifDisconnected", "short"}
    BY <1>5 DEF A4Due, A4In
  <2>3. a4Todo'["wbc"] = <<"ifDisconnected", "short">>
    BY <1>0, <1>5, <2>1 DEF A4Rest, A4Tests
  <2>4. \A y : A4Due("wbc", y)' <=> y \in {"ifDisconnected", "short"}
    BY <2>3 DEF A4Due, A4In
  <2>7. a4Todo'["wbc"] \in A4WbcLists BY <2>3 DEF A4WbcLists
  <2> QED BY <2>1, <2>2, <2>4, <2>7 DEF A4SideMove, A4SideSteps, A4WbcMove, A4Modal, A4Owes
<1>6. CASE a4Todo["wbc"] = <<"completeOn", "ifDisconnected", "long">>
  <2>1. Head(a4Todo["wbc"]) = "completeOn" /\ x = "completeOn" BY <1>6
  <2>2. \A y : A4Due("wbc", y) <=> y \in {"completeOn", "ifDisconnected", "long"}
    BY <1>6 DEF A4Due, A4In
  <2>3. a4Todo'["wbc"] = <<"ifDisconnected", "long">>
    BY <1>0, <1>6, <2>1 DEF A4Rest, A4Tests
  <2>4. \A y : A4Due("wbc", y)' <=> y \in {"ifDisconnected", "long"}
    BY <2>3 DEF A4Due, A4In
  <2>7. a4Todo'["wbc"] \in A4WbcLists BY <2>3 DEF A4WbcLists
  <2> QED BY <2>1, <2>2, <2>4, <2>7 DEF A4SideMove, A4SideSteps, A4WbcMove, A4Modal, A4Owes
<1>7. CASE a4Todo["wbc"] = <<"ifDevice", "discingOn", "cancel", "off", "mode", "leave">>
  <2>1. Head(a4Todo["wbc"]) = "ifDevice" /\ x = "ifDevice" BY <1>7
  <2>2. \A y : A4Due("wbc", y) <=> y \in {"ifDevice", "discingOn", "cancel", "off", "mode", "leave"}
    BY <1>7 DEF A4Due, A4In
  <2>3. a4Todo'["wbc"] = IF A4Holds("ifDevice") THEN <<"discingOn", "cancel", "off", "mode",
        "leave">> ELSE <<"leave">>
    BY <1>0, <1>7, <2>1 DEF A4Rest, A4Tests, A4Else
  <2>4. \A y : A4Due("wbc", y)' <=> y \in IF A4Holds("ifDevice") THEN {"discingOn", "cancel",
        "off", "mode", "leave"} ELSE {"leave"}
    BY <2>3 DEF A4Due, A4In
  <2>7. a4Todo'["wbc"] \in A4WbcLists BY <2>3 DEF A4WbcLists
  <2> QED BY <2>1, <2>2, <2>4, <2>7 DEF A4SideMove, A4SideSteps, A4WbcMove, A4Modal, A4Owes, A4Holds
<1>8. CASE a4Todo["wbc"] = <<"leave">>
  <2>1. Head(a4Todo["wbc"]) = "leave" /\ x = "leave" BY <1>8
  <2>2. \A y : A4Due("wbc", y) <=> y \in {"leave"}
    BY <1>8 DEF A4Due, A4In
  <2>3. a4Todo'["wbc"] = <<>>
    BY <1>0, <1>8, <2>1 DEF A4Rest, A4Tests
  <2>4. \A y : A4Due("wbc", y)' <=> y \in {}
    BY <2>3 DEF A4Due, A4In
  <2>7. a4Todo'["wbc"] \in A4WbcLists BY <2>3 DEF A4WbcLists
  <2> QED BY <2>1, <2>2, <2>4, <2>7 DEF A4SideMove, A4SideSteps, A4WbcMove, A4Modal, A4Owes
<1>9. CASE a4Todo["wbc"] = <<"ifDisconnected", "short">>
  <2>1. Head(a4Todo["wbc"]) = "ifDisconnected" /\ x = "ifDisconnected" BY <1>9
  <2>2. \A y : A4Due("wbc", y) <=> y \in {"ifDisconnected", "short"}
    BY <1>9 DEF A4Due, A4In
  <2>3. a4Todo'["wbc"] = IF A4Holds("ifDisconnected") THEN <<"short">> ELSE <<>>
    BY <1>0, <1>9, <2>1 DEF A4Rest, A4Tests, A4Else
  <2>4. \A y : A4Due("wbc", y)' <=> y \in IF A4Holds("ifDisconnected") THEN {"short"} ELSE {}
    BY <2>3 DEF A4Due, A4In
  <2>7. a4Todo'["wbc"] \in A4WbcLists BY <2>3 DEF A4WbcLists
  <2> QED BY <2>1, <2>2, <2>4, <2>7 DEF A4SideMove, A4SideSteps, A4WbcMove, A4Modal, A4Owes, A4Holds
<1>10. CASE a4Todo["wbc"] = <<"ifDisconnected", "long">>
  <2>1. Head(a4Todo["wbc"]) = "ifDisconnected" /\ x = "ifDisconnected" BY <1>10
  <2>2. \A y : A4Due("wbc", y) <=> y \in {"ifDisconnected", "long"}
    BY <1>10 DEF A4Due, A4In
  <2>3. a4Todo'["wbc"] = IF A4Holds("ifDisconnected") THEN <<"long">> ELSE <<>>
    BY <1>0, <1>10, <2>1 DEF A4Rest, A4Tests, A4Else
  <2>4. \A y : A4Due("wbc", y)' <=> y \in IF A4Holds("ifDisconnected") THEN {"long"} ELSE {}
    BY <2>3 DEF A4Due, A4In
  <2>7. a4Todo'["wbc"] \in A4WbcLists BY <2>3 DEF A4WbcLists
  <2> QED BY <2>1, <2>2, <2>4, <2>7 DEF A4SideMove, A4SideSteps, A4WbcMove, A4Modal, A4Owes, A4Holds
<1>11. CASE a4Todo["wbc"] = <<"discingOn", "cancel", "off", "mode", "leave">>
  <2>1. Head(a4Todo["wbc"]) = "discingOn" /\ x = "discingOn" BY <1>11
  <2>2. \A y : A4Due("wbc", y) <=> y \in {"discingOn", "cancel", "off", "mode", "leave"}
    BY <1>11 DEF A4Due, A4In
  <2>3. a4Todo'["wbc"] = <<"cancel", "off", "mode", "leave">>
    BY <1>0, <1>11, <2>1 DEF A4Rest, A4Tests
  <2>4. \A y : A4Due("wbc", y)' <=> y \in {"cancel", "off", "mode", "leave"}
    BY <2>3 DEF A4Due, A4In
  <2>7. a4Todo'["wbc"] \in A4WbcLists BY <2>3 DEF A4WbcLists
  <2> QED BY <2>1, <2>2, <2>4, <2>7 DEF A4SideMove, A4SideSteps, A4WbcMove, A4Modal, A4Owes
<1>12. CASE a4Todo["wbc"] = <<"short">>
  <2>1. Head(a4Todo["wbc"]) = "short" /\ x = "short" BY <1>12
  <2>2. \A y : A4Due("wbc", y) <=> y \in {"short"}
    BY <1>12 DEF A4Due, A4In
  <2>3. a4Todo'["wbc"] = <<>>
    BY <1>0, <1>12, <2>1 DEF A4Rest, A4Tests
  <2>4. \A y : A4Due("wbc", y)' <=> y \in {}
    BY <2>3 DEF A4Due, A4In
  <2>7. a4Todo'["wbc"] \in A4WbcLists BY <2>3 DEF A4WbcLists
  <2> QED BY <2>1, <2>2, <2>4, <2>7 DEF A4SideMove, A4SideSteps, A4WbcMove, A4Modal, A4Owes
<1>13. CASE a4Todo["wbc"] = <<"long">>
  <2>1. Head(a4Todo["wbc"]) = "long" /\ x = "long" BY <1>13
  <2>2. \A y : A4Due("wbc", y) <=> y \in {"long"}
    BY <1>13 DEF A4Due, A4In
  <2>3. a4Todo'["wbc"] = <<>>
    BY <1>0, <1>13, <2>1 DEF A4Rest, A4Tests
  <2>4. \A y : A4Due("wbc", y)' <=> y \in {}
    BY <2>3 DEF A4Due, A4In
  <2>7. a4Todo'["wbc"] \in A4WbcLists BY <2>3 DEF A4WbcLists
  <2> QED BY <2>1, <2>2, <2>4, <2>7 DEF A4SideMove, A4SideSteps, A4WbcMove, A4Modal, A4Owes
<1>14. CASE a4Todo["wbc"] = <<"cancel", "off", "mode", "leave">>
  <2>1. Head(a4Todo["wbc"]) = "cancel" /\ x = "cancel" BY <1>14
  <2>2. \A y : A4Due("wbc", y) <=> y \in {"cancel", "off", "mode", "leave"}
    BY <1>14 DEF A4Due, A4In
  <2>3. a4Todo'["wbc"] = IF a4.device # 0 THEN <<"off", "mode", "leave">> ELSE <<"leave">>
    BY <1>0, <1>14, <2>1 DEF A4Rest, A4Tests
  <2>4. \A y : A4Due("wbc", y)' <=> y \in IF a4.device # 0 THEN {"off", "mode",
        "leave"} ELSE {"leave"}
    BY <2>3 DEF A4Due, A4In
  <2>7. a4Todo'["wbc"] \in A4WbcLists BY <2>3 DEF A4WbcLists
  <2> QED BY <2>1, <2>2, <2>4, <2>7 DEF A4SideMove, A4SideSteps, A4WbcMove, A4Modal, A4Owes
<1>15. CASE a4Todo["wbc"] = <<"off", "mode", "leave">>
  <2>1. Head(a4Todo["wbc"]) = "off" /\ x = "off" BY <1>15
  <2>2. \A y : A4Due("wbc", y) <=> y \in {"off", "mode", "leave"}
    BY <1>15 DEF A4Due, A4In
  <2>3. a4Todo'["wbc"] = <<"mode", "leave">>
    BY <1>0, <1>15, <2>1 DEF A4Rest, A4Tests
  <2>4. \A y : A4Due("wbc", y)' <=> y \in {"mode", "leave"}
    BY <2>3 DEF A4Due, A4In
  <2>7. a4Todo'["wbc"] \in A4WbcLists BY <2>3 DEF A4WbcLists
  <2> QED BY <2>1, <2>2, <2>4, <2>7 DEF A4SideMove, A4SideSteps, A4WbcMove, A4Modal, A4Owes
<1>16. CASE a4Todo["wbc"] = <<"mode", "leave">>
  <2>1. Head(a4Todo["wbc"]) = "mode" /\ x = "mode" BY <1>16
  <2>2. \A y : A4Due("wbc", y) <=> y \in {"mode", "leave"}
    BY <1>16 DEF A4Due, A4In
  <2>3. a4Todo'["wbc"] = <<A4Right, "leave">>
    BY <1>0, <1>16, <2>1 DEF A4Rest, A4Tests, A4Right
  <2>4. \A y : A4Due("wbc", y)' <=> y \in {A4Right, "leave"}
    BY <2>3 DEF A4Due, A4In
  <2>7. a4Todo'["wbc"] \in A4WbcLists BY <2>3 DEF A4WbcLists, A4Right
  <2> QED BY <2>1, <2>2, <2>4, <2>7 DEF A4SideMove, A4SideSteps, A4WbcMove, A4Modal, A4Owes, A4Right
<1>17. CASE a4Todo["wbc"] = <<"long", "leave">>
  <2>1. Head(a4Todo["wbc"]) = "long" /\ x = "long" BY <1>17
  <2>2. \A y : A4Due("wbc", y) <=> y \in {"long", "leave"}
    BY <1>17 DEF A4Due, A4In
  <2>3. a4Todo'["wbc"] = <<"leave">>
    BY <1>0, <1>17, <2>1 DEF A4Rest, A4Tests
  <2>4. \A y : A4Due("wbc", y)' <=> y \in {"leave"}
    BY <2>3 DEF A4Due, A4In
  <2>7. a4Todo'["wbc"] \in A4WbcLists BY <2>3 DEF A4WbcLists
  <2> QED BY <2>1, <2>2, <2>4, <2>7 DEF A4SideMove, A4SideSteps, A4WbcMove, A4Modal, A4Owes
<1>18. CASE a4Todo["wbc"] = <<"short", "leave">>
  <2>1. Head(a4Todo["wbc"]) = "short" /\ x = "short" BY <1>18
  <2>2. \A y : A4Due("wbc", y) <=> y \in {"short", "leave"}
    BY <1>18 DEF A4Due, A4In
  <2>3. a4Todo'["wbc"] = <<"leave">>
    BY <1>0, <1>18, <2>1, SMTT(60) DEF A4Rest, A4Tests
  <2>4. \A y : A4Due("wbc", y)' <=> y \in {"leave"}
    BY <2>3 DEF A4Due, A4In
  <2>7. a4Todo'["wbc"] \in A4WbcLists BY <2>3 DEF A4WbcLists
  <2> QED BY <2>1, <2>2, <2>4, <2>7 DEF A4SideMove, A4SideSteps, A4WbcMove, A4Modal, A4Owes
<1> QED BY <1>0, <1>1, <1>2, <1>3, <1>4, <1>5, <1>6, <1>7, <1>8, <1>9, <1>10, <1>11, <1>12, <1>13,
  <1>14, <1>15, <1>16, <1>17, <1>18 DEF A4Lists, A4WbcLists

\* The main thread, while the service is up, for each list.
LEMMA A4MainMoves ==
  ASSUME A4Lists, A4Step("main"), NEW x, x = Head(a4Todo["main"]), a4Todo["main"] \in A4MainLists
  PROVE  A4MainMove(x)
         /\ a4Todo'["main"] \in A4MainLists
<1>0. a4Todo["main"] # <<>> /\ a4Todo'["main"] = A4Rest("main", Head(a4Todo["main"]))
  BY A4RestIs DEF A4Threads
<1>1. CASE a4Todo["main"] = <<"ifBoot", "mode", "unlock">>
  <2>1. Head(a4Todo["main"]) = "ifBoot" /\ x = "ifBoot" BY <1>1
  <2>2. \A y : A4Due("main", y) <=> y \in {"ifBoot", "mode", "unlock"}
    BY <1>1 DEF A4Due, A4In
  <2>3. a4Todo'["main"] = IF A4Holds("ifBoot") THEN <<"mode", "unlock">> ELSE <<"unlock">>
    BY <1>0, <1>1, <2>1 DEF A4Rest, A4Tests, A4Else
  <2>4. \A y : A4Due("main", y)' <=> y \in IF A4Holds("ifBoot") THEN {"mode",
        "unlock"} ELSE {"unlock"}
    BY <2>3 DEF A4Due, A4In
  <2>7. a4Todo'["main"] \in A4MainLists BY <2>3 DEF A4MainLists
  <2> QED BY <2>1, <2>2, <2>4, <2>7 DEF A4MainMove, A4Modal, A4Holds
<1>2. CASE a4Todo["main"] = <<"off", "mode", "bootOn">>
  <2>1. Head(a4Todo["main"]) = "off" /\ x = "off" BY <1>2
  <2>2. \A y : A4Due("main", y) <=> y \in {"off", "mode", "bootOn"}
    BY <1>2 DEF A4Due, A4In
  <2>3. a4Todo'["main"] = <<"mode", "bootOn">>
    BY <1>0, <1>2, <2>1 DEF A4Rest, A4Tests
  <2>4. \A y : A4Due("main", y)' <=> y \in {"mode", "bootOn"}
    BY <2>3 DEF A4Due, A4In
  <2>7. a4Todo'["main"] \in A4MainLists BY <2>3 DEF A4MainLists
  <2> QED BY <2>1, <2>2, <2>4, <2>7 DEF A4MainMove, A4Modal
<1>3. CASE a4Todo["main"] = <<"off", "mode">>
  <2>1. Head(a4Todo["main"]) = "off" /\ x = "off" BY <1>3
  <2>2. \A y : A4Due("main", y) <=> y \in {"off", "mode"}
    BY <1>3 DEF A4Due, A4In
  <2>3. a4Todo'["main"] = <<"mode">>
    BY <1>0, <1>3, <2>1 DEF A4Rest, A4Tests
  <2>4. \A y : A4Due("main", y)' <=> y \in {"mode"}
    BY <2>3 DEF A4Due, A4In
  <2>7. a4Todo'["main"] \in A4MainLists BY <2>3 DEF A4MainLists
  <2> QED BY <2>1, <2>2, <2>4, <2>7 DEF A4MainMove, A4Modal
<1>4. CASE a4Todo["main"] = <<"mode", "unlock">>
  <2>1. Head(a4Todo["main"]) = "mode" /\ x = "mode" BY <1>4
  <2>2. \A y : A4Due("main", y) <=> y \in {"mode", "unlock"}
    BY <1>4 DEF A4Due, A4In
  <2>3. a4Todo'["main"] = <<A4Right, "unlock">>
    BY <1>0, <1>4, <2>1 DEF A4Rest, A4Tests, A4Right
  <2>4. \A y : A4Due("main", y)' <=> y \in {A4Right, "unlock"}
    BY <2>3 DEF A4Due, A4In
  <2>7. a4Todo'["main"] \in A4MainLists BY <2>3 DEF A4MainLists, A4Right
  <2> QED BY <2>1, <2>2, <2>4, <2>7 DEF A4MainMove, A4Modal, A4Right
<1>5. CASE a4Todo["main"] = <<"unlock">>
  <2>1. Head(a4Todo["main"]) = "unlock" /\ x = "unlock" BY <1>5
  <2>2. \A y : A4Due("main", y) <=> y \in {"unlock"}
    BY <1>5 DEF A4Due, A4In
  <2>3. a4Todo'["main"] = <<>>
    BY <1>0, <1>5, <2>1 DEF A4Rest, A4Tests
  <2>4. \A y : A4Due("main", y)' <=> y \in {}
    BY <2>3 DEF A4Due, A4In
  <2>7. a4Todo'["main"] \in A4MainLists BY <2>3 DEF A4MainLists
  <2> QED BY <2>1, <2>2, <2>4, <2>7 DEF A4MainMove, A4Modal
<1>6. CASE a4Todo["main"] = <<"mode", "bootOn">>
  <2>1. Head(a4Todo["main"]) = "mode" /\ x = "mode" BY <1>6
  <2>2. \A y : A4Due("main", y) <=> y \in {"mode", "bootOn"}
    BY <1>6 DEF A4Due, A4In
  <2>3. a4Todo'["main"] = <<A4Right, "bootOn">>
    BY <1>0, <1>6, <2>1 DEF A4Rest, A4Tests, A4Right
  <2>4. \A y : A4Due("main", y)' <=> y \in {A4Right, "bootOn"}
    BY <2>3 DEF A4Due, A4In
  <2>7. a4Todo'["main"] \in A4MainLists BY <2>3 DEF A4MainLists, A4Right
  <2> QED BY <2>1, <2>2, <2>4, <2>7 DEF A4MainMove, A4Modal, A4Right
<1>7. CASE a4Todo["main"] = <<"mode">>
  <2>1. Head(a4Todo["main"]) = "mode" /\ x = "mode" BY <1>7
  <2>2. \A y : A4Due("main", y) <=> y \in {"mode"}
    BY <1>7 DEF A4Due, A4In
  <2>3. a4Todo'["main"] = <<A4Right>>
    BY <1>0, <1>7, <2>1 DEF A4Rest, A4Tests, A4Right
  <2>4. \A y : A4Due("main", y)' <=> y \in {A4Right}
    BY <2>3 DEF A4Due, A4In
  <2>7. a4Todo'["main"] \in A4MainLists BY <2>3 DEF A4MainLists, A4Right
  <2> QED BY <2>1, <2>2, <2>4, <2>7 DEF A4MainMove, A4Modal, A4Right
<1>8. CASE a4Todo["main"] = <<"long", "unlock">>
  <2>1. Head(a4Todo["main"]) = "long" /\ x = "long" BY <1>8
  <2>2. \A y : A4Due("main", y) <=> y \in {"long", "unlock"}
    BY <1>8 DEF A4Due, A4In
  <2>3. a4Todo'["main"] = <<"unlock">>
    BY <1>0, <1>8, <2>1 DEF A4Rest, A4Tests
  <2>4. \A y : A4Due("main", y)' <=> y \in {"unlock"}
    BY <2>3 DEF A4Due, A4In
  <2>7. a4Todo'["main"] \in A4MainLists BY <2>3 DEF A4MainLists
  <2> QED BY <2>1, <2>2, <2>4, <2>7 DEF A4MainMove, A4Modal
<1>9. CASE a4Todo["main"] = <<"short", "unlock">>
  <2>1. Head(a4Todo["main"]) = "short" /\ x = "short" BY <1>9
  <2>2. \A y : A4Due("main", y) <=> y \in {"short", "unlock"}
    BY <1>9 DEF A4Due, A4In
  <2>3. a4Todo'["main"] = <<"unlock">>
    BY <1>0, <1>9, <2>1 DEF A4Rest, A4Tests
  <2>4. \A y : A4Due("main", y)' <=> y \in {"unlock"}
    BY <2>3 DEF A4Due, A4In
  <2>7. a4Todo'["main"] \in A4MainLists BY <2>3 DEF A4MainLists
  <2> QED BY <2>1, <2>2, <2>4, <2>7 DEF A4MainMove, A4Modal
<1>10. CASE a4Todo["main"] = <<"long", "bootOn">>
  <2>1. Head(a4Todo["main"]) = "long" /\ x = "long" BY <1>10
  <2>2. \A y : A4Due("main", y) <=> y \in {"long", "bootOn"}
    BY <1>10 DEF A4Due, A4In
  <2>3. a4Todo'["main"] = <<"bootOn">>
    BY <1>0, <1>10, <2>1 DEF A4Rest, A4Tests
  <2>4. \A y : A4Due("main", y)' <=> y \in {"bootOn"}
    BY <2>3 DEF A4Due, A4In
  <2>7. a4Todo'["main"] \in A4MainLists BY <2>3 DEF A4MainLists
  <2> QED BY <2>1, <2>2, <2>4, <2>7 DEF A4MainMove, A4Modal
<1>11. CASE a4Todo["main"] = <<"short", "bootOn">>
  <2>1. Head(a4Todo["main"]) = "short" /\ x = "short" BY <1>11
  <2>2. \A y : A4Due("main", y) <=> y \in {"short", "bootOn"}
    BY <1>11 DEF A4Due, A4In
  <2>3. a4Todo'["main"] = <<"bootOn">>
    BY <1>0, <1>11, <2>1 DEF A4Rest, A4Tests
  <2>4. \A y : A4Due("main", y)' <=> y \in {"bootOn"}
    BY <2>3 DEF A4Due, A4In
  <2>7. a4Todo'["main"] \in A4MainLists BY <2>3 DEF A4MainLists
  <2> QED BY <2>1, <2>2, <2>4, <2>7 DEF A4MainMove, A4Modal
<1>12. CASE a4Todo["main"] = <<"long">>
  <2>1. Head(a4Todo["main"]) = "long" /\ x = "long" BY <1>12
  <2>2. \A y : A4Due("main", y) <=> y \in {"long"}
    BY <1>12 DEF A4Due, A4In
  <2>3. a4Todo'["main"] = <<>>
    BY <1>0, <1>12, <2>1 DEF A4Rest, A4Tests
  <2>4. \A y : A4Due("main", y)' <=> y \in {}
    BY <2>3 DEF A4Due, A4In
  <2>7. a4Todo'["main"] \in A4MainLists BY <2>3 DEF A4MainLists
  <2> QED BY <2>1, <2>2, <2>4, <2>7 DEF A4MainMove, A4Modal
<1>13. CASE a4Todo["main"] = <<"short">>
  <2>1. Head(a4Todo["main"]) = "short" /\ x = "short" BY <1>13
  <2>2. \A y : A4Due("main", y) <=> y \in {"short"}
    BY <1>13 DEF A4Due, A4In
  <2>3. a4Todo'["main"] = <<>>
    BY <1>0, <1>13, <2>1 DEF A4Rest, A4Tests
  <2>4. \A y : A4Due("main", y)' <=> y \in {}
    BY <2>3 DEF A4Due, A4In
  <2>7. a4Todo'["main"] \in A4MainLists BY <2>3 DEF A4MainLists
  <2> QED BY <2>1, <2>2, <2>4, <2>7 DEF A4MainMove, A4Modal
<1>14. CASE a4Todo["main"] = <<"bootOn">>
  <2>1. Head(a4Todo["main"]) = "bootOn" /\ x = "bootOn" BY <1>14
  <2>2. \A y : A4Due("main", y) <=> y \in {"bootOn"}
    BY <1>14 DEF A4Due, A4In
  <2>3. a4Todo'["main"] = <<>>
    BY <1>0, <1>14, <2>1 DEF A4Rest, A4Tests
  <2>4. \A y : A4Due("main", y)' <=> y \in {}
    BY <2>3 DEF A4Due, A4In
  <2>7. a4Todo'["main"] \in A4MainLists BY <2>3 DEF A4MainLists
  <2> QED BY <2>1, <2>2, <2>4, <2>7 DEF A4MainMove, A4Modal
<1> QED BY <1>0, <1>1, <1>2, <1>3, <1>4, <1>5, <1>6, <1>7, <1>8, <1>9, <1>10, <1>11, <1>12, <1>13,
  <1>14 DEF A4Lists, A4MainLists

\* The next step is still to be taken.
LEMMA A4AtIsDue ==
  ASSUME A4Lists
  PROVE  \A y : A4At("chip", y) => A4Due("chip", y)
<1> SUFFICES ASSUME NEW y, A4At("chip", y) PROVE A4Due("chip", y) OBVIOUS
<1> QED BY DEF A4Lists, A4ChipLists, A4At, A4Idle, A4Due, A4In

\* A step of the GATT thread.
LEMMA A4GattStep ==
  ASSUME A4Inv, A4Step("gatt")
  PROVE  A4Inv'
<1> PICK x : x = Head(a4Todo["gatt"]) OBVIOUS
<1>0. "gatt" \in A4Threads /\ A4Threads = {"gatt", "chip", "wbc", "main"} BY DEF A4Threads
<1>1. A4Typed /\ A4Lists /\ A4Unbound /\ A4Charge /\ A4Discing /\ A4Locked /\ A4Leaving
      /\ A4Serving /\ A4Seeking
  BY DEF A4Inv
<1>2. A4Others("gatt") /\ A4StepEffect(x) /\ A4PastEffect("gatt", x) /\ A4Typed'
  BY <1>0, <1>1, A4RestIs, A4StepIs, A4PastIs
<1>3. A4GattMove(x) /\ a4Todo'["gatt"] \in A4GattLists BY <1>1, A4GattMoves
<1>4. A4Lists' BY <1>0, <1>1, <1>2, <1>3 DEF A4Lists, A4Others, A4StepEffect
<1>5. A4Unbound'
  BY <1>0, <1>1, <1>2, <1>3 DEF A4Unbound, A4Others, A4StepEffect, A4GattMove, A4Right
<1>6. A4Charge'
  <2>1. SUFFICES ASSUME a4'.up, A4InTurn' PROVE A4Asked' BY DEF A4Charge
  <2>2. A4InTurn /\ A4Asked
    BY <1>1, <1>2, <2>1 DEF A4Charge, A4InTurn, A4StepEffect, A4PastEffect
  <2>3. x \in A4Withdrawal => ~A4Due("chip", "start") /\ ~A4Due("chip", "portOn")
    BY <1>2, <2>1 DEF A4InTurn, A4PastEffect
  <2>4. A4At("chip", "portOn") => A4Due("chip", "portOn")
    BY <1>1, A4AtIsDue
  <2>5. 0 \notin a4World.told BY <1>1, A4Assumption DEF A4Typed
  <2>6. A4Told' <=> IF x = "forget" THEN FALSE ELSE IF x = "device" THEN a4Peer \in a4World.told ELSE A4Told
    BY <1>2, <2>5 DEF A4Told, A4StepEffect
  <2>7. \A y \in {"outputOff", "stop", "portOff", "forget", "outputOn", "device"} :
          A4Due("gatt", y)' <=> A4Due("gatt", y) /\ x # y
    BY <1>3 DEF A4GattMove, A4Right
  <2>8. ASSUME x = "device" PROVE A4Asked'
    BY <1>0, <1>2, <1>3, <2>2, <2>5, <2>6, <2>7, <2>8 DEF A4Asked, A4Told, A4Withdrawing, A4Others,
       A4StepEffect, A4GattMove
  <2>9. ASSUME x = "forget" PROVE A4Asked'
    BY <1>0, <1>2, <1>3, <2>2, <2>6, <2>7, <2>9 DEF A4Asked, A4Withdrawing, A4Others, A4StepEffect,
       A4GattMove
  <2>10. ASSUME x \notin {"device", "forget"} PROVE A4Asked'
    <3>0. /\ A4Due("gatt", x) /\ x # "start" /\ x # "portOn"
          /\ x = "stop" => A4Due("gatt", "portOff")
      BY <1>3 DEF A4GattMove
    <3>1. A4Told' <=> A4Told BY <2>6, <2>10
    <3>2. a4Chip'.charging <=> a4Chip.charging /\ x # "stop"
      BY <1>1, <1>2, <1>3 DEF A4Unbound, A4StepEffect, A4GattMove
    <3>3. "output" \in a4Static' => A4Told' \/ A4Due("gatt", "outputOff")'
      BY <1>2, <2>2, <2>7, <3>0, <3>1 DEF A4Asked, A4StepEffect
    <3>4. a4Chip'.charging => A4Told' \/ A4Due("gatt", "stop")'
      BY <2>2, <2>7, <3>1, <3>2 DEF A4Asked
    <3>5. (A4At("chip", "portOn")' => a4Chip'.charging)
          /\ (A4At("chip", "start")' => A4Told' \/ A4Withdrawing')
      <4>1. \A y : A4At("chip", y)' <=> A4At("chip", y) BY <1>0, <1>2 DEF A4Others
      <4>2. x \in A4Withdrawal => ~A4At("chip", "portOn") /\ ~A4At("chip", "start")
        BY <1>1, <2>3, A4AtIsDue
      <4>3. x \notin A4Withdrawal => (A4Withdrawing' <=> A4Withdrawing)
        BY <2>7 DEF A4Withdrawing, A4Withdrawal
      <4> QED BY <2>2, <3>1, <3>2, <4>1, <4>2, <4>3 DEF A4Asked, A4Withdrawal
    <3>6. "port" \in a4Static' => a4Chip'.charging \/ A4Due("gatt", "portOff")'
      BY <1>2, <2>2, <2>7, <3>0, <3>2 DEF A4Asked, A4StepEffect
    <3> QED BY <1>2, <2>2, <2>7, <2>10, <3>1, <3>3, <3>4, <3>5, <3>6 DEF A4Asked, A4StepEffect
  <2> QED BY <2>8, <2>9, <2>10
<1>7. A4Discing'
  BY <1>0, <1>1, <1>2, <1>3 DEF A4Discing, A4Others, A4StepEffect, A4PastEffect, A4GattMove, A4Odd,
     A4Right
<1>8. A4Locked'
  BY <1>0, <1>1, <1>2, <1>3 DEF A4Locked, A4Others, A4StepEffect, A4PastEffect, A4GattMove, A4Right
<1>9. A4Leaving' BY <1>0, <1>1, <1>2, <1>3 DEF A4Leaving, A4StepEffect, A4GattMove, A4Right
<1>10. A4Serving'
  BY <1>0, <1>1, <1>2, <1>3 DEF A4Serving, A4Leaving, A4Unbound, A4Others, A4StepEffect,
     A4PastEffect, A4GattMove, A4Modal, A4Right
<1>11. A4Seeking'
  BY <1>0, <1>1, <1>2, <1>3 DEF A4Seeking, A4Alone, A4ModesRight, A4Owed, A4Owes, A4Others,
     A4StepEffect, A4PastEffect,
     A4GattMove, A4Modal, A4Right
<1> QED BY <1>2, <1>4, <1>5, <1>6, <1>7, <1>8, <1>9, <1>10, <1>11 DEF A4Inv

\* A step of the chip's thread.
LEMMA A4ChipStep ==
  ASSUME A4Inv, A4Step("chip")
  PROVE  A4Inv'
<1> PICK x : x = Head(a4Todo["chip"]) OBVIOUS
<1>0. "chip" \in A4Threads /\ A4Threads = {"gatt", "chip", "wbc", "main"} BY DEF A4Threads
<1>1. A4Typed /\ A4Lists /\ A4Unbound /\ A4Charge /\ A4Discing /\ A4Locked /\ A4Leaving
      /\ A4Serving /\ A4Seeking
  BY DEF A4Inv
<1>2. A4Others("chip") /\ A4StepEffect(x) /\ A4PastEffect("chip", x) /\ A4Typed'
  BY <1>0, <1>1, A4RestIs, A4StepIs, A4PastIs
<1>3. A4SideMove("chip", x) /\ A4ChipMove(x) /\ a4Todo'["chip"] \in A4ChipLists BY <1>1, A4ChipMoves
<1>4. A4Lists' BY <1>0, <1>1, <1>2, <1>3 DEF A4Lists, A4Others, A4StepEffect
<1>5. A4Unbound'
  BY <1>0, <1>1, <1>2, <1>3 DEF A4Unbound, A4Others, A4StepEffect, A4SideMove, A4SideSteps, A4Right
<1>6. A4Charge'
  <2>1. SUFFICES ASSUME a4'.up, A4InTurn' PROVE A4Asked' BY DEF A4Charge
  <2>2. A4InTurn /\ A4Asked
    BY <1>1, <1>2, <2>1 DEF A4Charge, A4InTurn, A4StepEffect, A4PastEffect
  <2>3. x = "start" => ~A4Withdrawing BY <1>2, <2>1 DEF A4InTurn, A4PastEffect
  <2>4. (A4Told' <=> A4Told) /\ (A4Withdrawing' <=> A4Withdrawing)
    BY <1>0, <1>2, <1>3 DEF A4Told, A4Withdrawing, A4StepEffect, A4Others, A4SideMove, A4SideSteps
  <2> QED
    BY <1>0, <1>1, <1>2, <1>3, <2>2, <2>3, <2>4
    DEF A4Asked, A4Unbound, A4Withdrawing, A4Others, A4StepEffect, A4SideMove, A4SideSteps, A4ChipMove
<1>7. A4Discing'
  <2>1. SUFFICES ASSUME a4'.up, ~A4Odd({"crossed", "carried"})'
                 PROVE  /\ "discing" \in a4Static' => a4'.connected \/ A4Due("gatt", "discingOff")'
                        /\ \A u \in {"chip", "wbc"} :
                             A4Due(u, "discingOn")' /\ ~A4Due(u, "ifConnected")' => a4'.connected
    BY DEF A4Discing
  <2>2. a4.up /\ ~A4Odd({"crossed", "carried"}) BY <1>2, <2>1 DEF A4Odd, A4StepEffect, A4PastEffect
  <2>3. a4'.connected <=> a4.connected BY <1>2, <1>3 DEF A4StepEffect, A4SideMove, A4SideSteps
  <2>4. A4Due("chip", "discingOn")' => A4Due("chip", "discingOn") BY <1>3 DEF A4SideMove, A4Right
  <2>5. A4Due("chip", "discingOn")' /\ ~A4Due("chip", "ifConnected")' => a4.connected
    BY <1>1, <1>3, <2>2, <2>4 DEF A4SideMove, A4Discing
  <2>6. "discing" \in a4Static' => "discing" \in a4Static \/ a4.connected
    BY <1>1, <1>2, <1>3, <2>2 DEF A4StepEffect, A4SideMove, A4Discing
  <2> QED BY <1>0, <1>1, <1>2, <2>2, <2>3, <2>5, <2>6 DEF A4Others, A4Discing
<1>8. A4Locked'
  BY <1>0, <1>1, <1>2, <1>3 DEF A4Locked, A4Others, A4StepEffect, A4PastEffect, A4SideMove,
     A4SideSteps
<1>9. A4Leaving'
  BY <1>0, <1>1, <1>2, <1>3 DEF A4Leaving, A4Others, A4StepEffect, A4SideMove, A4SideSteps
<1>10. A4Serving'
  BY <1>0, <1>1, <1>2, <1>3 DEF A4Serving, A4Unbound, A4Others, A4StepEffect, A4PastEffect,
     A4SideMove, A4SideSteps, A4Modal
<1>11. A4Seeking'
  BY <1>0, <1>1, <1>2, <1>3 DEF A4Seeking, A4Alone, A4ModesRight, A4Owed, A4Owes, A4Others,
     A4StepEffect, A4PastEffect,
     A4SideMove, A4SideSteps, A4ChipMove, A4Modal, A4Right
<1> QED BY <1>2, <1>4, <1>5, <1>6, <1>7, <1>8, <1>9, <1>10, <1>11 DEF A4Inv

\* A step of the battery monitor's thread.
LEMMA A4WbcStep ==
  ASSUME A4Inv, A4Step("wbc")
  PROVE  A4Inv'
<1> PICK x : x = Head(a4Todo["wbc"]) OBVIOUS
<1>0. "wbc" \in A4Threads /\ A4Threads = {"gatt", "chip", "wbc", "main"} BY DEF A4Threads
<1>1. A4Typed /\ A4Lists /\ A4Unbound /\ A4Charge /\ A4Discing /\ A4Locked /\ A4Leaving
      /\ A4Serving /\ A4Seeking
  BY DEF A4Inv
<1>2. A4Others("wbc") /\ A4StepEffect(x) /\ A4PastEffect("wbc", x) /\ A4Typed'
  BY <1>0, <1>1, A4RestIs, A4StepIs, A4PastIs
<1>3. A4SideMove("wbc", x) /\ A4WbcMove(x) /\ a4Todo'["wbc"] \in A4WbcLists BY <1>1, A4WbcMoves
<1>4. A4Lists' BY <1>0, <1>1, <1>2, <1>3 DEF A4Lists, A4Others, A4StepEffect
<1>5. A4Unbound'
  BY <1>0, <1>1, <1>2, <1>3 DEF A4Unbound, A4Others, A4StepEffect, A4SideMove, A4SideSteps, A4Right,
     A4WbcMove
<1>6. A4Charge'
  <2>1. SUFFICES ASSUME a4'.up, A4InTurn' PROVE A4Asked' BY DEF A4Charge
  <2>2. A4Asked
    BY <1>1, <1>2, <2>1 DEF A4Charge, A4InTurn, A4StepEffect, A4PastEffect
  <2>3. (A4Told' <=> A4Told) /\ (A4Withdrawing' <=> A4Withdrawing)
    BY <1>0, <1>2, <1>3 DEF A4Told, A4Withdrawing, A4StepEffect, A4Others, A4SideMove, A4SideSteps
  <2> QED
    BY <1>0, <1>2, <1>3, <2>2, <2>3
    DEF A4Asked, A4Others, A4StepEffect, A4SideMove, A4SideSteps, A4WbcMove
<1>7. A4Discing'
  <2>1. SUFFICES ASSUME a4'.up, ~A4Odd({"crossed", "carried"})'
                 PROVE  /\ "discing" \in a4Static' => a4'.connected \/ A4Due("gatt", "discingOff")'
                        /\ \A u \in {"chip", "wbc"} :
                             A4Due(u, "discingOn")' /\ ~A4Due(u, "ifConnected")' => a4'.connected
    BY DEF A4Discing
  <2>2. a4.up /\ ~A4Odd({"crossed", "carried"}) BY <1>2, <2>1 DEF A4Odd, A4StepEffect, A4PastEffect
  <2>3. a4'.connected <=> a4.connected BY <1>2, <1>3 DEF A4StepEffect, A4SideMove, A4SideSteps
  <2>4. A4Due("wbc", "discingOn")' => A4Due("wbc", "discingOn") BY <1>3 DEF A4SideMove, A4Right
  <2>5. A4Due("wbc", "discingOn")' /\ ~A4Due("wbc", "ifConnected")' => a4.connected
    BY <1>1, <1>3, <2>2, <2>4 DEF A4SideMove, A4Discing
  <2>6. "discing" \in a4Static' => "discing" \in a4Static \/ a4.connected
    BY <1>1, <1>2, <1>3, <2>2 DEF A4StepEffect, A4SideMove, A4Discing
  <2> QED BY <1>0, <1>1, <1>2, <2>2, <2>3, <2>5, <2>6 DEF A4Others, A4Discing
<1>8. A4Locked'
  BY <1>0, <1>1, <1>2, <1>3 DEF A4Locked, A4Others, A4StepEffect, A4PastEffect, A4SideMove,
     A4SideSteps
<1>9. A4Leaving'
  BY <1>0, <1>1, <1>2, <1>3 DEF A4Leaving, A4Others, A4StepEffect, A4SideMove, A4SideSteps
<1>10. A4Serving'
  BY <1>0, <1>1, <1>2, <1>3 DEF A4Serving, A4Unbound, A4Others, A4StepEffect, A4PastEffect,
     A4SideMove, A4SideSteps, A4Modal
<1>11. A4Seeking'
  <2>1. SUFFICES ASSUME a4'.up, "stale" \notin a4Past'
                 PROVE  A4ModesRight' /\ (A4Alone' => a4Chip'.apply = A4Right' \/ A4Owed')
    BY DEF A4Seeking
  <2>2. A4ModesRight /\ (A4Alone => a4Chip.apply = A4Right \/ A4Owed)
    BY <1>1, <1>2, <2>1 DEF A4Seeking, A4StepEffect, A4PastEffect
  <2>3. A4Alone' => A4Alone
    BY <1>0, <1>2, <1>3 DEF A4Alone, A4StepEffect, A4Others, A4SideMove, A4SideSteps
  <2>4. CASE x \in {"completeOn", "completeOff"}
    <3>1. \A u \in A4Threads \ {"wbc"} : ~A4Due(u, "short") /\ ~A4Due(u, "long")
      BY <1>0, <1>1, <1>2, <2>1, <2>4 DEF A4PastEffect, A4Leaving
    <3>2. A4ModesRight'
      BY <1>0, <1>2, <1>3, <2>4, <3>1 DEF A4ModesRight, A4Others, A4SideMove, A4StepEffect
    <3>3. A4Owed' BY <1>0, <1>3, <2>4 DEF A4Owed, A4SideMove
    <3> QED BY <3>2, <3>3
  <2>5. CASE x \notin {"completeOn", "completeOff"}
    <3>1. A4Right' = A4Right /\ ("complete" \in a4Static' <=> "complete" \in a4Static)
      BY <1>2, <2>5 DEF A4Right, A4StepEffect
    <3>2. A4ModesRight'
      BY <1>0, <1>2, <1>3, <2>2, <2>5, <3>1 DEF A4ModesRight, A4Others, A4SideMove, A4Right
    <3>3. ASSUME A4Alone', x \in {"short", "long"} PROVE a4Chip'.apply = A4Right
      BY <1>0, <1>2, <1>3, <2>2, <2>3, <3>3 DEF A4Alone, A4ModesRight, A4StepEffect, A4SideMove,
         A4Right
    <3>4. ASSUME A4Alone', x \notin {"short", "long"}, A4Owed PROVE A4Owed'
      BY <1>0, <1>2, <1>3, <2>3, <3>4 DEF A4Alone, A4Owed, A4Owes, A4Modal, A4Others, A4SideMove
    <3>5. ASSUME x = "off" PROVE A4Owed' BY <1>0, <1>3, <3>5 DEF A4Owed, A4SideMove
    <3> QED BY <1>2, <2>2, <2>3, <3>1, <3>2, <3>3, <3>4, <3>5 DEF A4StepEffect
  <2> QED BY <2>4, <2>5
<1> QED BY <1>2, <1>4, <1>5, <1>6, <1>7, <1>8, <1>9, <1>10, <1>11 DEF A4Inv

\* A step of the main thread.
LEMMA A4MainStep ==
  ASSUME A4Inv, A4Step("main")
  PROVE  A4Inv'
<1> PICK x : x = Head(a4Todo["main"]) OBVIOUS
<1>0. "main" \in A4Threads /\ A4Threads = {"gatt", "chip", "wbc", "main"} BY DEF A4Threads
<1>1. A4Typed /\ A4Lists /\ A4Unbound /\ A4Charge /\ A4Discing /\ A4Locked /\ A4Leaving
      /\ A4Serving /\ A4Seeking
  BY DEF A4Inv
<1>2. A4Others("main") /\ A4StepEffect(x) /\ A4PastEffect("main", x) /\ A4Typed'
  BY <1>0, <1>1, A4RestIs, A4StepIs, A4PastIs
<1>3. CASE a4Todo["main"] \in A4MainLists
  <2>3. A4MainMove(x) /\ a4Todo'["main"] \in A4MainLists BY <1>1, <1>3, A4MainMoves
  <2>4. A4Lists' BY <1>0, <1>1, <1>2, <2>3 DEF A4Lists, A4Others, A4StepEffect
  <2>5. A4Unbound' BY <1>0, <1>1, <1>2, <2>3 DEF A4Unbound, A4Others, A4StepEffect, A4MainMove
  <2>6. A4Charge'
    <3>1. SUFFICES ASSUME a4'.up, A4InTurn' PROVE A4Asked' BY DEF A4Charge
    <3>2. A4Asked BY <1>1, <1>2, <3>1 DEF A4Charge, A4InTurn, A4StepEffect, A4PastEffect
    <3>3. (A4Told' <=> A4Told) /\ (A4Withdrawing' <=> A4Withdrawing)
      BY <1>0, <1>2, <2>3 DEF A4Told, A4Withdrawing, A4StepEffect, A4Others, A4MainMove
    <3> QED BY <1>0, <1>2, <2>3, <3>2, <3>3 DEF A4Asked, A4Others, A4StepEffect, A4MainMove
  <2>7. A4Discing'
    BY <1>0, <1>1, <1>2, <2>3 DEF A4Discing, A4Others, A4StepEffect, A4PastEffect, A4MainMove, A4Odd
  <2>8. A4Locked'
    BY <1>0, <1>1, <1>2, <2>3 DEF A4Locked, A4Others, A4StepEffect, A4PastEffect, A4MainMove
  <2>9. A4Leaving' BY <1>0, <1>1, <1>2, <2>3 DEF A4Leaving, A4Others, A4StepEffect, A4MainMove
  <2>10. A4Serving'
    BY <1>0, <1>1, <1>2, <2>3 DEF A4Serving, A4Unbound, A4Others, A4StepEffect, A4PastEffect,
       A4MainMove, A4Modal, A4Right
  <2>11. A4Seeking'
    <3>1. SUFFICES ASSUME a4'.up, "stale" \notin a4Past'
                   PROVE  A4ModesRight' /\ (A4Alone' => a4Chip'.apply = A4Right' \/ A4Owed')
      BY DEF A4Seeking
    <3>2. A4ModesRight /\ (A4Alone => a4Chip.apply = A4Right \/ A4Owed)
      BY <1>1, <1>2, <3>1 DEF A4Seeking, A4StepEffect, A4PastEffect
    <3>3. A4Right' = A4Right /\ ("complete" \in a4Static' <=> "complete" \in a4Static)
      BY <1>2, <2>3 DEF A4Right, A4StepEffect, A4MainMove
    <3>4. A4ModesRight'
      BY <1>0, <1>2, <2>3, <3>2, <3>3 DEF A4ModesRight, A4Others, A4MainMove, A4Right
    <3>5. A4Alone' => A4Alone BY <1>2, <2>3 DEF A4Alone, A4StepEffect, A4MainMove, A4Right
    <3>6. ASSUME A4Alone', x \in {"short", "long"} PROVE a4Chip'.apply = A4Right
      BY <1>0, <1>2, <2>3, <3>2, <3>5, <3>6 DEF A4Alone, A4ModesRight, A4StepEffect, A4MainMove,
         A4Right
    <3>7. ASSUME A4Alone', x \notin {"short", "long"}, A4Owed PROVE A4Owed'
      <4>1. x = "ifBoot" => "boot" \in a4Static BY <2>3, <3>5, <3>7 DEF A4Alone, A4MainMove
      <4> QED
        BY <1>0, <1>2, <2>3, <3>7, <4>1 DEF A4Owed, A4Owes, A4Modal, A4Others, A4MainMove, A4Right
    <3>8. ASSUME x = "off" PROVE A4Owed'
      BY <1>0, <2>3, <3>8 DEF A4Owed, A4Owes, A4MainMove, A4Right
    <3> QED BY <1>2, <3>2, <3>3, <3>4, <3>5, <3>6, <3>7, <3>8 DEF A4StepEffect
  <2> QED BY <1>2, <2>4, <2>5, <2>6, <2>7, <2>8, <2>9, <2>10, <2>11 DEF A4Inv
<1>4. CASE ~a4.up /\ a4Todo["main"] \in A4EndLists
  <2>1. x \in {"unlock", "outputOff", "portOff"} /\ a4Todo'["main"] \in A4EndLists \cup {<<>>}
    <3>0. a4Todo'["main"] = A4Rest("main", Head(a4Todo["main"])) BY <1>0, <1>1, A4RestIs
    <3>1. CASE a4Todo["main"] = <<"unlock", "outputOff", "portOff">>
      <4>1. Head(a4Todo["main"]) = "unlock" /\ Tail(a4Todo["main"]) = <<"outputOff", "portOff">>
        BY <3>1
      <4> QED BY <3>0, <4>1 DEF A4EndLists, A4Rest, A4Tests
    <3>2. CASE a4Todo["main"] = <<"outputOff", "portOff">>
      <4>1. Head(a4Todo["main"]) = "outputOff" /\ Tail(a4Todo["main"]) = <<"portOff">> BY <3>2
      <4> QED BY <3>0, <4>1 DEF A4EndLists, A4Rest, A4Tests
    <3>3. CASE a4Todo["main"] = <<"portOff">>
      <4>1. Head(a4Todo["main"]) = "portOff" /\ Tail(a4Todo["main"]) = <<>> BY <3>3
      <4> QED BY <3>0, <4>1 DEF A4EndLists, A4Rest, A4Tests
    <3> QED BY <1>4, <3>1, <3>2, <3>3 DEF A4EndLists
  <2>2. <<>> \in A4MainLists BY DEF A4MainLists
  <2>3. A4Lists' BY <1>0, <1>1, <1>2, <1>4, <2>1, <2>2 DEF A4Lists, A4Others, A4StepEffect
  <2>4. A4Unbound' /\ A4Leaving'
    BY <1>0, <1>1, <1>2, <2>1 DEF A4Unbound, A4Leaving, A4Others, A4StepEffect
  <2>5. ~a4'.up BY <1>2, <1>4 DEF A4StepEffect
  <2> QED BY <1>2, <2>3, <2>4, <2>5 DEF A4Inv, A4Charge, A4Discing, A4Locked, A4Serving, A4Seeking
<1> QED BY <1>1, <1>3, <1>4 DEF A4Lists

\* A handler is called on an idle thread.
LEMMA A4Called ==
  ASSUME A4Lists, NEW t \in A4Threads, NEW steps, A4Run(t, steps)
  PROVE  /\ a4Todo'[t] = steps /\ A4Others(t)
         /\ \A y : ~A4Due(t, y) /\ ~A4At(t, y)
<1>1. a4Todo[t] = <<>> /\ a4Todo' = [a4Todo EXCEPT ![t] = steps] BY DEF A4Run, A4Idle
<1>2. \A y : ~A4Due(t, y) /\ ~A4At(t, y) BY <1>1 DEF A4Due, A4In, A4At, A4Idle
<1> QED BY <1>1, <1>2, A4Turn

\* A handler of the chip's or the battery monitor's thread tests before it acts.
LEMMA A4CallsSide ==
  ASSUME A4Inv, NEW t \in {"chip", "wbc"}, NEW steps, A4Callback(t, steps),
         steps \in IF t = "chip" THEN A4ChipLists ELSE A4WbcLists,
         A4Due(t, "start")' \/ A4Due(t, "portOn")' => a4Chip.bound,
         t = "chip" => ~A4At(t, "start")' /\ ~A4At(t, "portOn")',
         A4Due(t, "discingOn")' => A4Due(t, "ifConnected")',
         A4Modal(t)' => A4Due(t, "ifConnected")' \/ A4Due(t, "ifDisconnected")',
         A4Due(t, "short")' \/ A4Due(t, "long")' =>
               A4Due(t, "completeOn")' \/ A4Due(t, "completeOff")'
  PROVE  A4Inv'
<1>0. t \in A4Threads /\ A4Threads = {"gatt", "chip", "wbc", "main"} BY DEF A4Threads
<1>1. A4Typed /\ A4Lists /\ A4Unbound /\ A4Charge /\ A4Discing /\ A4Locked /\ A4Leaving
      /\ A4Serving /\ A4Seeking
  BY DEF A4Inv
<1>2. UNCHANGED <<a4, a4Static, a4Chip, a4Peer, a4World, a4Past>> BY DEF A4Callback
<1>3. a4Todo'[t] = steps /\ A4Others(t) /\ \A y : ~A4Due(t, y) /\ ~A4At(t, y)
  BY <1>0, <1>1, A4Called DEF A4Callback
<1>4. A4Typed' BY <1>1, <1>2 DEF A4Typed
<1>5. A4Lists' BY <1>0, <1>1, <1>2, <1>3 DEF A4Lists, A4Others
<1>6. A4Unbound' BY <1>0, <1>1, <1>2, <1>3 DEF A4Unbound, A4Others
<1>7. A4Charge'
  <2>1. (A4Told' <=> A4Told) /\ (A4Withdrawing' <=> A4Withdrawing) /\ (A4InTurn' <=> A4InTurn)
    BY <1>0, <1>2, <1>3 DEF A4Told, A4Withdrawing, A4InTurn, A4Others
  <2> QED BY <1>0, <1>1, <1>2, <1>3, <2>1 DEF A4Charge, A4Asked, A4Others
<1>8. A4Discing' BY <1>0, <1>1, <1>2, <1>3 DEF A4Discing, A4Others, A4Odd
<1>9. A4Locked' BY <1>0, <1>1, <1>2, <1>3 DEF A4Locked, A4Others
<1>10. A4Leaving' BY <1>0, <1>1, <1>2, <1>3 DEF A4Leaving, A4Others
<1>11. A4Serving' BY <1>0, <1>1, <1>2, <1>3 DEF A4Serving, A4Others, A4Modal
<1>12. A4Seeking'
  <2>1. A4ModesRight => A4ModesRight' BY <1>0, <1>2, <1>3 DEF A4ModesRight, A4Others
  <2>2. A4Owed => A4Owed' BY <1>0, <1>3 DEF A4Owed, A4Owes, A4Modal, A4Others
  <2>3. (A4Alone' <=> A4Alone) /\ A4Right' = A4Right
    BY <1>0, <1>2, <1>3 DEF A4Alone, A4Right, A4Others
  <2> QED BY <1>1, <1>2, <2>1, <2>2, <2>3 DEF A4Seeking
<1> QED BY <1>4, <1>5, <1>6, <1>7, <1>8, <1>9, <1>10, <1>11, <1>12 DEF A4Inv

\* initiateDisconnection, onWipowerData and the battery monitor's report.
LEMMA A4SideCalls ==
  ASSUME A4Inv, \/ A4PowerOff \/ A4NoPad
                \/ \E high \in BOOLEAN, weak \in BOOLEAN : A4OnData(high, weak)
                \/ \E required \in BOOLEAN : A4Battery(required)
  PROVE  A4Inv'
<1>l. A4Lists /\ A4Unbound /\ "chip" \in A4Threads /\ "wbc" \in A4Threads BY DEF A4Inv, A4Threads
<1>1. ASSUME NEW t \in {"chip", "wbc"}, A4Callback(t, A4InitiateDisconnection) PROVE A4Inv'
  <2>1. a4Todo'[t] = <<"enter", "ifConnected", "ifDevice", "discingOn", "cancel", "off", "mode", "leave">>
    BY <1>1, <1>l, A4Called DEF A4Callback, A4InitiateDisconnection
  <2>2. \A y : A4Due(t, y)' <=>
             y \in {"enter", "ifConnected", "ifDevice", "discingOn", "cancel", "off", "mode", "leave"}
    BY <2>1 DEF A4Due, A4In
  <2>3. \A y : A4At(t, y)' => y = "enter" BY <2>1 DEF A4At
  <2>4. A4InitiateDisconnection \in IF t = "chip" THEN A4ChipLists ELSE A4WbcLists
    BY DEF A4InitiateDisconnection, A4ChipLists, A4WbcLists
  <2>5. /\ A4Due(t, "ifConnected")' /\ ~A4Due(t, "start")' /\ ~A4Due(t, "portOn")'
        /\ ~A4At(t, "start")' /\ ~A4At(t, "portOn")' /\ ~A4Due(t, "short")' /\ ~A4Due(t, "long")'
    BY <2>2, <2>3
  <2> HIDE DEF A4InitiateDisconnection
  <2> QED BY <1>1, <2>4, <2>5, A4CallsSide
<1>2. ASSUME NEW high \in BOOLEAN, NEW weak \in BOOLEAN, A4OnData(high, weak) PROVE A4Inv'
  <2>1. a4Chip.bound BY <1>2, <1>l DEF A4OnData, A4Unbound
  <2>2. a4Todo'["chip"] = A4Data(high, weak) /\ A4Callback("chip", A4Data(high, weak))
    BY <1>2, <1>l, A4Called DEF A4Callback, A4OnData
  <2>3. A4Data(high, weak) \in {<<"ifNoPort", "ifOutput", "start", "portOn", "ifPort", "start">>,
                                <<"ifNoPort", "ifOutput", "start", "portOn">>, <<"ifPort", "start">>, <<>>}
    BY DEF A4Data
  <2>4. A4Data(high, weak) \in A4ChipLists BY <2>3 DEF A4ChipLists
  <2>5. \A y : A4Due("chip", y)' => y \in {"ifNoPort", "ifOutput", "start", "portOn", "ifPort"}
    BY <2>2, <2>3 DEF A4Due, A4In
  <2>6. \A y : A4At("chip", y)' => y \in {"ifNoPort", "ifPort"} BY <2>2, <2>3 DEF A4At, A4Idle
  <2>7. /\ ~A4At("chip", "start")' /\ ~A4At("chip", "portOn")'
        /\ ~A4Due("chip", "discingOn")' /\ ~A4Modal("chip")' /\ ~A4Due("chip", "short")'
           /\ ~A4Due("chip", "long")'
    BY <2>5, <2>6 DEF A4Modal
  <2> QED BY <2>1, <2>2, <2>4, <2>7, A4CallsSide
<1>3. ASSUME NEW required \in BOOLEAN, A4Battery(required) PROVE A4Inv'
  <2>1. a4Todo'["wbc"] = A4ChargingRequired(required)
        /\ A4Callback("wbc", A4ChargingRequired(required))
    BY <1>3, <1>l, A4Called DEF A4Callback, A4Battery
  <2>2. A4ChargingRequired(required) \in {<<"off", "completeOff", "ifDisconnected", "short">>,
                                          <<"off", "completeOn", "ifDisconnected", "long">>}
    BY DEF A4ChargingRequired
  <2>3. A4ChargingRequired(required) \in A4WbcLists BY <2>2 DEF A4WbcLists
  <2>4. \/ \A y : A4Due("wbc", y)' <=> y \in {"off", "completeOff", "ifDisconnected", "short"}
        \/ \A y : A4Due("wbc", y)' <=> y \in {"off", "completeOn", "ifDisconnected", "long"}
    BY <2>1, <2>2 DEF A4Due, A4In
  <2>5. /\ A4Due("wbc", "ifDisconnected")' /\ ~A4Due("wbc", "start")' /\ ~A4Due("wbc", "portOn")'
        /\ ~A4Due("wbc", "discingOn")'
           /\ (A4Due("wbc", "completeOn")' \/ A4Due("wbc", "completeOff")')
    BY <2>4
  <2> QED BY <2>1, <2>3, <2>5, A4CallsSide
<1> QED BY <1>1, <1>2, <1>3 DEF A4PowerOff, A4NoPad

\* What a request of client d leaves alone.
LEMMA A4Requested ==
  ASSUME A4Inv, NEW d \in A4Devices, NEW steps \in A4GattLists, A4Request(d), A4Run("gatt", steps),
         a4World' \in [linked : SUBSET A4Devices, told : SUBSET A4Devices, advertised : BOOLEAN],
         a4World'.told \subseteq a4World'.linked
  PROVE  /\ A4Typed' /\ A4Lists' /\ A4Unbound'
         /\ A4Others("gatt") /\ a4Todo'["gatt"] = steps /\ \A y : ~A4Due("gatt", y)
         /\ a4.up /\ a4Peer' = d /\ UNCHANGED <<a4, a4Static, a4Chip>>
<1>0. "gatt" \in A4Threads /\ A4Threads = {"gatt", "chip", "wbc", "main"} BY DEF A4Threads
<1>1. A4Typed /\ A4Lists /\ A4Unbound BY DEF A4Inv
<1>2. a4.up /\ a4Peer' = d /\ UNCHANGED <<a4, a4Static, a4Chip>> BY DEF A4Request
<1>3. A4Others("gatt") /\ a4Todo'["gatt"] = steps /\ \A y : ~A4Due("gatt", y)
  BY <1>0, <1>1, A4Called
<1>4. A4Typed' BY <1>1, <1>2 DEF A4Typed
<1>5. A4Lists' BY <1>0, <1>1, <1>2, <1>3 DEF A4Lists, A4Others
<1>6. A4Unbound' BY <1>0, <1>1, <1>2, <1>3 DEF A4Unbound, A4Others
<1> QED BY <1>2, <1>3, <1>4, <1>5, <1>6

\* What a request that is not a disconnection leaves alone.
LEMMA A4RequestKeeps ==
  ASSUME A4Inv, A4Others("gatt"), UNCHANGED <<a4, a4Static, a4Chip>>,
         \A y : ~A4Due("gatt", y),
         \A f \in {"crossed", "carried", "overtaken", "stale"} : f \in a4Past' <=> f \in a4Past,
         \A y : A4Due("gatt", y)' =>
               y \in {"off", "device", "connected", "dataOn", "lock", "outputOn", "stop",
                                           "portOff", "outputOff"},
         A4Due("gatt", "connected")' => A4Due("gatt", "off")'
  PROVE  A4Discing' /\ A4Leaving' /\ A4Serving' /\ A4Seeking'
<1>0. A4Threads = {"gatt", "chip", "wbc", "main"} BY DEF A4Threads
<1>1. A4Discing /\ A4Leaving /\ A4Serving /\ A4Seeking BY DEF A4Inv
<1>2. A4Discing' BY <1>0, <1>1 DEF A4Discing, A4Others, A4Odd
<1>3. A4Leaving' BY DEF A4Leaving
<1>4. A4Serving' BY <1>0, <1>1 DEF A4Serving, A4Others, A4Modal
<1>5. A4Seeking'
  <2>1. A4ModesRight => A4ModesRight' BY <1>0 DEF A4ModesRight, A4Others
  <2>2. A4Owed => A4Owed' BY <1>0 DEF A4Owed, A4Owes, A4Modal, A4Others
  <2>3. (A4Alone' <=> A4Alone) /\ A4Right' = A4Right BY <1>0 DEF A4Alone, A4Right, A4Others
  <2> QED BY <1>1, <2>1, <2>2, <2>3 DEF A4Seeking
<1> QED BY <1>2, <1>3, <1>4, <1>5

\* onCharacteristicReadRequest and onDescriptorWriteRequest.
LEMMA A4Reads ==
  ASSUME A4Inv, NEW d \in A4Devices, A4Read(d) \/ A4Subscribe(d)
  PROVE  A4Inv'
<1>0. A4Threads = {"gatt", "chip", "wbc", "main"} BY DEF A4Threads
<1>1. A4Typed /\ A4Charge /\ A4Locked BY DEF A4Inv
<1> PICK steps \in {A4StaticRead, <<"device">>} :
      /\ A4Request(d) /\ A4Run("gatt", steps)
      /\ a4World' = [a4World EXCEPT !.linked = @ \cup {d}]
      /\ A4Flag(a4.device \notin {0, d}, "stolen")
  BY DEF A4Read, A4Subscribe
<1>2. /\ a4World' \in [linked : SUBSET A4Devices, told : SUBSET A4Devices, advertised : BOOLEAN]
      /\ a4World'.linked = a4World.linked \cup {d} /\ a4World'.told = a4World.told
      /\ a4World'.told \subseteq a4World'.linked
  BY <1>1 DEF A4Typed
<1>3. steps \in A4GattLists BY DEF A4StaticRead, A4GattLists
<1>4. /\ A4Typed' /\ A4Lists' /\ A4Unbound'
      /\ A4Others("gatt") /\ a4Todo'["gatt"] = steps /\ \A y : ~A4Due("gatt", y)
      /\ a4.up /\ a4Peer' = d /\ UNCHANGED <<a4, a4Static, a4Chip>>
  BY <1>2, <1>3, A4Requested
<1>5. \/ \A y : A4Due("gatt", y)' <=> y \in {"off", "device", "connected", "dataOn"}
      \/ \A y : A4Due("gatt", y)' <=> y = "device"
  BY <1>4 DEF A4StaticRead, A4Due, A4In
<1>6. /\ "stolen" \in a4Past' <=> "stolen" \in a4Past \/ a4.device \notin {0, d}
      /\ \A f : f # "stolen" => (f \in a4Past' <=> f \in a4Past)
  BY DEF A4Flag
<1>7. A4Discing' /\ A4Leaving' /\ A4Serving' /\ A4Seeking' BY <1>4, <1>5, <1>6, A4RequestKeeps
<1>8. A4Charge'
  <2>1. SUFFICES ASSUME A4InTurn' PROVE A4Asked' BY DEF A4Charge
  <2>2. A4Asked /\ a4.device \in {0, d} BY <1>1, <1>4, <1>6, <2>1 DEF A4Charge, A4InTurn
  <2>3. A4Told' <=> A4Told BY <1>2, <1>4 DEF A4Told
  <2>4. ~A4Withdrawing BY <1>4 DEF A4Withdrawing
  <2> QED BY <1>0, <1>4, <1>5, <2>2, <2>3, <2>4 DEF A4Asked, A4Others
<1>9. A4Locked' BY <1>1, <1>2, <1>4, <1>5, <1>6 DEF A4Locked
<1> QED BY <1>4, <1>7, <1>8, <1>9 DEF A4Inv

\* processPruControl.
LEMMA A4Writes ==
  ASSUME A4Inv, NEW d \in A4Devices, NEW enable \in BOOLEAN, A4Write(d, enable)
  PROVE  A4Inv'
<1>0. A4Threads = {"gatt", "chip", "wbc", "main"} BY DEF A4Threads
<1>1. A4Typed /\ A4Charge /\ A4Locked BY DEF A4Inv
<1>w. /\ A4Request(d) /\ A4Run("gatt", A4Control(enable))
         /\ A4Flag(enable /\ d # a4.device, "stranger")
      /\ a4World' = [a4World EXCEPT !.linked = @ \cup {d},
                                    !.told = IF enable THEN @ \cup {d} ELSE @ \ {d}]
  BY DEF A4Write
<1>2. /\ a4World' \in [linked : SUBSET A4Devices, told : SUBSET A4Devices, advertised : BOOLEAN]
      /\ a4World'.linked = a4World.linked \cup {d}
      /\ a4World'.told = IF enable THEN a4World.told \cup {d} ELSE a4World.told \ {d}
      /\ a4World'.told \subseteq a4World'.linked
  BY <1>1, <1>w DEF A4Typed
<1>3. A4Control(enable) \in A4GattLists BY DEF A4Control, A4GattLists
<1>4. /\ A4Typed' /\ A4Lists' /\ A4Unbound'
      /\ A4Others("gatt") /\ a4Todo'["gatt"] = A4Control(enable) /\ \A y : ~A4Due("gatt", y)
      /\ a4.up /\ a4Peer' = d /\ UNCHANGED <<a4, a4Static, a4Chip>>
  BY <1>2, <1>3, <1>w, A4Requested
<1>5. /\ enable => \A y : A4Due("gatt", y)' <=> y \in {"lock", "outputOn"}
      /\ ~enable => \A y : A4Due("gatt", y)' <=> y \in {"stop", "portOff", "outputOff"}
  BY <1>4 DEF A4Control, A4Due, A4In
<1>6. /\ "stranger" \in a4Past' <=> "stranger" \in a4Past \/ (enable /\ d # a4.device)
      /\ \A f : f # "stranger" => (f \in a4Past' <=> f \in a4Past)
  BY <1>w DEF A4Flag
<1>7. A4Discing' /\ A4Leaving' /\ A4Serving' /\ A4Seeking' BY <1>4, <1>5, <1>6, A4RequestKeeps
<1>8. A4Charge'
  <2>1. SUFFICES ASSUME A4InTurn' PROVE A4Asked' BY DEF A4Charge
  <2>2. A4Asked /\ (enable => d = a4.device) BY <1>1, <1>4, <1>6, <2>1 DEF A4Charge, A4InTurn
  <2>3. enable => A4Told' BY <1>2, <1>4, <2>2 DEF A4Told
  <2>4. ~A4Withdrawing /\ (~enable => A4Withdrawing') BY <1>4, <1>5 DEF A4Withdrawing
  <2> QED BY <1>0, <1>4, <1>5, <2>2, <2>3, <2>4 DEF A4Asked, A4Others
<1>9. A4Locked' BY <1>1, <1>2, <1>4, <1>5, <1>6 DEF A4Locked
<1> QED BY <1>4, <1>7, <1>8, <1>9 DEF A4Inv

\* onConnectionStateChange.
LEMMA A4Disconnects ==
  ASSUME A4Inv, NEW d \in A4Devices, A4LinkLost(d)
  PROVE  A4Inv'
<1>0. A4Threads = {"gatt", "chip", "wbc", "main"} BY DEF A4Threads
<1>1. A4Typed /\ A4Unbound /\ A4Charge /\ A4Discing /\ A4Locked /\ A4Leaving /\ A4Serving
      /\ A4Seeking
  BY DEF A4Inv
<1> PICK steps : steps = IF d = a4.device
                         THEN <<"disconnected", "discingOff", "outputOff", "dataOff", "stop", "off", "mode",
                                "unlock", "forget", "portOff">>
                         ELSE <<"portOff">>
  OBVIOUS
<1>w. /\ A4Request(d) /\ A4Run("gatt", steps) /\ UNCHANGED a4Past
      /\ a4World' = [a4World EXCEPT !.linked = @ \ {d}, !.told = @ \ {d}]
  BY DEF A4LinkLost, A4Disconnected, A4Request
<1>2. /\ a4World' \in [linked : SUBSET A4Devices, told : SUBSET A4Devices, advertised : BOOLEAN]
      /\ a4World'.linked = a4World.linked \ {d} /\ a4World'.told = a4World.told \ {d}
      /\ a4World'.told \subseteq a4World'.linked
  BY <1>1, <1>w DEF A4Typed
<1>3. steps \in A4GattLists BY DEF A4GattLists
<1>4. /\ A4Typed' /\ A4Lists' /\ A4Unbound'
      /\ A4Others("gatt") /\ a4Todo'["gatt"] = steps /\ \A y : ~A4Due("gatt", y)
      /\ a4.up /\ a4Peer' = d /\ UNCHANGED <<a4, a4Static, a4Chip>>
  BY <1>2, <1>3, <1>w, A4Requested
<1>5. CASE d = a4.device
  <2>1. \A y : A4Due("gatt", y)' <=> y \in {"disconnected", "discingOff", "outputOff", "dataOff", "stop", "off",
                                           "mode", "unlock", "forget", "portOff"}
    BY <1>4, <1>5 DEF A4Due, A4In
  <2>2. ~A4Told' /\ A4Withdrawing' BY <1>2, <1>4, <1>5, <2>1 DEF A4Told, A4Withdrawing
  <2>3. A4Charge'
    BY <1>0, <1>1, <1>4, <1>w, <2>1, <2>2 DEF A4Charge, A4InTurn, A4Asked, A4Others
  <2>4. A4Discing' BY <1>0, <1>1, <1>4, <1>w, <2>1 DEF A4Discing, A4Others, A4Odd
  <2>5. A4Locked' BY <1>1, <1>4, <1>w, <2>1 DEF A4Locked
  <2>6. A4Leaving' BY <2>1 DEF A4Leaving
  <2>7. A4Serving' BY <1>0, <1>1, <1>4, <1>w, <2>1 DEF A4Serving, A4Others, A4Modal
  <2>8. A4Seeking'
    <3>1. A4ModesRight => A4ModesRight' BY <1>0, <1>4, <2>1 DEF A4ModesRight, A4Others
    <3>2. A4Owed' BY <1>0, <2>1 DEF A4Owed, A4Owes, A4Modal
    <3> QED BY <1>1, <1>4, <1>w, <3>1, <3>2 DEF A4Seeking
  <2> QED BY <1>4, <2>3, <2>4, <2>5, <2>6, <2>7, <2>8 DEF A4Inv
<1>6. CASE d # a4.device
  <2>1. \A y : A4Due("gatt", y)' <=> y = "portOff" BY <1>4, <1>6 DEF A4Due, A4In
  <2>2. (A4Told' <=> A4Told) /\ ~A4Withdrawing BY <1>2, <1>4, <1>6 DEF A4Told, A4Withdrawing
  <2>3. A4Charge'
    BY <1>0, <1>1, <1>4, <1>w, <2>1, <2>2 DEF A4Charge, A4InTurn, A4Asked, A4Others
  <2>4. A4Locked' BY <1>1, <1>2, <1>4, <1>6, <1>w, <2>1 DEF A4Locked
  <2>5. A4Discing' /\ A4Leaving' /\ A4Serving' /\ A4Seeking' BY <1>4, <1>w, <2>1, A4RequestKeeps
  <2> QED BY <1>4, <2>3, <2>4, <2>5 DEF A4Inv
<1> QED BY <1>5, <1>6

\* onCreate and onStartCommand.
LEMMA A4Starts ==
  ASSUME A4Inv, A4Start
  PROVE  A4Inv'
<1>0. "main" \in A4Threads /\ A4Threads = {"gatt", "chip", "wbc", "main"} BY DEF A4Threads
<1>1. A4Typed /\ A4Lists /\ A4Unbound BY DEF A4Inv
<1>2. \A u \in A4Threads : \A y : ~A4Due(u, y) /\ ~A4At(u, y)
  BY DEF A4Start, A4Idle, A4Due, A4In, A4At
<1>3. a4Todo'["main"] = <<"ifBoot", "mode", "unlock">> /\ A4Others("main")
  BY <1>0, <1>1, A4Called DEF A4Start
<1>4. \A y : A4Due("main", y)' <=> y \in {"ifBoot", "mode", "unlock"} BY <1>3 DEF A4Due, A4In
<1>5. \A y : ~A4Due("gatt", y)' /\ ~A4Due("chip", y)' /\ ~A4Due("wbc", y)' /\ ~A4At("chip", y)'
  BY <1>0, <1>2, <1>3 DEF A4Others
<1>6. /\ a4' \in [up : BOOLEAN, connected : BOOLEAN, device : {0} \cup A4Devices, lock : BOOLEAN]
      /\ a4'.up /\ ~a4'.connected /\ a4'.device = 0 /\ ~a4'.lock
  BY DEF A4Start
<1>7. /\ a4Chip' \in [bound : BOOLEAN, apply : {"off", "short", "long"}, charging : BOOLEAN, data : BOOLEAN]
      /\ a4Chip'.apply = "off" /\ ~a4Chip'.charging /\ ~a4Chip'.data
  BY <1>1 DEF A4Start, A4Typed
<1>8. /\ a4Static' \in SUBSET A4Statics
      /\ \A f \in {"discing", "output", "port", "boot"} : f \in a4Static' <=> f \in a4Static
  BY <1>1 DEF A4Start, A4Typed, A4Statics
<1>9. a4World' \in [linked : SUBSET A4Devices, told : SUBSET A4Devices, advertised : BOOLEAN]
      /\ a4World'.told = {}
      /\ a4Peer' = a4Peer
  BY DEF A4Start
<1>10. "carried" \notin a4Past' => \A f \in {"discing", "output", "port"} : f \notin a4Static
  BY DEF A4Start, A4Flag
<1>11. A4Typed' BY <1>1, <1>6, <1>7, <1>8, <1>9 DEF A4Typed
<1>12. A4Lists' BY <1>0, <1>1, <1>3 DEF A4Lists, A4Others, A4MainLists
<1>13. A4Unbound' BY <1>5, <1>7 DEF A4Unbound
<1>14. A4Charge' BY <1>5, <1>7, <1>8, <1>10 DEF A4Charge, A4InTurn, A4Asked
<1>15. A4Discing' BY <1>5, <1>8, <1>10 DEF A4Discing, A4Odd
<1>16. A4Locked' BY <1>5, <1>6 DEF A4Locked
<1>17. A4Leaving' BY <1>5 DEF A4Leaving
<1>18. A4Serving' BY <1>5, <1>6 DEF A4Serving
<1>19. A4Seeking'
  <2>1. A4ModesRight' BY <1>0, <1>4, <1>5 DEF A4ModesRight
  <2>2. A4Owed' BY <1>0, <1>4 DEF A4Owed, A4Owes, A4Modal
  <2> QED BY <2>1, <2>2 DEF A4Seeking
<1> QED BY <1>11, <1>12, <1>13, <1>14, <1>15, <1>16, <1>17, <1>18, <1>19 DEF A4Inv

\* onDestroy.
LEMMA A4Destroys ==
  ASSUME A4Inv, A4Destroy
  PROVE  A4Inv'
<1>0. "main" \in A4Threads /\ A4Threads = {"gatt", "chip", "wbc", "main"} BY DEF A4Threads
<1>1. A4Typed /\ A4Lists /\ A4Unbound /\ A4Leaving BY DEF A4Inv
<1>2. a4Todo'["main"] = <<"unlock", "outputOff", "portOff">> /\ A4Others("main")
  BY <1>0, <1>1, A4Called DEF A4Destroy
<1>3. /\ a4' \in [up : BOOLEAN, connected : BOOLEAN, device : {0} \cup A4Devices, lock : BOOLEAN]
      /\ ~a4'.up /\ a4'.connected = a4.connected /\ UNCHANGED <<a4Static, a4Chip, a4Peer>>
  BY <1>1 DEF A4Destroy, A4Typed
<1>4. /\ a4World' \in [linked : SUBSET A4Devices, told : SUBSET A4Devices, advertised : BOOLEAN]
      /\ a4World'.told = {}
  BY DEF A4Destroy
<1>5. A4Typed' BY <1>1, <1>3, <1>4 DEF A4Typed
<1>6. A4Lists' BY <1>0, <1>1, <1>2, <1>3 DEF A4Lists, A4Others, A4EndLists
<1>7. A4Unbound' /\ A4Leaving' BY <1>0, <1>1, <1>2, <1>3 DEF A4Unbound, A4Leaving, A4Others
<1> QED BY <1>3, <1>5, <1>6, <1>7 DEF A4Inv, A4Charge, A4Discing, A4Locked, A4Serving, A4Seeking

\* onWipowerReady and onStartSuccess.
LEMMA A4Applies ==
  ASSUME A4Inv, NEW steps \in {<<"off", "mode", "bootOn">>, <<"off", "mode">>}, A4ApplyOnMain(steps),
         \/ UNCHANGED a4Chip /\ a4World' = [a4World EXCEPT !.advertised = FALSE]
         \/ a4Chip' = [a4Chip EXCEPT !.bound = TRUE] /\ UNCHANGED a4World
  PROVE  A4Inv'
<1>0. "main" \in A4Threads /\ A4Threads = {"gatt", "chip", "wbc", "main"} BY DEF A4Threads
<1>1. A4Typed /\ A4Lists /\ A4Unbound /\ A4Charge /\ A4Discing /\ A4Locked /\ A4Leaving
      /\ A4Serving /\ A4Seeking
  BY DEF A4Inv
<1>2. a4Todo'["main"] = steps /\ A4Others("main") /\ \A y : ~A4Due("main", y)
  BY <1>0, <1>1, A4Called DEF A4ApplyOnMain
<1>3. a4.up /\ UNCHANGED <<a4, a4Static, a4Peer>> BY DEF A4ApplyOnMain
<1>4. /\ a4Chip' \in [bound : BOOLEAN, apply : {"off", "short", "long"}, charging : BOOLEAN, data : BOOLEAN]
      /\ a4Chip.bound => a4Chip'.bound
      /\ a4Chip'.apply = a4Chip.apply /\ a4Chip'.charging = a4Chip.charging
         /\ a4Chip'.data = a4Chip.data
  BY <1>1 DEF A4Typed
<1>5. /\ a4World' \in [linked : SUBSET A4Devices, told : SUBSET A4Devices, advertised : BOOLEAN]
      /\ a4World'.told = a4World.told /\ a4World'.linked = a4World.linked
  BY <1>1 DEF A4Typed
<1>6. \/ \A y : A4Due("main", y)' <=> y \in {"off", "mode", "bootOn"}
      \/ \A y : A4Due("main", y)' <=> y \in {"off", "mode"}
  BY <1>2 DEF A4Due, A4In
<1>7. /\ \A f : f # "overtaken" => (f \in a4Past' <=> f \in a4Past)
      /\ "overtaken" \in a4Past' <=> "overtaken" \in a4Past \/ a4.connected \/ A4Has("gatt", {"connected"})
  BY DEF A4ApplyOnMain, A4Flag
<1>8. A4Typed' BY <1>1, <1>3, <1>4, <1>5 DEF A4Typed
<1>9. A4Lists' BY <1>0, <1>1, <1>2, <1>3 DEF A4Lists, A4Others, A4MainLists
<1>10. A4Unbound' BY <1>0, <1>1, <1>2, <1>4 DEF A4Unbound, A4Others
<1>11. A4Charge'
  <2>1. (A4Told' <=> A4Told) /\ (A4Withdrawing' <=> A4Withdrawing) /\ (A4InTurn' <=> A4InTurn)
    BY <1>0, <1>2, <1>3, <1>5, <1>7 DEF A4Told, A4Withdrawing, A4InTurn, A4Others
  <2> QED BY <1>0, <1>1, <1>2, <1>3, <1>4, <2>1 DEF A4Charge, A4Asked, A4Others
<1>12. A4Discing' BY <1>0, <1>1, <1>2, <1>3, <1>7 DEF A4Discing, A4Others, A4Odd
<1>13. A4Locked' BY <1>0, <1>1, <1>2, <1>3, <1>5, <1>7 DEF A4Locked, A4Others
<1>14. A4Leaving' BY <1>0, <1>1, <1>2, <1>3 DEF A4Leaving, A4Others
<1>15. A4Serving' BY <1>0, <1>1, <1>2, <1>3, <1>4, <1>7 DEF A4Serving, A4Others, A4Modal
<1>16. A4Seeking'
  <2>1. A4ModesRight => A4ModesRight' BY <1>0, <1>2, <1>3, <1>6 DEF A4ModesRight, A4Others
  <2>2. A4Owed' BY <1>0, <1>6 DEF A4Owed, A4Owes, A4Modal
  <2> QED BY <1>1, <1>3, <1>7, <2>1, <2>2 DEF A4Seeking
<1> QED BY <1>8, <1>9, <1>10, <1>11, <1>12, <1>13, <1>14, <1>15, <1>16 DEF A4Inv

\* onServiceConnected when nobody listens.
LEMMA A4Binds ==
  ASSUME A4Inv, ~a4.up, a4Chip' = [a4Chip EXCEPT !.bound = TRUE], A4Run("main", <<>>),
         UNCHANGED <<a4, a4Static, a4Peer, a4World>>
  PROVE  A4Inv'
<1>0. "main" \in A4Threads /\ A4Threads = {"gatt", "chip", "wbc", "main"} BY DEF A4Threads
<1>1. A4Typed /\ A4Lists /\ A4Unbound /\ A4Leaving BY DEF A4Inv
<1>2. a4Todo'["main"] = <<>> /\ A4Others("main") BY <1>0, <1>1, A4Called
<1>3. /\ a4Chip' \in [bound : BOOLEAN, apply : {"off", "short", "long"}, charging : BOOLEAN, data : BOOLEAN]
      /\ a4Chip'.bound
  BY <1>1 DEF A4Typed
<1>4. A4Typed' BY <1>1, <1>3 DEF A4Typed
<1>5. A4Lists' BY <1>0, <1>1, <1>2 DEF A4Lists, A4Others, A4MainLists
<1>6. A4Unbound' /\ A4Leaving' BY <1>0, <1>1, <1>2, <1>3 DEF A4Unbound, A4Leaving, A4Others
<1> QED BY <1>4, <1>5, <1>6 DEF A4Inv, A4Charge, A4Discing, A4Locked, A4Serving, A4Seeking

\* The invariant holds at the beginning and every step keeps it.
LEMMA A4InvInit == ASSUME A4Init PROVE A4Inv
<1>0. A4Threads = {"gatt", "chip", "wbc", "main"} BY DEF A4Threads
<1>1. a4Todo = [t \in A4Threads |-> <<>>] /\ a4Peer = 0 /\ a4Past = {} BY DEF A4Init
<1>2. \A t \in A4Threads : \A y : ~A4Due(t, y) /\ ~A4At(t, y) BY <1>1 DEF A4Due, A4In, A4At, A4Idle
<1>3. /\ a4Config.up \in BOOLEAN
      /\ a4 = [up |-> a4Config.up, connected |-> FALSE, device |-> 0, lock |-> FALSE]
      /\ a4Static = {"complete"} \cup (IF a4Config.up THEN {"boot"} ELSE {})
      /\ a4Chip = [bound |-> a4Config.up, apply |-> IF a4Config.up THEN "long" ELSE "off", charging |-> FALSE, data |-> FALSE]
      /\ a4World = [linked |-> {}, told |-> {}, advertised |-> a4Config.up]
  BY A4Assumption DEF A4Init
<1>4. A4Typed BY <1>1, <1>3 DEF A4Typed, A4Statics
<1>5. A4Lists BY <1>0, <1>1 DEF A4Lists, A4GattLists, A4ChipLists, A4WbcLists, A4MainLists
<1>6. A4Unbound /\ A4Charge /\ A4Discing /\ A4Locked /\ A4Leaving
  BY <1>0, <1>2, <1>3 DEF A4Unbound, A4Charge, A4Asked, A4Discing, A4Locked, A4Leaving
<1>7. A4Serving /\ A4Seeking
  BY <1>0, <1>2, <1>3 DEF A4Serving, A4Seeking, A4ModesRight, A4Alone, A4Right
<1> QED BY <1>4, <1>5, <1>6, <1>7 DEF A4Inv

\* Every step keeps the invariant.
LEMMA A4InvStep == ASSUME A4Inv, [A4Next]_a4Vars PROVE A4Inv'
<1>1. CASE UNCHANGED a4Vars
  <2>1. UNCHANGED <<a4, a4Static, a4Chip, a4Todo, a4Peer, a4World, a4Past>> BY <1>1 DEF a4Vars
  <2>2. \A t, y : (A4Due(t, y)' <=> A4Due(t, y)) /\ (A4At(t, y)' <=> A4At(t, y))
    BY <2>1 DEF A4Due, A4At, A4Idle
  <2>3. A4Typed' /\ A4Lists' /\ A4Unbound' /\ A4Leaving'
    BY <2>1, <2>2 DEF A4Inv, A4Typed, A4Lists, A4Unbound, A4Leaving
  <2>4. A4Charge' /\ A4Discing' /\ A4Locked'
    BY <2>1, <2>2 DEF A4Inv, A4Charge, A4InTurn, A4Asked, A4Told, A4Withdrawing, A4Discing, A4Odd,
       A4Locked
  <2>5. A4Serving' BY <2>1, <2>2 DEF A4Inv, A4Serving, A4Modal
  <2>6. A4Seeking'
    BY <2>1, <2>2 DEF A4Inv, A4Seeking, A4Alone, A4ModesRight, A4Owed, A4Owes, A4Right, A4Modal
  <2> QED BY <2>3, <2>4, <2>5, <2>6 DEF A4Inv
<1>2. CASE A4Ready
  <2>1. CASE A4ApplyOnMain(<<"off", "mode", "bootOn">>) BY <1>2, <2>1, A4Applies DEF A4Ready
  <2>2. CASE ~a4.up BY <1>2, <2>2, A4Binds DEF A4Ready, A4ApplyOnMain
  <2> QED BY <1>2, <2>1, <2>2 DEF A4Ready
<1>3. CASE A4Advertised BY <1>3, A4Applies DEF A4Advertised
<1>4. ASSUME NEW t \in A4Threads, A4Step(t) PROVE A4Inv'
  BY <1>4, A4GattStep, A4ChipStep, A4WbcStep, A4MainStep DEF A4Threads
<1>5. CASE \/ A4PowerOff \/ A4NoPad
           \/ \E high \in BOOLEAN, weak \in BOOLEAN : A4OnData(high, weak)
           \/ \E required \in BOOLEAN : A4Battery(required)
  BY <1>5, A4SideCalls
<1> QED
  BY <1>1, <1>2, <1>3, <1>4, <1>5, A4Starts, A4Destroys, A4Reads, A4Writes, A4Disconnects DEF A4Next

\* The inductive invariant of the wireless power host.
THEOREM A4Invariant == A4Spec => []A4Inv
<1>1. A4Init => A4Inv BY A4InvInit
<1>2. A4Inv /\ [A4Next]_a4Vars => A4Inv' BY A4InvStep
<1> QED BY <1>1, <1>2, PTL DEF A4Spec

\* A4TypeOK, for any number of clients and handlers.
THEOREM A4Types == A4Spec => []A4TypeOK
<1>1. A4Inv => A4TypeOK BY DEF A4Inv, A4Typed, A4TypeOK, A4Statics
<1> QED BY <1>1, A4Invariant, PTL

\* ChargesAsTold: when all is handled the chip charges only for mDevice while it has the output
\* switched on, and isChargePortSet is set only while the chip charges.
THEOREM ChargesOnlyAsTold == A4Spec => []ChargesAsTold
<1>1. A4Inv => ChargesAsTold
  <2> SUFFICES ASSUME A4Inv, A4Quiet, ~A4Odd({"late", "stranger", "stolen", "carried"})
               PROVE  /\ a4Chip.charging => a4.device \in a4World.told
                      /\ "port" \in a4Static => a4Chip.charging
    BY DEF ChargesAsTold
  <2>1. \A y : ~A4Due("gatt", y) BY DEF A4Quiet, A4Idle, A4Threads, A4Due, A4In
  <2>2. A4InTurn BY DEF A4InTurn, A4Odd
  <2> QED BY <2>1, <2>2 DEF A4Inv, A4Charge, A4Asked, A4Told, A4Quiet
<1> QED BY <1>1, A4Invariant, PTL

\* PowerSettles: when all is handled the mode of the chip, the wake lock and the disconnection under
\* way agree with mState, mChargeComplete and the clients that are there.
THEOREM PowerAlwaysSettles == A4Spec => []PowerSettles
<1>1. A4Inv => PowerSettles
  <2> SUFFICES ASSUME A4Inv, A4Quiet, a4Chip.bound, "boot" \in a4Static
               PROVE  /\ ~a4.connected => \/ a4Chip.apply = IF "complete" \in a4Static THEN "long" ELSE "short"
                                          \/ A4Odd({"stale"})
                      /\ a4.connected => a4Chip.apply = "off" \/ "discing" \in a4Static \/ A4Odd({"overtaken"})
                      /\ a4.lock => a4.device \in a4World.linked \/ A4Odd({"stranger"})
                      /\ "discing" \in a4Static => a4.connected \/ A4Odd({"crossed", "carried"})
    BY DEF PowerSettles
  <2>1. \A t \in A4Threads : \A y : ~A4Due(t, y) BY DEF A4Quiet, A4Idle, A4Due, A4In
  <2>2. a4.up BY DEF A4Quiet
  <2>3. ~A4Owed /\ \A y : ~A4Due("gatt", y) BY <2>1 DEF A4Owed, A4Owes, A4Modal, A4Threads
  <2>4. ~a4.connected /\ ~A4Odd({"stale"}) => a4Chip.apply = A4Right
    BY <2>2, <2>3 DEF A4Inv, A4Seeking, A4Alone, A4Odd
  <2>5. a4.connected /\ ~A4Odd({"overtaken"}) => a4Chip.apply = "off" \/ "discing" \in a4Static
    BY <2>2 DEF A4Inv, A4Serving, A4Odd
  <2>6. a4.lock /\ ~A4Odd({"stranger"}) => a4.device \in a4World.linked
    BY <2>2, <2>3 DEF A4Inv, A4Locked, A4Odd
  <2>7. "discing" \in a4Static /\ ~A4Odd({"crossed", "carried"}) => a4.connected
    BY <2>2, <2>3 DEF A4Inv, A4Discing
  <2> QED BY <2>4, <2>5, <2>6, <2>7 DEF A4Right
<1> QED BY <1>1, A4Invariant, PTL
=============================================================================
