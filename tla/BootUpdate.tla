----------------------------- MODULE BootUpdate -----------------------------
(***************************************************************************)
(* The safe update of the boot partitions (sbl1, rpm, tz, aboot).          *)
(*                                                                         *)
(* Three pieces of the repository work together:                           *)
(*   - the edify script that releasetools.py (InstallBootImages) writes    *)
(*     into the OTA package: it asks for a stage, then flashes the images, *)
(*   - BootUpdateFn in oem-updater.cpp, the script's msm.boot_update(),    *)
(*   - prepare_boot_update in gpt-utils.cpp, which moves the device from   *)
(*     one stage to the next by rewriting the two GPT headers on eMMC.     *)
(* A stage is not stored anywhere: it is read back from the signatures of  *)
(* the two GPT headers, which is also what the boot ROM looks at.  Power   *)
(* may be lost between any two sector writes; recovery then runs the whole *)
(* script again from its first line.                                       *)
(***************************************************************************)
EXTENDS Naturals, FiniteSets

CONSTANTS
  Parts,         \* the boot partitions of PTN_SWAP_LIST
  Files,         \* the partitions the OTA package has an image for
  Ordered,       \* does the eMMC see the GPT writes in the order they are made?
  MaxCrashes,    \* bound on the number of power losses
  MaxFaults,     \* bound on the number of failing GPT reads and writes
  MaxBadImages,  \* bound on the number of image installations that fail
  MaxReruns      \* bound on the number of times the finished package is run again

ASSUME BootUpdateAssumption ==
  /\ Files \subseteq Parts
  /\ Ordered \in BOOLEAN
  /\ MaxCrashes \in Nat
  /\ MaxFaults \in Nat
  /\ MaxBadImages \in Nat
  /\ MaxReruns \in Nat

VARIABLES
  backed,    \* the partitions that have a "bak" twin on this device
  destBak,   \* the images the package also installs on the bak partition
  pe,        \* the primary partition entries: never written by the code
  dev,       \* primary header, secondary header and entries, as read(2) sees them
  disk,      \* the same three, as they are on the eMMC
  img,       \* the contents of each copy of each boot partition
  stage,     \* the stage the script is at
  pc,        \* where prepare_boot_update or the script is within that stage
  ret,       \* what prepare_boot_update returns: 0, or 1 for any error
  todo,      \* the images still to install in this stage
  crashes, faults, badImages, reruns

env  == <<backed, destBak, pe>>
cnts == <<crashes, faults, badImages, reruns>>
vars == <<backed, destBak, pe, dev, disk, img, stage, pc, ret, todo,
          crashes, faults, badImages, reruns>>
-----------------------------------------------------------------------------
(***************************************************************************)
(* GPT structures.  A partition entries array matters only for which copy  *)
(* of a boot partition carries the type GUID the boot ROM looks for; the   *)
(* array is many sectors long, so it also remembers whether it is whole.   *)
(* A header is one sector: the signature, its own CRC (valid or not) and   *)
(* the CRC of the entries, which stands for the entries it was taken of.   *)
(***************************************************************************)
Copies == {"main", "bak"}
Chains == [Parts -> Copies]
Normal == [p \in Parts |-> "main"]

Entries == [chain : Chains, whole : BOOLEAN]
Headers == [sig : BOOLEAN, hcrc : BOOLEAN, pcrc : Chains]
Devices == [ph : Headers, sh : Headers, se : Entries]
Images  == {"old", "new", "torn"}

\* sparse_crc32 over the entries against the CRC stored in the header.
CrcMatches(h, e) == e.whole /\ e.chain = h.pcrc

\* Mutant: the twins' type GUIDs are looked up but not exchanged.
SwapForgotten(c) == c

\* gpt_boot_chain_swap: main and bak exchange their type GUIDs, for every
\* partition of the swap list that has a twin.
gpt_boot_chain_swap(c) ==
  [p \in Parts |-> IF p \in backed
                   THEN IF c[p] = "main" THEN "bak" ELSE "main"
                   ELSE c[p]]

\* gpt_get_state: a bad CRC is reported in preference to a bad signature.
gpt_get_state(h) ==
  IF ~h.hcrc THEN "GPT_BAD_CRC"
  ELSE IF ~h.sig THEN "GPT_BAD_SIGNATURE" ELSE "GPT_OK"

\* gpt_set_state: the signature is written or broken, the CRC recomputed.
gpt_set_state(h, ok) == [sig |-> ok, hcrc |-> TRUE, pcrc |-> h.pcrc]

\* enum boot_update_stage
StageNo(s) == IF s = "main" THEN 1 ELSE IF s = "backup" THEN 2 ELSE 3

\* The stage prepare_boot_update infers from the two headers; 0: abort.
InternalStage(prim, sec) ==
  IF prim = "GPT_BAD_CRC" \/ sec = "GPT_BAD_CRC" THEN 0
  ELSE IF prim = "GPT_BAD_SIGNATURE" /\ sec = "GPT_BAD_SIGNATURE" THEN 0
  ELSE IF prim = "GPT_OK" /\ sec = "GPT_OK" THEN 1
  ELSE IF prim = "GPT_BAD_SIGNATURE" THEN 2 ELSE 3
-----------------------------------------------------------------------------
(***************************************************************************)
(* The boot ROM (external): it takes the primary GPT when its header and   *)
(* entries check out, else the secondary one, and loads of each partition  *)
(* the copy that carries the type GUID there.                              *)
(***************************************************************************)
Usable(h, e) == h.sig /\ h.hcrc /\ CrcMatches(h, e)

RomFindsGpt == Usable(disk.ph, pe) \/ Usable(disk.sh, disk.se)
RomChain    == IF Usable(disk.ph, pe) THEN pe.chain ELSE disk.se.chain
-----------------------------------------------------------------------------
\* The health of the two tables when an OTA starts: both good, or one piece
\* damaged, which the device has survived by booting from the other table.
InitHeaders == [sig : {TRUE}, hcrc : BOOLEAN, pcrc : {Normal}]
InitEntries == [chain : {Normal}, whole : BOOLEAN]

Init ==
  /\ backed \in SUBSET Parts
  /\ destBak \in SUBSET (backed \cap Files)
  /\ pe \in InitEntries
  /\ dev \in [ph : InitHeaders, sh : InitHeaders, se : InitEntries]
  /\ disk = dev
  /\ Usable(dev.ph, pe) \/ Usable(dev.sh, dev.se)
  /\ img = [c \in Copies |-> [p \in Parts |-> "old"]]
  /\ stage = "main"
  /\ pc = "call"
  /\ ret = 0
  /\ todo = {}
  /\ crashes = 0 /\ faults = 0 /\ badImages = 0 /\ reruns = 0
-----------------------------------------------------------------------------
(***************************************************************************)
(* prepare_boot_update, one action per sector write.                       *)
(***************************************************************************)
\* blk_rw(fd, 1, ...): the write is visible to later reads at once; on the
\* eMMC it is now, or when WriteBack or fsync gets to it.
Write(d) == dev' = d /\ disk' = IF Ordered THEN d ELSE disk

WritePrimary(h)   == Write([ph |-> h, sh |-> dev.sh, se |-> dev.se])
WriteSecondary(h) == Write([ph |-> dev.ph, sh |-> h, se |-> dev.se])
WriteEntries(e)   == Write([ph |-> dev.ph, sh |-> dev.sh, se |-> e])

Goto(l)   == pc' = l /\ UNCHANGED <<stage, ret, todo>>
Return(r) == pc' = "exit" /\ ret' = r /\ UNCHANGED <<stage, todo>>

\* Mutant: a stage that is already set is an unexpected stage.
CheckStageExact ==
  /\ pc = "call"
  /\ LET internal == InternalStage(gpt_get_state(dev.ph), gpt_get_state(dev.sh))
     IN  \/ StageNo(stage) # internal /\ Return(1)
         \/ /\ StageNo(stage) = internal
            /\ Goto(IF stage = "backup" THEN "set_primary" ELSE "chain_header")
  /\ UNCHANGED <<dev, disk, img, env, cnts>>

\* Mutant: the main stage does not first switch the secondary table.
CheckStageNoChain ==
  /\ pc = "call"
  /\ LET internal == InternalStage(gpt_get_state(dev.ph), gpt_get_state(dev.sh))
     IN  \/ internal = 0 /\ Return(1)
         \/ internal # 0 /\ StageNo(stage) = internal - 1 /\ Return(0)
         \/ internal # 0 /\ StageNo(stage) \notin {internal - 1, internal} /\ Return(1)
         \/ /\ internal # 0 /\ StageNo(stage) = internal
            /\ Goto(IF stage = "finalize" THEN "chain_header" ELSE "set_primary")
  /\ UNCHANGED <<dev, disk, img, env, cnts>>

\* gpt_get_state of both headers, the sanity checks and the stage checks.
CheckStage ==
  /\ pc = "call"
  /\ LET internal == InternalStage(gpt_get_state(dev.ph), gpt_get_state(dev.sh))
     IN  \/ internal = 0 /\ Return(1)
         \/ internal # 0 /\ StageNo(stage) = internal - 1 /\ Return(0)
         \/ internal # 0 /\ StageNo(stage) \notin {internal - 1, internal} /\ Return(1)
         \/ /\ internal # 0 /\ StageNo(stage) = internal
            /\ Goto(IF stage = "backup" THEN "set_primary" ELSE "chain_header")
  /\ UNCHANGED <<dev, disk, img, env, cnts>>

\* The entries gpt2_set_boot_chain is about to write to the secondary GPT.
NewChain == IF stage = "main" THEN gpt_boot_chain_swap(pe.chain) ELSE pe.chain

\* gpt2_set_boot_chain up to the write of the secondary header.
ChainHeader ==
  /\ pc = "chain_header"
  /\ \/ /\ ~CrcMatches(dev.ph, pe)
        /\ Return(1)
        /\ UNCHANGED <<dev, disk>>
     \/ /\ CrcMatches(dev.ph, pe)
        /\ stage = "main" /\ backed = {}     \* no backup partitions: r = 1 -> 0
        /\ Return(0)
        /\ UNCHANGED <<dev, disk>>
     \/ /\ CrcMatches(dev.ph, pe)
        /\ stage = "main" => backed # {}
        /\ WriteSecondary([sig |-> dev.sh.sig, hcrc |-> TRUE, pcrc |-> NewChain])
        /\ Goto("chain_entries")
  /\ UNCHANGED <<img, env, cnts>>

\* The write of the entries array: some of its sectors, then the rest.
ChainEntries ==
  /\ pc = "chain_entries"
  /\ WriteEntries([chain |-> NewChain, whole |-> FALSE])
  /\ Goto("chain_entries_end")
  /\ UNCHANGED <<img, env, cnts>>

ChainEntriesEnd ==
  /\ pc = "chain_entries_end"
  /\ WriteEntries([chain |-> NewChain, whole |-> TRUE])
  /\ Goto(IF stage = "main" THEN "set_primary" ELSE "set_secondary")
  /\ UNCHANGED <<img, env, cnts>>

SetPrimary ==
  /\ pc = "set_primary"
  /\ WritePrimary(gpt_set_state(dev.ph, stage = "backup"))
  /\ IF stage = "backup" THEN Goto("set_secondary") ELSE Return(0)
  /\ UNCHANGED <<img, env, cnts>>

SetSecondary ==
  /\ pc = "set_secondary"
  /\ WriteSecondary(gpt_set_state(dev.sh, stage = "finalize"))
  /\ Return(0)
  /\ UNCHANGED <<img, env, cnts>>

\* open, lseek64, calloc, read or write fails: nothing more is written.
IoFault ==
  /\ pc \in {"call", "chain_header", "chain_entries", "chain_entries_end",
             "set_primary", "set_secondary"}
  /\ faults < MaxFaults
  /\ faults' = faults + 1
  /\ Return(1)
  /\ UNCHANGED <<dev, disk, img, env, crashes, badImages, reruns>>

\* The EXIT label: fsync and close, then back in the script, which flashes
\* when it was given "t" and otherwise goes on to its next line.
NextStage ==
  /\ todo' = {}
  /\ \/ stage = "main" /\ stage' = "backup" /\ pc' = "call"
     \/ stage = "backup" /\ stage' = "finalize" /\ pc' = "call"
     \/ stage = "finalize" /\ stage' = stage /\ pc' = "done"

\* What the script flashes in the stage it is at.
InstallList == IF stage = "main" THEN Files ELSE destBak

\* Mutant: the script flashes whatever msm.boot_update returned.
ReturnIgnored ==
  \/ /\ stage # "finalize"
     /\ pc' = "flash" /\ todo' = InstallList
     /\ UNCHANGED stage
  \/ stage = "finalize" /\ NextStage

ReturnToScript ==
  \/ /\ ret = 0 /\ stage # "finalize"
     /\ pc' = "flash" /\ todo' = InstallList
     /\ UNCHANGED stage
  \/ /\ ret # 0 \/ stage = "finalize"
     /\ NextStage

\* Mutant: the device is closed without fsync.
ExitWithoutSync ==
  /\ pc = "exit"
  /\ ReturnToScript
  /\ UNCHANGED <<dev, disk, img, ret, env, cnts>>

Exit ==
  /\ pc = "exit"
  /\ disk' = dev
  /\ ReturnToScript
  /\ UNCHANGED <<dev, img, ret, env, cnts>>
-----------------------------------------------------------------------------
(***************************************************************************)
(* The script's installation of the images (InstallRawImage).  The         *)
(* installers sync what they write; the script ignores their result.       *)
(***************************************************************************)
Target == IF stage = "main" THEN "main" ELSE "bak"

BeginInstall(p) ==
  /\ pc = "flash" /\ p \in todo
  /\ img[Target][p] # "torn"
  /\ img' = [img EXCEPT ![Target][p] = "torn"]
  /\ UNCHANGED <<dev, disk, stage, pc, ret, todo, env, cnts>>

EndInstall(p) ==
  /\ pc = "flash" /\ p \in todo
  /\ img[Target][p] = "torn"
  /\ img' = [img EXCEPT ![Target][p] = "new"]
  /\ todo' = todo \ {p}
  /\ UNCHANGED <<dev, disk, stage, pc, ret, env, cnts>>

FailInstall(p) ==
  /\ pc = "flash" /\ p \in todo
  /\ badImages < MaxBadImages
  /\ badImages' = badImages + 1
  /\ todo' = todo \ {p}
  /\ UNCHANGED <<dev, disk, img, stage, pc, ret, env, crashes, faults, reruns>>

FlashDone ==
  /\ pc = "flash" /\ todo = {}
  /\ NextStage
  /\ UNCHANGED <<dev, disk, img, ret, env, cnts>>
-----------------------------------------------------------------------------
(***************************************************************************)
(* Power loss and what survives it.                                        *)
(***************************************************************************)
\* The kernel writes a dirty GPT sector back whenever it likes.
WriteBack(b) ==
  /\ ~Ordered /\ pc # "off"
  /\ disk[b] # dev[b]
  /\ disk' = [disk EXCEPT ![b] = dev[b]]
  /\ UNCHANGED <<dev, img, stage, pc, ret, todo, env, cnts>>

PowerLoss ==
  /\ pc # "off"
  /\ crashes < MaxCrashes
  /\ crashes' = crashes + 1
  /\ dev' = disk
  /\ pc' = "off" /\ stage' = "main" /\ ret' = 0 /\ todo' = {}
  /\ UNCHANGED <<disk, img, env, faults, badImages, reruns>>

\* The chain the ROM loads is complete, as far as the script has twins for it.
ChainWhole == \A p \in backed : img[RomChain[p]][p] # "torn"

\* The device boots into recovery, which runs the script from the start.
Restart ==
  /\ pc = "off"
  /\ RomFindsGpt /\ ChainWhole
  /\ pc' = "call"
  /\ UNCHANGED <<dev, disk, img, stage, ret, todo, env, cnts>>

\* The finished package is applied once more, from the script's first line.
Reapply ==
  /\ pc = "done"
  /\ reruns < MaxReruns
  /\ reruns' = reruns + 1
  /\ pc' = "call" /\ stage' = "main" /\ ret' = 0
  /\ UNCHANGED <<dev, disk, img, todo, env, crashes, faults, badImages>>

Finished == pc = "done" /\ UNCHANGED vars

Script ==
  \/ CheckStage \/ ChainHeader \/ ChainEntries \/ ChainEntriesEnd
  \/ SetPrimary \/ SetSecondary \/ Exit \/ FlashDone
  \/ \E p \in Parts : BeginInstall(p) \/ EndInstall(p)

Environment ==
  \/ IoFault \/ PowerLoss \/ Reapply
  \/ \E p \in Parts : FailInstall(p)
  \/ \E b \in {"ph", "sh", "se"} : WriteBack(b)

Next == Script \/ Environment \/ Restart \/ Finished

Spec == Init /\ [][Next]_vars

\* The updater is one running process and recovery restarts it after a boot.
FairSpec == Spec /\ WF_vars(Script) /\ WF_vars(Restart)
-----------------------------------------------------------------------------
TypeOK ==
  /\ backed \subseteq Parts
  /\ destBak \subseteq backed \cap Files
  /\ pe \in Entries
  /\ dev \in Devices
  /\ disk \in Devices
  /\ img \in [Copies -> [Parts -> Images]]
  /\ stage \in {"main", "backup", "finalize"}
  /\ pc \in {"call", "chain_header", "chain_entries", "chain_entries_end",
             "set_primary", "set_secondary", "exit", "flash", "done", "off"}
  /\ ret \in {0, 1}
  /\ todo \subseteq Files
  /\ crashes \in 0..MaxCrashes
  /\ faults \in 0..MaxFaults
  /\ badImages \in 0..MaxBadImages
  /\ reruns \in 0..MaxReruns

(***************************************************************************)
(* At every instant, power may be cut: the boot ROM then finds a GPT whose *)
(* header and entries are valid, and every boot partition that has a twin  *)
(* is loaded from a copy that is not half written.                         *)
(***************************************************************************)
Bootable == RomFindsGpt /\ ChainWhole

(***************************************************************************)
(* Whatever fails and whenever power is cut, the boot ROM finds a GPT      *)
(* whose header and entries are valid.                                     *)
(***************************************************************************)
GptFound == RomFindsGpt

(***************************************************************************)
(* The boot chain is never a mixture of releases: of the images this       *)
(* package replaces, the ROM loads either all the old or all the new ones. *)
(* Where the files map names a backup for some images only, this holds of  *)
(* the images with a backup and of those without: a finished update has    *)
(* left the others old in the backup copy, which the next one boots.       *)
(***************************************************************************)
ChainUniform ==
  \A g \in {destBak, (backed \cap Files) \ destBak} :
    \E v \in {"old", "new"} : \A p \in g : img[RomChain[p]][p] = v

(***************************************************************************)
(* "These 2 combinations are unexpected and unacceptable": with a healthy  *)
(* device to start from, the headers on the eMMC are never both broken.    *)
(***************************************************************************)
NeverBothCorrupted == disk.ph.sig \/ disk.sh.sig

(***************************************************************************)
(* No step of the script writes a copy of a backed-up partition while the  *)
(* boot ROM would load that very copy.                                     *)
(***************************************************************************)
LiveCopyNeverWritten ==
  [][\A p \in backed, c \in Copies :
        img'[c][p] # img[c][p] => RomChain[p] # c]_vars

(***************************************************************************)
(* prepare_boot_update is documented to return "0 on success": when it     *)
(* returns 0 for the main or the backup stage of a device with twins, the  *)
(* GPT on the eMMC that is left valid is usable and names the other copy.  *)
(***************************************************************************)
ZeroMeansPrepared ==
  pc = "flash" /\ backed # {} =>
    /\ RomFindsGpt
    /\ \A p \in backed : RomChain[p] # Target

(***************************************************************************)
(* When no I/O fails, the update completes after the last power loss: the  *)
(* new images are installed, the backups too when the package has them,    *)
(* and both tables are good and name the main chain again.                 *)
(***************************************************************************)
Updated ==
  /\ \A p \in Files : img["main"][p] = "new"
  /\ \A p \in destBak : img["bak"][p] = "new"
  /\ Usable(disk.ph, pe) /\ Usable(disk.sh, disk.se)
  /\ disk.se.chain = Normal

DeviceHealthy == dev.ph.hcrc /\ dev.sh.hcrc /\ pe.whole /\ dev.se.whole

UpdateCompletes == DeviceHealthy => <>[](pc = "done" /\ Updated)
=============================================================================
