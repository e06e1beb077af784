-------------------------- MODULE BootUpdateProofs --------------------------
(***************************************************************************)
(* Proofs about BootUpdate, for every set of partitions, every package and *)
(* any number of crashes.                                                  *)
(***************************************************************************)
EXTENDS BootUpdateRefinesAB, TLAPS

\* The chain of the secondary table while main is being flashed.
Swapped == gpt_boot_chain_swap(Normal)

InCall == {"call", "chain_header", "chain_entries", "chain_entries_end",
           "set_primary", "set_secondary"}
PCs    == InCall \cup {"exit", "flash", "done", "off"}

\* What the two tables look like wherever the updater is.  The code never
\* writes the primary entries, and a broken signature is always its own work:
\* the other table was then complete.
TablesInv ==
  /\ pe.chain = Normal /\ dev.ph.pcrc = Normal
  /\ Usable(dev.ph, pe) \/ Usable(dev.sh, dev.se)
  /\ dev.ph.sig => Usable(dev.ph, pe) \/ dev.se.chain = Normal
  /\ ~dev.ph.sig => /\ dev.ph.hcrc /\ pe.whole
                    /\ backed # {}
                    /\ Usable(dev.sh, dev.se) /\ dev.se.chain = Swapped
  /\ ~dev.sh.sig => dev.sh.hcrc

\* What each control point inside prepare_boot_update knows.
ControlInv ==
  /\ pc = "chain_header" =>
       /\ stage \in {"main", "finalize"}
       /\ dev.ph.sig /\ dev.ph.hcrc /\ dev.sh.hcrc
       /\ dev.sh.sig <=> stage = "main"
  /\ pc \in {"chain_entries", "chain_entries_end"} =>
       /\ stage \in {"main", "finalize"}
       /\ stage = "main" => backed # {}
       /\ Usable(dev.ph, pe)
       /\ dev.sh.sig <=> stage = "main"
       /\ dev.sh.hcrc /\ dev.sh.pcrc = NewChain
  /\ pc = "set_primary" =>
       /\ stage \in {"main", "backup"}
       /\ stage = "main" => /\ Usable(dev.ph, pe) /\ Usable(dev.sh, dev.se)
                            /\ dev.se.chain = Swapped /\ backed # {}
       /\ stage = "backup" => ~dev.ph.sig
  /\ pc = "set_secondary" =>
       /\ stage \in {"backup", "finalize"}
       /\ Usable(dev.ph, pe)
       /\ dev.sh.sig <=> stage = "backup"
       /\ stage = "finalize" => Usable(gpt_set_state(dev.sh, TRUE), dev.se)

\* When the script flashes, the table names the other copy.
FlashInv ==
  pc = "flash" \/ (pc = "exit" /\ ret = 0) =>
    /\ pc = "flash" => stage # "finalize"
    /\ stage = "main" => backed = {} \/ ~dev.ph.sig
    /\ stage = "backup" => ~dev.sh.sig

\* What read(2) sees is on the eMMC: always when the writes reach it in
\* order, and else when prepare_boot_update has synced.
SyncInv == Ordered \/ pc = "flash" => disk = dev

\* Nothing is lost on the way to the eMMC.
Synced == Ordered \/ MaxCrashes = 0

GptInv == TypeOK /\ SyncInv /\ TablesInv /\ ControlInv /\ FlashInv
-----------------------------------------------------------------------------
LEMMA TypeInit == Init => TypeOK
<1> SUFFICES ASSUME Init PROVE TypeOK
  OBVIOUS
<1>1. Normal \in Chains
  BY DEF Normal, Chains, Copies
<1>2. dev \in Devices /\ pe \in Entries
  BY <1>1 DEF Init, Devices, Entries, Headers, InitHeaders, InitEntries
<1>3. img \in [Copies -> [Parts -> Images]]
  BY DEF Init, Images
<1> QED
  BY <1>2, <1>3, BootUpdateAssumption DEF Init, TypeOK

LEMMA TypeStep == TypeOK /\ [Next]_vars => TypeOK'
<1> SUFFICES ASSUME TypeOK, [Next]_vars PROVE TypeOK'
  OBVIOUS
<1> USE BootUpdateAssumption DEF TypeOK
<1>0. NewChain \in Chains
  BY DEF NewChain, gpt_boot_chain_swap, Entries, Chains, Copies
<1>1. CASE CheckStage
  BY <1>1 DEF CheckStage, Return, Goto, env, cnts
<1>2. CASE ChainHeader
  <2> DEFINE h == [sig |-> dev.sh.sig, hcrc |-> TRUE, pcrc |-> NewChain]
  <2>1. h \in Headers
    BY <1>0 DEF Devices, Headers
  <2>2. UNCHANGED <<dev, disk>> \/ WriteSecondary(h)
    BY <1>2 DEF ChainHeader
  <2> HIDE DEF h
  <2>3. dev' \in Devices /\ disk' \in Devices
    BY <2>1, <2>2 DEF Write, WriteSecondary, Devices
  <2> QED
    BY <1>2, <2>3 DEF ChainHeader, Return, Goto, env, cnts
<1>3. CASE ChainEntries
  BY <1>3, <1>0 DEF ChainEntries, Goto, Write, WriteEntries, env, cnts, Devices, Entries
<1>4. CASE ChainEntriesEnd
  BY <1>4, <1>0 DEF ChainEntriesEnd, Goto, Write, WriteEntries, env, cnts, Devices, Entries
<1>5. CASE SetPrimary
  BY <1>5 DEF SetPrimary, Return, Goto, Write, WritePrimary, WriteSecondary, gpt_set_state, env, cnts, Devices, Headers
<1>6. CASE SetSecondary
  BY <1>6 DEF SetSecondary, Return, Goto, Write, WritePrimary, WriteSecondary, gpt_set_state, env, cnts, Devices, Headers
<1>7. CASE IoFault
  BY <1>7 DEF IoFault, Return, env
<1>8. CASE Exit
  BY <1>8 DEF Exit, ReturnToScript, InstallList, NextStage, env, cnts
<1>9. CASE FlashDone
  BY <1>9 DEF FlashDone, NextStage, env, cnts
<1>10. CASE PowerLoss
  BY <1>10 DEF PowerLoss, env
<1>11. CASE Reapply
  BY <1>11 DEF Reapply, env
<1>12. CASE Restart
  BY <1>12 DEF Restart, env, cnts
<1>13. CASE Finished
  BY <1>13 DEF Finished, vars
<1>14. ASSUME NEW p \in Parts, BeginInstall(p) PROVE TypeOK'
  BY <1>14 DEF BeginInstall, Target, Copies, Images, env, cnts
<1>15. ASSUME NEW p \in Parts, EndInstall(p) PROVE TypeOK'
  BY <1>15 DEF EndInstall, Target, Copies, Images, env, cnts
<1>16. ASSUME NEW p \in Parts, FailInstall(p) PROVE TypeOK'
  BY <1>16 DEF FailInstall, env
<1>17. ASSUME NEW b \in {"ph", "sh", "se"}, WriteBack(b) PROVE TypeOK'
  BY <1>17 DEF WriteBack, env, cnts, Devices
<1>18. CASE UNCHANGED vars
  BY <1>18 DEF vars
<1> QED
  BY <1>1, <1>2, <1>3, <1>4, <1>5, <1>6, <1>7, <1>8, <1>9, <1>10, <1>11, <1>12, <1>13, <1>14, <1>15, <1>16, <1>17, <1>18 DEF Next, Script, Environment

(***************************************************************************)
(* Every variable keeps its type, and every bounded counter its bound.     *)
(***************************************************************************)
THEOREM TypeCorrect == Spec => []TypeOK
  BY TypeInit, TypeStep, PTL DEF Spec
-----------------------------------------------------------------------------
\* Reading back the parts of the device after each kind of write.
LEMMA Writes ==
  ASSUME NEW h, NEW e
  PROVE  /\ WritePrimary(h) => dev'.ph = h /\ dev'.sh = dev.sh /\ dev'.se = dev.se
         /\ WriteSecondary(h) => dev'.ph = dev.ph /\ dev'.sh = h /\ dev'.se = dev.se
         /\ WriteEntries(e) => dev'.ph = dev.ph /\ dev'.sh = dev.sh /\ dev'.se = e
  BY DEF Write, WritePrimary, WriteSecondary, WriteEntries

LEMMA SyncStep == ASSUME TypeOK, SyncInv, [Next]_vars PROVE SyncInv'
<1> USE DEF SyncInv, TypeOK
<1>1. CASE Exit
  BY <1>1 DEF Exit
<1>2. CASE CheckStage \/ IoFault \/ FlashDone \/ PowerLoss \/ Reapply \/ Restart \/ Finished
  BY <1>2 DEF CheckStage, IoFault, FlashDone, NextStage, PowerLoss, Reapply, Restart, Finished,
              Return, Goto, vars
<1>3. CASE ChainHeader \/ ChainEntries \/ ChainEntriesEnd \/ SetPrimary \/ SetSecondary
  <2>1. pc' # "flash"
    BY <1>3 DEF ChainHeader, ChainEntries, ChainEntriesEnd, SetPrimary, SetSecondary, Return, Goto
  <2>2. UNCHANGED <<dev, disk>> \/ (\E d : Write(d))
    BY <1>3 DEF ChainHeader, ChainEntries, ChainEntriesEnd, SetPrimary, SetSecondary,
                WritePrimary, WriteSecondary, WriteEntries
  <2>3. Ordered => disk' = dev'
    BY <2>2 DEF Write
  <2> QED
    BY <2>1, <2>3
<1>4. ASSUME NEW p \in Parts, BeginInstall(p) \/ EndInstall(p) \/ FailInstall(p) PROVE SyncInv'
  BY <1>4 DEF BeginInstall, EndInstall, FailInstall
<1>5. ASSUME NEW b \in {"ph", "sh", "se"}, WriteBack(b) PROVE SyncInv'
  BY <1>5 DEF WriteBack
<1>6. CASE UNCHANGED vars
  BY <1>6 DEF vars
<1> QED
  BY <1>1, <1>2, <1>3, <1>4, <1>5, <1>6 DEF Next, Script, Environment

LEMMA TablesInit == Init => SyncInv /\ TablesInv /\ ControlInv /\ FlashInv
<1> SUFFICES ASSUME Init PROVE SyncInv /\ TablesInv /\ ControlInv /\ FlashInv
  OBVIOUS
<1>1. TablesInv
  BY DEF Init, InitHeaders, InitEntries, Usable, CrcMatches, TablesInv
<1>2. SyncInv /\ ControlInv /\ FlashInv
  BY DEF Init, SyncInv, ControlInv, FlashInv
<1> QED
  BY <1>1, <1>2

LEMMA TablesStep ==
  ASSUME Synced, GptInv, [Next]_vars
  PROVE  (TablesInv /\ ControlInv /\ FlashInv)'
<1> USE DEF GptInv
<1>a. NewChain = IF stage = "main" THEN Swapped ELSE Normal
  BY DEF NewChain, Swapped, TablesInv
<1>b. backed' = backed /\ pe' = pe /\ Swapped' = Swapped /\ (stage' = stage => NewChain' = NewChain)
  BY DEF Next, Script, Environment, CheckStage, ChainHeader, ChainEntries, ChainEntriesEnd,
         SetPrimary, SetSecondary, IoFault, Exit, FlashDone, PowerLoss, Reapply, Restart,
         Finished, BeginInstall, EndInstall, FailInstall, WriteBack, vars, env,
         Swapped, NewChain, gpt_boot_chain_swap
<1>1. CASE CheckStage
  <2> DEFINE internal == InternalStage(gpt_get_state(dev.ph), gpt_get_state(dev.sh))
  <2>0. UNCHANGED <<dev, disk, stage>>
    BY <1>1 DEF CheckStage, Return, Goto
  <2>1. TablesInv'
    BY <1>b, <2>0 DEF TablesInv
  <2>2. CASE Return(1)
    BY <2>1, <2>2 DEF Return, ControlInv, FlashInv
  <2>3. CASE internal # 0 /\ StageNo(stage) = internal - 1 /\ Return(0)
    <3>1. stage = "main" => ~dev.ph.sig
      BY <2>3 DEF InternalStage, gpt_get_state, StageNo
    <3>2. stage = "backup" => ~dev.sh.sig
      BY <2>3 DEF InternalStage, gpt_get_state, StageNo
    <3> QED
      BY <2>0, <2>1, <2>3, <3>1, <3>2 DEF Return, ControlInv, FlashInv
  <2>4. CASE /\ internal # 0 /\ StageNo(stage) = internal
             /\ Goto(IF stage = "backup" THEN "set_primary" ELSE "chain_header")
    <3>1. dev.ph.hcrc /\ dev.sh.hcrc /\ (dev.ph.sig \/ dev.sh.sig)
      BY <2>4 DEF InternalStage, gpt_get_state
    <3>2. stage = "main" => dev.ph.sig /\ dev.sh.sig
      BY <2>4 DEF InternalStage, gpt_get_state, StageNo
    <3>3. stage = "backup" => ~dev.ph.sig
      BY <2>4 DEF InternalStage, gpt_get_state, StageNo
    <3>4. stage = "finalize" => dev.ph.sig /\ ~dev.sh.sig
      BY <2>4 DEF InternalStage, gpt_get_state, StageNo
    <3> QED
      BY <2>0, <2>1, <2>4, <3>1, <3>2, <3>3, <3>4 DEF Goto, ControlInv, FlashInv, TypeOK
  <2> QED
    BY <1>1, <2>2, <2>3, <2>4 DEF CheckStage
<1>2. CASE ChainHeader
  <2> DEFINE h == [sig |-> dev.sh.sig, hcrc |-> TRUE, pcrc |-> NewChain]
  <2>1. CASE /\ UNCHANGED <<dev, disk>>
             /\ Return(1) \/ (Return(0) /\ stage = "main" /\ backed = {})
    <3>1. TablesInv'
      BY <2>1, <1>b DEF TablesInv
    <3>2. ControlInv'
      BY <2>1 DEF Return, ControlInv
    <3>3. FlashInv'
      BY <2>1, <1>b DEF Return, FlashInv
    <3> QED
      BY <3>1, <3>2, <3>3
  <2>2. CASE /\ CrcMatches(dev.ph, pe) /\ (stage = "main" => backed # {})
             /\ WriteSecondary(h) /\ Goto("chain_entries")
    <3>1. dev'.ph = dev.ph /\ dev'.sh = h /\ dev'.se = dev.se
      BY <2>2, Writes
    <3>2. TablesInv'
      BY <1>2, <2>2, <3>1, <1>b DEF ChainHeader, Usable, CrcMatches, TablesInv, ControlInv
    <3>3. ControlInv' /\ FlashInv'
      BY <1>2, <2>2, <3>1, <1>b
      DEF ChainHeader, Goto, Usable, CrcMatches, TablesInv, ControlInv, FlashInv
    <3> QED
      BY <3>2, <3>3
  <2> QED
    BY <1>2, <2>1, <2>2 DEF ChainHeader
<1>3. CASE ChainEntries
  <2>1. TablesInv'
    BY <1>3, <1>a, <1>b, Writes DEF ChainEntries, Goto, Usable, CrcMatches, TablesInv, ControlInv, FlashInv, TypeOK
  <2>2. ControlInv'
    BY <1>3, <1>a, <1>b, Writes DEF ChainEntries, Goto, Usable, CrcMatches, TablesInv, ControlInv, FlashInv, TypeOK
  <2>3. FlashInv'
    BY <1>3, <1>a, <1>b, Writes DEF ChainEntries, Goto, Usable, CrcMatches, TablesInv, ControlInv, FlashInv, TypeOK
  <2> QED
    BY <2>1, <2>2, <2>3
<1>4. CASE ChainEntriesEnd
  <2> DEFINE e == [chain |-> NewChain, whole |-> TRUE]
  <2>0. dev'.ph = dev.ph /\ dev'.sh = dev.sh /\ dev'.se = e
    BY <1>4, Writes DEF ChainEntriesEnd
  <2>1. TablesInv'
    BY <1>4, <1>a, <1>b, <2>0 DEF ChainEntriesEnd, Usable, CrcMatches, TablesInv, ControlInv
  <2>2. CASE stage = "main"
    <3>1. pc' = "set_primary" /\ stage' = stage
      BY <1>4, <2>2 DEF ChainEntriesEnd, Goto
    <3> QED
      BY <1>4, <1>a, <1>b, <2>0, <2>1, <2>2, <3>1
      DEF ChainEntriesEnd, Usable, CrcMatches, ControlInv, FlashInv
  <2>3. CASE stage = "finalize"
    <3>1. pc' = "set_secondary" /\ stage' = stage
      BY <1>4, <2>3 DEF ChainEntriesEnd, Goto
    <3>2. Usable(gpt_set_state(dev'.sh, TRUE), dev'.se)
      BY <1>4, <2>0 DEF ChainEntriesEnd, gpt_set_state, Usable, CrcMatches, ControlInv
    <3>3. Usable(dev'.ph, pe) /\ ~dev'.sh.sig
      BY <1>4, <2>0, <2>3 DEF ChainEntriesEnd, ControlInv
    <3> QED
      BY <1>b, <2>1, <2>3, <3>1, <3>2, <3>3 DEF ControlInv, FlashInv
  <2> QED
    BY <1>4, <2>2, <2>3 DEF ChainEntriesEnd, ControlInv
<1>5. CASE SetPrimary
  <2> DEFINE h(ok) == [sig |-> ok, hcrc |-> TRUE, pcrc |-> Normal]
  <2>1. CASE stage = "main"
    <3>1. WritePrimary(h(FALSE)) /\ Return(0)
      BY <1>5, <2>1 DEF SetPrimary, gpt_set_state, TablesInv
    <3>2. dev'.ph = h(FALSE) /\ dev'.sh = dev.sh /\ dev'.se = dev.se
      BY <3>1, Writes
    <3> QED
      BY <1>5, <2>1, <3>1, <3>2, <1>b
      DEF SetPrimary, Return, Usable, CrcMatches, TablesInv, ControlInv, FlashInv
  <2>2. CASE stage = "backup"
    <3>1. WritePrimary(h(TRUE)) /\ Goto("set_secondary")
      BY <1>5, <2>2 DEF SetPrimary, gpt_set_state, TablesInv
    <3>2. dev'.ph = h(TRUE) /\ dev'.sh = dev.sh /\ dev'.se = dev.se
      BY <3>1, Writes
    <3> QED
      BY <1>5, <2>2, <3>1, <3>2, <1>b
      DEF SetPrimary, Goto, Usable, CrcMatches, TablesInv, ControlInv, FlashInv
  <2> QED
    BY <1>5, <2>1, <2>2 DEF SetPrimary, ControlInv
<1>6. CASE SetSecondary
  <2> DEFINE h(ok) == [sig |-> ok, hcrc |-> TRUE, pcrc |-> dev.sh.pcrc]
  <2>0. Return(0)
    BY <1>6 DEF SetSecondary
  <2>1. CASE stage = "backup"
    <3>1. WriteSecondary(h(FALSE))
      BY <1>6, <2>1 DEF SetSecondary, gpt_set_state
    <3>2. dev'.ph = dev.ph /\ dev'.sh = h(FALSE) /\ dev'.se = dev.se
      BY <3>1, Writes
    <3> QED
      BY <1>6, <2>0, <2>1, <3>2, <1>b
      DEF SetSecondary, Return, Usable, CrcMatches, TablesInv, ControlInv, FlashInv
  <2>2. CASE stage = "finalize"
    <3>1. WriteSecondary(h(TRUE))
      BY <1>6, <2>2 DEF SetSecondary, gpt_set_state
    <3>2. dev'.ph = dev.ph /\ dev'.sh = h(TRUE) /\ dev'.se = dev.se
      BY <3>1, Writes
    <3> QED
      BY <1>6, <2>0, <2>2, <3>2, <1>b
      DEF SetSecondary, Return, Usable, CrcMatches, TablesInv, ControlInv, FlashInv
  <2> QED
    BY <1>6, <2>1, <2>2 DEF SetSecondary, ControlInv
<1>7. CASE IoFault
  <2>1. TablesInv'
    BY <1>7, <1>b DEF IoFault, Return, TablesInv, ControlInv, FlashInv, TypeOK
  <2>2. ControlInv'
    BY <1>7, <1>b DEF IoFault, Return, TablesInv, ControlInv, FlashInv, TypeOK
  <2>3. FlashInv'
    BY <1>7, <1>b DEF IoFault, Return, TablesInv, ControlInv, FlashInv, TypeOK
  <2> QED
    BY <2>1, <2>2, <2>3
<1>8. CASE Exit
  <2>1. TablesInv'
    BY <1>8, <1>b DEF Exit, ReturnToScript, NextStage, TablesInv, ControlInv, FlashInv, TypeOK
  <2>2. ControlInv'
    BY <1>8, <1>b DEF Exit, ReturnToScript, NextStage, TablesInv, ControlInv, FlashInv, TypeOK
  <2>3. FlashInv'
    BY <1>8, <1>b DEF Exit, ReturnToScript, NextStage, TablesInv, ControlInv, FlashInv, TypeOK
  <2> QED
    BY <2>1, <2>2, <2>3
<1>9. CASE FlashDone
  <2>1. TablesInv'
    BY <1>9, <1>b DEF FlashDone, NextStage, TablesInv, ControlInv, FlashInv, TypeOK
  <2>2. ControlInv'
    BY <1>9, <1>b DEF FlashDone, NextStage, TablesInv, ControlInv, FlashInv, TypeOK
  <2>3. FlashInv'
    BY <1>9, <1>b DEF FlashDone, NextStage, TablesInv, ControlInv, FlashInv, TypeOK
  <2> QED
    BY <2>1, <2>2, <2>3
<1>10. CASE PowerLoss
  <2>0. dev' = dev
    BY <1>10 DEF PowerLoss, TypeOK, SyncInv, Synced
  <2>1. TablesInv'
    BY <1>10, <1>b, <2>0 DEF PowerLoss, TablesInv, ControlInv, FlashInv, TypeOK
  <2>2. ControlInv'
    BY <1>10, <1>b DEF PowerLoss, TablesInv, ControlInv, FlashInv, TypeOK
  <2>3. FlashInv'
    BY <1>10, <1>b DEF PowerLoss, TablesInv, ControlInv, FlashInv, TypeOK
  <2> QED
    BY <2>1, <2>2, <2>3
<1>11. CASE Reapply
  <2>1. TablesInv'
    BY <1>11, <1>b DEF Reapply, TablesInv, ControlInv, FlashInv, TypeOK
  <2>2. ControlInv'
    BY <1>11, <1>b DEF Reapply, TablesInv, ControlInv, FlashInv, TypeOK
  <2>3. FlashInv'
    BY <1>11, <1>b DEF Reapply, TablesInv, ControlInv, FlashInv, TypeOK
  <2> QED
    BY <2>1, <2>2, <2>3
<1>12. CASE Restart
  <2>1. TablesInv'
    BY <1>12, <1>b DEF Restart, TablesInv, ControlInv, FlashInv, TypeOK
  <2>2. ControlInv'
    BY <1>12, <1>b DEF Restart, TablesInv, ControlInv, FlashInv, TypeOK
  <2>3. FlashInv'
    BY <1>12, <1>b DEF Restart, TablesInv, ControlInv, FlashInv, TypeOK
  <2> QED
    BY <2>1, <2>2, <2>3
<1>13. CASE Finished
  <2>1. TablesInv'
    BY <1>13, <1>b DEF Finished, vars, TablesInv, ControlInv, FlashInv, TypeOK
  <2>2. ControlInv'
    BY <1>13, <1>b DEF Finished, vars, TablesInv, ControlInv, FlashInv, TypeOK
  <2>3. FlashInv'
    BY <1>13, <1>b DEF Finished, vars, TablesInv, ControlInv, FlashInv, TypeOK
  <2> QED
    BY <2>1, <2>2, <2>3
<1>14. ASSUME NEW p \in Parts, BeginInstall(p) PROVE (TablesInv /\ ControlInv /\ FlashInv)'
  BY <1>14, <1>b DEF BeginInstall, TablesInv, ControlInv, FlashInv
<1>15. ASSUME NEW p \in Parts, EndInstall(p) PROVE (TablesInv /\ ControlInv /\ FlashInv)'
  BY <1>15, <1>b DEF EndInstall, TablesInv, ControlInv, FlashInv
<1>16. ASSUME NEW p \in Parts, FailInstall(p) PROVE (TablesInv /\ ControlInv /\ FlashInv)'
  BY <1>16, <1>b DEF FailInstall, TablesInv, ControlInv, FlashInv
<1>17. ASSUME NEW b \in {"ph", "sh", "se"}, WriteBack(b) PROVE (TablesInv /\ ControlInv /\ FlashInv)'
  BY <1>17, <1>b DEF WriteBack, TablesInv, ControlInv, FlashInv
<1>18. CASE UNCHANGED vars
  BY <1>18, <1>b DEF vars, TablesInv, ControlInv, FlashInv
<1> QED
  BY <1>1, <1>2, <1>3, <1>4, <1>5, <1>6, <1>7, <1>8, <1>9, <1>10, <1>11, <1>12, <1>13, <1>14, <1>15, <1>16, <1>17, <1>18 DEF Next, Script, Environment

LEMMA GptInvariant == ASSUME Synced PROVE Spec => []GptInv
<1>1. Init => GptInv
  BY TypeInit, TablesInit DEF GptInv
<1>2. GptInv /\ [Next]_vars => GptInv'
  BY TypeStep, SyncStep, TablesStep DEF GptInv
<1> QED
  BY <1>1, <1>2, PTL DEF Spec

(***************************************************************************)
(* When the eMMC sees the GPT writes in order, the boot ROM finds a valid  *)
(* GPT at every instant, whatever I/O operations or installers fail and    *)
(* however often power is cut.                                             *)
(***************************************************************************)
THEOREM GptAlwaysFound == ASSUME Ordered PROVE Spec => []GptFound
<1>1. GptInv => GptFound
  BY DEF GptInv, SyncInv, TablesInv, GptFound, RomFindsGpt
<1> QED
  BY <1>1, GptInvariant, PTL DEF Synced

(***************************************************************************)
(* Under the same assumption the two headers are never both corrupted, the *)
(* combination prepare_boot_update calls unacceptable.                     *)
(***************************************************************************)
THEOREM HeadersNeverBothCorrupted == ASSUME Ordered PROVE Spec => []NeverBothCorrupted
<1>1. GptInv => NeverBothCorrupted
  BY DEF GptInv, SyncInv, TablesInv, NeverBothCorrupted, Usable
<1> QED
  BY <1>1, GptInvariant, PTL DEF Synced

\* The chain the ROM follows, in the states of the invariant.
LEMMA RomChainIs ==
  ASSUME GptInv, Ordered \/ pc = "flash"
  PROVE  /\ dev.ph.sig => RomChain = Normal
         /\ ~dev.ph.sig => RomChain = Swapped
  BY DEF GptInv, SyncInv, TablesInv, RomChain, Usable

LEMMA ChainCopies ==
  ASSUME NEW p \in backed, TypeOK
  PROVE  Normal[p] = "main" /\ Swapped[p] = "bak"
  BY DEF Normal, Swapped, gpt_boot_chain_swap, TypeOK

(***************************************************************************)
(* The script never writes the copy of a partition the boot ROM would load *)
(* if power were cut, whatever has failed before.                          *)
(***************************************************************************)
THEOREM LiveCopySafe == ASSUME Ordered PROVE Spec => LiveCopyNeverWritten
<1> DEFINE Step == \A p \in backed, c \in Copies : img'[c][p] # img[c][p] => RomChain[p] # c
<1>1. GptInv /\ [Next]_vars => [Step]_vars
  <2> SUFFICES ASSUME GptInv, Next,
                      NEW q \in backed, NEW c \in Copies, img'[c][q] # img[c][q]
               PROVE  RomChain[q] # c
    OBVIOUS
  <2>1. PICK p \in Parts : BeginInstall(p) \/ EndInstall(p)
    BY DEF Next, Script, Environment, CheckStage, ChainHeader, ChainEntries, ChainEntriesEnd,
           SetPrimary, SetSecondary, IoFault, Exit, FlashDone, PowerLoss, Reapply, Restart,
           Finished, FailInstall, WriteBack, vars
  <2>2. pc = "flash" /\ c = Target
    BY <2>1 DEF BeginInstall, EndInstall, GptInv, TypeOK
  <2>3. stage = "main" \/ stage = "backup"
    BY <2>2 DEF GptInv, FlashInv, TypeOK
  <2>4. CASE stage = "main"
    BY <2>2, <2>4, RomChainIs, ChainCopies DEF GptInv, FlashInv, Target
  <2>5. CASE stage = "backup"
    <3>1. dev.ph.sig
      BY <2>2, <2>5 DEF GptInv, FlashInv, TablesInv, Usable
    <3> QED
      BY <2>2, <2>5, <3>1, RomChainIs, ChainCopies DEF GptInv, Target
  <2> QED
    BY <2>3, <2>4, <2>5
<1>2. Spec => [][Next]_vars
  BY PTL DEF Spec
<1> QED
  BY <1>1, <1>2, GptInvariant, PTL DEF LiveCopyNeverWritten, Synced

(***************************************************************************)
(* prepare_boot_update returns 0 only when the table the ROM will use is   *)
(* on the eMMC and names the copy that is not about to be flashed: in any  *)
(* order of write-back if power is not lost, and with power losses if the  *)
(* eMMC sees the writes in order; whatever I/O or installer fails.         *)
(***************************************************************************)
THEOREM ZeroAlwaysMeansPrepared ==
  ASSUME Ordered \/ MaxCrashes = 0 PROVE Spec => []ZeroMeansPrepared
<1>1. GptInv => ZeroMeansPrepared
  <2> SUFFICES ASSUME GptInv, pc = "flash", backed # {}
               PROVE  RomFindsGpt /\ \A p \in backed : RomChain[p] # Target
    BY DEF ZeroMeansPrepared
  <2>1. RomFindsGpt
    BY DEF GptInv, SyncInv, TablesInv, RomFindsGpt
  <2>2. CASE stage = "main"
    BY <2>1, <2>2, RomChainIs, ChainCopies DEF GptInv, FlashInv, Target
  <2>3. CASE stage = "backup"
    <3>1. dev.ph.sig
      BY <2>3 DEF GptInv, FlashInv, TablesInv, Usable
    <3> QED
      BY <2>1, <2>3, <3>1, RomChainIs, ChainCopies DEF GptInv, Target
  <2> QED
    BY <2>2, <2>3 DEF GptInv, FlashInv, TypeOK
<1> QED
  BY <1>1, GptInvariant, PTL DEF Synced
-----------------------------------------------------------------------------
\* Copy c can be booted: nothing half written, and one release.
Complete(c) ==
  /\ \A p \in backed : img[c][p] # "torn"
  /\ \A g \in {destBak, (backed \cap Files) \ destBak} :
       \E v \in {"old", "new"} : \A p \in g : img[c][p] = v

\* What is in the two copies, when no I/O and no installer fails.  A header
\* with a good signature vouches for its copy, and a stage is left only when
\* its copy is complete.
CopiesInv ==
  /\ \A p \in Parts, c \in Copies : p \notin Files => img[c][p] = "old"
  /\ \A p \in Parts \ destBak : img["bak"][p] = "old"
  /\ dev.ph.sig => Complete("main")
  /\ dev.sh.sig => Complete("bak")
  /\ stage = "backup" => Complete("main")
  /\ stage = "finalize" => Complete("bak")
  /\ pc = "exit" /\ ret # 0 /\ stage = "main" => dev.ph.sig
  /\ pc = "exit" /\ ret # 0 /\ stage = "backup" => dev.sh.sig
  /\ pc = "flash" /\ stage = "main" => \A p \in Files \ todo : img["main"][p] = "new"
  /\ pc = "flash" /\ stage = "backup" =>
       todo \subseteq destBak /\ \A p \in destBak \ todo : img["bak"][p] = "new"

LEMMA CopiesInit == Init => CopiesInv
<1> SUFFICES ASSUME Init PROVE CopiesInv
  OBVIOUS
<1>1. \A c \in Copies, p \in Parts : img[c][p] = "old"
  BY DEF Init
<1>2. backed \subseteq Parts /\ destBak \subseteq Parts /\ "main" \in Copies /\ "bak" \in Copies
  BY DEF Init, Copies
<1>3. Complete("main") /\ Complete("bak")
  BY <1>1, <1>2 DEF Complete
<1> QED
  BY <1>1, <1>2, <1>3 DEF Init, CopiesInv

\* A step that leaves both copies alone keeps what is known of them.
LEMMA CompleteUnchanged ==
  ASSUME UNCHANGED <<img, backed, destBak>>, NEW c PROVE Complete(c)' <=> Complete(c)
  BY DEF Complete

LEMMA CopiesStep ==
  ASSUME Ordered, MaxFaults = 0, MaxBadImages = 0, GptInv, CopiesInv, [Next]_vars
  PROVE  CopiesInv'
<1> USE DEF GptInv
<1>a. destBak' = destBak /\ backed' = backed
  BY DEF Next, Script, Environment, CheckStage, ChainHeader, ChainEntries, ChainEntriesEnd,
         SetPrimary, SetSecondary, IoFault, Exit, FlashDone, PowerLoss, Reapply, Restart,
         Finished, BeginInstall, EndInstall, FailInstall, WriteBack, vars, env
<1>1. CASE CheckStage
  <2>1. UNCHANGED <<dev, img, stage>> /\ pc' # "flash"
    BY <1>1 DEF CheckStage, Return, Goto
  <2> DEFINE internal == InternalStage(gpt_get_state(dev.ph), gpt_get_state(dev.sh))
  <2>2. ASSUME ret' # 0, pc' = "exit"
        PROVE  internal = 0 \/ StageNo(stage) \notin {internal - 1, internal}
    BY <1>1, <2>2 DEF CheckStage, Return, Goto
  <2>3. ASSUME ~dev.ph.sig PROVE internal = 2
    BY <2>3 DEF InternalStage, gpt_get_state, TablesInv, Usable
  <2>4. ASSUME ~dev.sh.sig PROVE internal = 3
    BY <2>4 DEF InternalStage, gpt_get_state, TablesInv, Usable
  <2>5. pc' = "exit" /\ ret' # 0 /\ stage = "main" => dev.ph.sig
    BY <2>2, <2>3 DEF StageNo
  <2>6. pc' = "exit" /\ ret' # 0 /\ stage = "backup" => dev.sh.sig
    BY <2>2, <2>4 DEF StageNo
  <2> QED
    BY <1>a, <2>1, <2>5, <2>6, CompleteUnchanged DEF CopiesInv
<1>2. CASE ChainHeader
  <2>1. UNCHANGED <<img, stage>> /\ pc' # "flash"
    BY <1>2 DEF ChainHeader, Return, Goto
  <2>2. dev'.ph = dev.ph /\ (dev'.sh.sig <=> dev.sh.sig)
    <3> DEFINE h == [sig |-> dev.sh.sig, hcrc |-> TRUE, pcrc |-> NewChain]
    <3>1. dev' = dev \/ WriteSecondary(h)
      BY <1>2 DEF ChainHeader
    <3>2. CASE WriteSecondary(h)
      <4>1. dev'.ph = dev.ph /\ dev'.sh = h
        BY <3>2, Writes
      <4> QED
        BY <4>1
    <3> QED
      BY <3>1, <3>2
  <2>3. dev.ph.sig /\ stage # "backup"
    BY <1>2 DEF ChainHeader, ControlInv
  <2> QED
    BY <1>a, <2>1, <2>2, <2>3, CompleteUnchanged DEF CopiesInv
<1>3. CASE ChainEntries \/ ChainEntriesEnd
  <2>1. UNCHANGED <<img, stage>> /\ pc' # "flash" /\ pc' # "exit"
    BY <1>3 DEF ChainEntries, ChainEntriesEnd, Goto
  <2>2. dev'.ph = dev.ph /\ dev'.sh = dev.sh
    BY <1>3, Writes DEF ChainEntries, ChainEntriesEnd
  <2> QED
    BY <1>a, <2>1, <2>2, CompleteUnchanged DEF CopiesInv
<1>4. CASE SetPrimary
  <2>1. UNCHANGED <<img, stage>> /\ pc' # "flash" /\ (pc' = "exit" => ret' = 0)
    BY <1>4 DEF SetPrimary, Return, Goto
  <2>2. dev'.sh = dev.sh
    BY <1>4, Writes DEF SetPrimary
  <2>3. ASSUME stage # "backup" PROVE ~dev'.ph.sig
    <3> DEFINE h == [sig |-> FALSE, hcrc |-> TRUE, pcrc |-> dev.ph.pcrc]
    <3>1. WritePrimary(h)
      BY <1>4, <2>3 DEF SetPrimary, gpt_set_state
    <3>2. dev'.ph = h
      BY <3>1, Writes
    <3> QED
      BY <3>2
  <2> QED
    BY <1>a, <2>1, <2>2, <2>3, CompleteUnchanged DEF CopiesInv
<1>5. CASE SetSecondary
  <2>1. UNCHANGED <<img, stage>> /\ pc' # "flash" /\ ret' = 0
    BY <1>5 DEF SetSecondary, Return
  <2>2. dev'.ph = dev.ph
    BY <1>5, Writes DEF SetSecondary
  <2>3. ASSUME stage # "finalize" PROVE ~dev'.sh.sig
    <3> DEFINE h == [sig |-> FALSE, hcrc |-> TRUE, pcrc |-> dev.sh.pcrc]
    <3>1. WriteSecondary(h)
      BY <1>5, <2>3 DEF SetSecondary, gpt_set_state
    <3>2. dev'.sh = h
      BY <3>1, Writes
    <3> QED
      BY <3>2
  <2> QED
    BY <1>a, <2>1, <2>2, <2>3, CompleteUnchanged DEF CopiesInv
<1>6. CASE IoFault
  BY <1>6 DEF IoFault, TypeOK
<1>7. CASE Exit
  <2>1. UNCHANGED <<img, dev>> /\ pc' # "exit"
    BY <1>7 DEF Exit, ReturnToScript, NextStage
  <2>2. stage' = "backup" => Complete("main")
    BY <1>7 DEF Exit, ReturnToScript, NextStage, CopiesInv
  <2>3. stage' = "finalize" => Complete("bak")
    BY <1>7 DEF Exit, ReturnToScript, NextStage, CopiesInv
  <2>4. pc' = "flash" => stage' = stage /\ todo' = InstallList
    BY <1>7 DEF Exit, ReturnToScript, NextStage
  <2> QED
    BY <1>a, <2>1, <2>2, <2>3, <2>4, CompleteUnchanged DEF CopiesInv, InstallList
<1>8. ASSUME NEW p \in Parts, BeginInstall(p) \/ EndInstall(p) PROVE CopiesInv'
  <2> DEFINE v == IF BeginInstall(p) THEN "torn" ELSE "new"
  <2>1. /\ UNCHANGED <<dev, stage, pc>> /\ pc = "flash"
        /\ img' = [img EXCEPT ![Target][p] = v]
        /\ p \in todo /\ (todo' = todo \/ (todo' = todo \ {p} /\ v = "new"))
    BY <1>8 DEF BeginInstall, EndInstall
  <2> HIDE DEF v
  <2>2. CASE stage = "main"
    <3>1. \A q \in Parts : /\ img'["bak"][q] = img["bak"][q]
                           /\ img'["main"][q] = IF q = p THEN v ELSE img["main"][q]
      BY <2>1, <2>2 DEF Target, TypeOK, Copies
    <3>2. Complete("bak")' <=> Complete("bak")
      BY <3>1, <1>a DEF Complete, TypeOK
    <3>3. dev.ph.sig => Complete("main")'
      <4>1. CASE backed = {}
        BY <4>1, <1>a DEF Complete, TypeOK
      <4> QED
        BY <2>1, <2>2, <4>1 DEF FlashInv
    <3>4. \A q \in Files \ todo' : img'["main"][q] = "new"
      BY <2>1, <2>2, <3>1, BootUpdateAssumption DEF CopiesInv
    <3>5. \A q \in Parts, c \in Copies : q \notin Files => img'[c][q] = "old"
      BY <2>1, <3>1 DEF CopiesInv, TypeOK, Copies
    <3>6. \A q \in Parts \ destBak : img'["bak"][q] = "old"
      BY <3>1 DEF CopiesInv
    <3> QED
      BY <1>a, <2>1, <2>2, <3>2, <3>3, <3>4, <3>5, <3>6 DEF CopiesInv
  <2>3. CASE stage = "backup"
    <3>1. \A q \in Parts : /\ img'["main"][q] = img["main"][q]
                           /\ img'["bak"][q] = IF q = p THEN v ELSE img["bak"][q]
      BY <2>1, <2>3 DEF Target, TypeOK, Copies
    <3>2. Complete("main")' <=> Complete("main")
      BY <3>1, <1>a DEF Complete, TypeOK
    <3>3. ~dev.sh.sig
      BY <2>1, <2>3 DEF FlashInv
    <3>4. todo' \subseteq destBak /\ \A q \in destBak \ todo' : img'["bak"][q] = "new"
      BY <2>1, <2>3, <3>1, BootUpdateAssumption DEF CopiesInv, TypeOK
    <3>5. \A q \in Parts, c \in Copies : q \notin Files => img'[c][q] = "old"
      BY <2>1, <3>1 DEF CopiesInv, TypeOK, Copies
    <3>6. \A q \in Parts \ destBak : img'["bak"][q] = "old"
      BY <2>1, <2>3, <3>1 DEF CopiesInv
    <3> QED
      BY <1>a, <2>1, <2>3, <3>2, <3>3, <3>4, <3>5, <3>6 DEF CopiesInv
  <2> QED
    BY <2>1, <2>2, <2>3 DEF FlashInv, TypeOK
<1>9. CASE \E p \in Parts : FailInstall(p)
  BY <1>9 DEF FailInstall, TypeOK
<1>10. CASE FlashDone
  <2>1. UNCHANGED <<img, dev>> /\ pc' # "exit" /\ pc' # "flash" /\ pc = "flash" /\ todo = {}
    BY <1>10 DEF FlashDone, NextStage
  <2>2. stage' = "backup" => Complete("main")
    <3> SUFFICES ASSUME stage = "main" PROVE Complete("main")
      BY <1>10 DEF FlashDone, NextStage
    <3> QED
      BY <2>1 DEF CopiesInv, Complete, TypeOK, Copies
  <2>3. stage' = "finalize" => Complete("bak")
    <3> SUFFICES ASSUME stage = "backup" PROVE Complete("bak")
      BY <1>10, <2>1 DEF FlashDone, NextStage, FlashInv
    <3>1. \A p \in Parts : img["bak"][p] = IF p \in destBak THEN "new" ELSE "old"
      BY <2>1 DEF CopiesInv, TypeOK
    <3> QED
      BY <3>1 DEF Complete, TypeOK
  <2> QED
    BY <1>a, <2>1, <2>2, <2>3, CompleteUnchanged DEF CopiesInv
<1>11. CASE PowerLoss \/ Reapply \/ Restart
  <2>1. UNCHANGED img /\ dev' = dev /\ stage' \in {"main", stage} /\ pc' # "exit" /\ pc' # "flash"
    BY <1>11 DEF PowerLoss, Reapply, Restart, SyncInv
  <2> QED
    BY <1>a, <2>1, CompleteUnchanged DEF CopiesInv
<1>12. CASE \E b \in {"ph", "sh", "se"} : WriteBack(b)
  BY <1>12 DEF WriteBack
<1>13. CASE UNCHANGED vars
  BY <1>a, <1>13, CompleteUnchanged DEF vars, CopiesInv
<1> QED
  BY <1>1, <1>2, <1>3, <1>4, <1>5, <1>6, <1>7, <1>8, <1>9, <1>10, <1>11, <1>12, <1>13
  DEF Next, Script, Environment, Finished

LEMMA CopiesInvariant ==
  ASSUME Ordered, MaxFaults = 0, MaxBadImages = 0 PROVE Spec => [](GptInv /\ CopiesInv)
<1>1. Init => GptInv /\ CopiesInv
  BY TypeInit, TablesInit, CopiesInit DEF GptInv
<1>2. GptInv /\ CopiesInv /\ [Next]_vars => (GptInv /\ CopiesInv)'
  BY TypeStep, SyncStep, TablesStep, CopiesStep DEF GptInv, Synced
<1> QED
  BY <1>1, <1>2, PTL DEF Spec

\* The copy the ROM loads is complete.
LEMMA LoadedComplete ==
  ASSUME Ordered, GptInv, CopiesInv
  PROVE  \/ Complete("main") /\ \A p \in backed : RomChain[p] = "main"
         \/ Complete("bak") /\ \A p \in backed : RomChain[p] = "bak"
<1>1. CASE dev.ph.sig
  BY <1>1, RomChainIs, ChainCopies DEF GptInv, CopiesInv
<1>2. CASE ~dev.ph.sig
  <2>1. dev.sh.sig
    BY <1>2 DEF GptInv, TablesInv, Usable
  <2> QED
    BY <1>2, <2>1, RomChainIs, ChainCopies DEF GptInv, CopiesInv
<1> QED
  BY <1>1, <1>2

(***************************************************************************)
(* When the eMMC sees the GPT writes in order and neither GPT I/O nor an   *)
(* installer fails, the device can be booted after a power loss at any     *)
(* instant, for any number of power losses and reruns.                     *)
(***************************************************************************)
THEOREM AlwaysBootable ==
  ASSUME Ordered, MaxFaults = 0, MaxBadImages = 0 PROVE Spec => []Bootable
<1>1. GptInv /\ CopiesInv => Bootable
  <2> SUFFICES ASSUME GptInv, CopiesInv PROVE Bootable
    OBVIOUS
  <2>1. RomFindsGpt
    BY DEF GptInv, SyncInv, TablesInv, RomFindsGpt
  <2>2. ChainWhole
    BY LoadedComplete DEF ChainWhole, Complete
  <2> QED
    BY <2>1, <2>2 DEF Bootable
<1> QED
  BY <1>1, CopiesInvariant, PTL

(***************************************************************************)
(* Under the same assumptions the chain the ROM loads is of one release.   *)
(***************************************************************************)
THEOREM ChainAlwaysUniform ==
  ASSUME Ordered, MaxFaults = 0, MaxBadImages = 0 PROVE Spec => []ChainUniform
<1>1. GptInv /\ CopiesInv => ChainUniform
  <2> SUFFICES ASSUME GptInv, CopiesInv PROVE ChainUniform
    OBVIOUS
  <2>1. destBak \subseteq backed
    BY DEF GptInv, TypeOK
  <2> QED
    BY <2>1, LoadedComplete DEF ChainUniform, Complete
<1> QED
  BY <1>1, CopiesInvariant, PTL
-----------------------------------------------------------------------------
\* The copy of the refinement mapping: the signature of the primary header
\* alone decides.
LEMMA LoadedIs ==
  ASSUME Ordered PROVE GptInv => LoadedCopy = IF dev.ph.sig THEN "main" ELSE "bak"
<1> SUFFICES ASSUME GptInv PROVE LoadedCopy = IF dev.ph.sig THEN "main" ELSE "bak"
  OBVIOUS
<1>1. CASE dev.ph.sig
  <2>1. \A p \in backed : RomChain[p] # "bak"
    BY <1>1, RomChainIs, ChainCopies DEF GptInv
  <2> QED
    BY <1>1, <2>1 DEF LoadedCopy
<1>2. CASE ~dev.ph.sig
  <2>1. backed # {} /\ \A p \in backed : RomChain[p] = "bak"
    BY <1>2, RomChainIs, ChainCopies DEF GptInv, TablesInv
  <2> QED
    BY <1>2, <2>1 DEF LoadedCopy
<1> QED
  BY <1>1, <1>2

\* A header that is good vouches for the copy that is loaded.
LEMMA LoadedIsComplete ==
  ASSUME Ordered PROVE GptInv /\ CopiesInv => AB!Complete(LoadedCopy)
<1> SUFFICES ASSUME GptInv, CopiesInv PROVE AB!Complete(LoadedCopy)
  OBVIOUS
<1>1. Complete(LoadedCopy)
  <2>1. dev.ph.sig \/ dev.sh.sig
    BY DEF GptInv, TablesInv, Usable
  <2> QED
    BY <2>1, LoadedIs DEF CopiesInv
<1> QED
  BY <1>1 DEF Complete, AB!Complete

LEMMA RefinesInit == ASSUME Ordered PROVE Init => AB!Init
<1> SUFFICES ASSUME Init PROVE AB!Init
  OBVIOUS
<1>1. LoadedCopy = "main"
  <2>1. dev.ph.sig
    BY DEF Init, InitHeaders
  <2> QED
    BY <2>1, TypeInit, TablesInit, LoadedIs DEF GptInv
<1>2. img = [c \in AB!Copies |-> [p \in Parts |-> "old"]]
  BY DEF Init, Copies, AB!Copies
<1> QED
  BY <1>1, <1>2 DEF Init, AB!Init

LEMMA RefinesStep ==
  ASSUME Ordered, GptInv, GptInv', CopiesInv, CopiesInv', [Next]_vars
  PROVE  [AB!Next]_AB!vars
<1>1. backed' = backed /\ destBak' = destBak
  BY DEF Next, Script, Environment, CheckStage, ChainHeader, ChainEntries, ChainEntriesEnd,
         SetPrimary, SetSecondary, IoFault, Exit, FlashDone, PowerLoss, Reapply, Restart,
         Finished, BeginInstall, EndInstall, FailInstall, WriteBack, vars, env
<1>2. ASSUME NEW p \in Parts, BeginInstall(p) \/ EndInstall(p) PROVE AB!Next
  <2> DEFINE v == IF BeginInstall(p) THEN "torn" ELSE "new"
  <2>1. pc = "flash" /\ dev' = dev /\ img' = [img EXCEPT ![Target][p] = v]
    BY <1>2 DEF BeginInstall, EndInstall
  <2>2. v \in AB!Images /\ Target \in AB!Copies
    BY DEF AB!Images, AB!Copies, Target
  <2> HIDE DEF v
  <2>3. p \in backed => Target # LoadedCopy
    <3>1. stage = "main" \/ stage = "backup"
      BY <2>1 DEF GptInv, FlashInv, TypeOK
    <3>2. CASE stage = "main"
      BY <2>1, <3>2, LoadedIs DEF Target, GptInv, FlashInv
    <3>3. CASE stage = "backup"
      <4>1. dev.ph.sig
        BY <2>1, <3>3 DEF GptInv, FlashInv, TablesInv, Usable
      <4> QED
        BY <3>3, <4>1, LoadedIs DEF Target
    <3> QED
      BY <3>1, <3>2, <3>3
  <2>4. LoadedCopy' = LoadedCopy
    <3>1. (GptInv => LoadedCopy = IF dev.ph.sig THEN "main" ELSE "bak")'
      BY LoadedIs, PTL
    <3> QED
      BY <2>1, <3>1, LoadedIs
  <2>5. AB!WriteImage(Target, p, v)
    BY <1>1, <2>1, <2>3, <2>4 DEF AB!WriteImage
  <2> QED
    BY <2>2, <2>5 DEF AB!Next
<1>3. CASE UNCHANGED img
  <2>1. CASE LoadedCopy' = LoadedCopy
    BY <1>1, <1>3, <2>1 DEF AB!vars
  <2>2. CASE LoadedCopy' # LoadedCopy
    <3>1. LoadedCopy' \in AB!Copies
      BY DEF LoadedCopy, AB!Copies
    <3>2. AB!Complete(LoadedCopy)'
      BY LoadedIsComplete, PTL
    <3>3. AB!Complete(LoadedCopy')
      BY <1>1, <1>3, <3>2 DEF AB!Complete
    <3>4. AB!Switch(LoadedCopy')
      BY <1>1, <1>3, <3>3 DEF AB!Switch
    <3> QED
      BY <3>1, <3>4 DEF AB!Next
  <2> QED
    BY <2>1, <2>2
<1>4. UNCHANGED img \/ \E p \in Parts : BeginInstall(p) \/ EndInstall(p)
  BY DEF Next, Script, Environment, CheckStage, ChainHeader, ChainEntries, ChainEntriesEnd,
         SetPrimary, SetSecondary, IoFault, Exit, FlashDone, PowerLoss, Reapply, Restart,
         Finished, FailInstall, WriteBack, vars
<1> QED
  BY <1>2, <1>3, <1>4

(***************************************************************************)
(* When the eMMC sees the GPT writes in order and nothing fails but the    *)
(* power, the update implements the abstract one: every sector write,      *)
(* crash and restart is a write of the copy that is not loaded, a switch   *)
(* to a complete copy, or no step at all.                                  *)
(***************************************************************************)
THEOREM UpdateImplementsAB ==
  ASSUME Ordered, MaxFaults = 0, MaxBadImages = 0 PROVE Spec => ImplementsAB
<1>1. GptInv /\ CopiesInv /\ GptInv' /\ CopiesInv' /\ [Next]_vars => [AB!Next]_AB!vars
  BY RefinesStep
<1> QED
  BY <1>1, RefinesInit, CopiesInvariant, PTL DEF Spec, ImplementsAB, AB!Spec
=============================================================================
