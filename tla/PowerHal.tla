------------------------------ MODULE PowerHal ------------------------------
(***************************************************************************)
(* The power HAL (power.c, utils.c, list.c, with power-8909.c for this     *)
(* board): hints of the framework become locks of the performance library, *)
(* kept in a list by hint id, or, under the governor msm-dcvs, values      *)
(* written to sysfs nodes.  What a call does depends on the governor it    *)
(* finds, which anyone may change between two calls.                       *)
(***************************************************************************)
EXTENDS Integers, Sequences, FiniteSets

CONSTANTS
  PwNodes,     \* the slack nodes of set_interactive
  PwGovernors, \* the governors that occur
  PwMaxCalls   \* bound on the calls of the framework

ASSUME PowerAssumption ==
  /\ PwGovernors \subseteq {"ondemand", "interactive", "msm-dcvs", "other", "unreadable"}
  /\ PwMaxCalls \in Nat

VARIABLES
  pwGovernor,
  pwHints,    \* active_hint_list_head: pairs of hint id and lock handle, newest first
  pwHeld,     \* the locks the performance library holds
  pwSent,     \* display_hint_sent
  pwMode,     \* saved_interactive_mode
  pwSaved,    \* saved_dcvs_cpu0_slack_max and the other three; -1 for none
  pwNode,     \* the nodes.  A value is the power of ten by which it exceeds the first.
  pwActive,   \* history: the videos under way, by hint id
  pwCalls,    \* calls so far, which also number the locks
  pwPast      \* history: what happened out of turn

pwVars == <<pwGovernor, pwHints, pwHeld, pwSent, pwMode, pwSaved, pwNode, pwActive, pwCalls, pwPast>>

PwVideo == {"encode", "decode"}   \* DEFAULT_VIDEO_ENCODE_HINT_ID, DEFAULT_VIDEO_DECODE_HINT_ID

PwInit ==
  /\ pwGovernor \in PwGovernors
  /\ pwHints = <<>> /\ pwHeld = {} /\ pwSent = FALSE /\ pwMode = -1
  /\ pwSaved = [n \in PwNodes |-> -1] /\ pwNode = [n \in PwNodes |-> 0]
  /\ pwActive = [v \in PwVideo |-> 0] /\ pwCalls = 0 /\ pwPast = {}

PwCall == pwCalls < PwMaxCalls /\ pwCalls' = pwCalls + 1
-----------------------------------------------------------------------------
\* Mutant: a lock that cannot be kept track of stays.
perform_hint_actionKeeps(id) ==
  LET handle == pwCalls + 1
  IN  \/ /\ pwHints' = <<<<id, handle>>>> \o pwHints /\ pwHeld' = pwHeld \cup {handle}
         /\ UNCHANGED pwPast
      \/ UNCHANGED pwHints /\ pwHeld' = pwHeld \cup {handle} /\ pwPast' = pwPast \cup {"failed"}

\* The lock is put at the head of the list; or it is not acquired, or is
\* released again because malloc fails; or that release fails too.
perform_hint_action(id) ==
  LET handle == pwCalls + 1
  IN  \/ /\ pwHints' = <<<<id, handle>>>> \o pwHints /\ pwHeld' = pwHeld \cup {handle}
         /\ UNCHANGED pwPast
      \/ UNCHANGED <<pwHints, pwHeld>> /\ pwPast' = pwPast \cup {"failed"}
      \/ /\ UNCHANGED pwHints /\ pwHeld' = pwHeld \cup {handle}
         /\ pwPast' = pwPast \cup {"failed", "stuck"}

PwWithout(k) == SubSeq(pwHints, 1, k - 1) \o SubSeq(pwHints, k + 1, Len(pwHints))

\* find_node and remove_list_node: the newest lock of the hint; releasing it may fail.
undo_hint_action(id) ==
  LET found == {k \in DOMAIN pwHints : pwHints[k][1] = id}
      first == CHOOSE k \in found : \A j \in found : k <= j
  IN  \/ found = {} /\ UNCHANGED <<pwHints, pwHeld, pwPast>>
      \/ found # {} /\ pwHints' = PwWithout(first)
         /\ pwHeld' = pwHeld \ {pwHints[first][2]} /\ UNCHANGED pwPast
      \/ found # {} /\ pwHints' = PwWithout(first)
         /\ UNCHANGED pwHeld /\ pwPast' = pwPast \cup {"stuck"}
-----------------------------------------------------------------------------
\* Which governors' branches act on the start and on the end of a video.  For
\* decoding, the branch of ondemand at the end is empty.
PwPerforms(v) == pwGovernor \in (IF v = "encode" THEN {"interactive"} ELSE {"ondemand", "interactive"})
PwUndoes(v)   == pwGovernor = "interactive"

\* process_video_encode_hint of power-8909.c, process_video_decode_hint of
\* power.c; metadata without a state of 0 or 1 does nothing.
PwVideoStarts(v) ==
  /\ PwCall
  /\ pwActive' = [pwActive EXCEPT ![v] = @ + 1]
  /\ \/ PwPerforms(v) /\ perform_hint_action(v)
     \/ ~PwPerforms(v) /\ pwPast' = pwPast \cup {"failed"} /\ UNCHANGED <<pwHints, pwHeld>>
  /\ UNCHANGED <<pwGovernor, pwSent, pwMode, pwSaved, pwNode>>

PwVideoEnds(v) ==
  /\ PwCall /\ pwActive[v] > 0
  /\ pwActive' = [pwActive EXCEPT ![v] = @ - 1]
  /\ \/ PwUndoes(v) /\ undo_hint_action(v)
     \/ /\ ~PwUndoes(v) /\ UNCHANGED <<pwHints, pwHeld>>
        /\ pwPast' = pwPast \cup (IF pwGovernor = "ondemand" /\ v = "decode" THEN {"kept"} ELSE {})
  /\ UNCHANGED <<pwGovernor, pwSent, pwMode, pwSaved, pwNode>>
-----------------------------------------------------------------------------
\* set_interactive(off) under ondemand and interactive.
PwDisplayOff ==
  /\ \/ ~pwSent /\ perform_hint_action("display") /\ pwSent' = TRUE
     \/ pwSent /\ UNCHANGED <<pwHints, pwHeld, pwSent, pwPast>>
  /\ UNCHANGED <<pwSaved, pwNode>>

PwDisplayOn ==
  /\ undo_hint_action("display") /\ pwSent' = FALSE
  /\ UNCHANGED <<pwSaved, pwNode>>

PwUnreached(failed) == IF failed = {} THEN {} ELSE {"unreached"}

\* msm-dcvs, display off after on: each node is read, and written ten times
\* the last value that could be read.
PwSlackOff ==
  \/ /\ pwMode = 1
     /\ \E unread, unwritten \in SUBSET PwNodes :
          /\ pwSaved' = [n \in PwNodes |-> IF n \in unread THEN pwSaved[n] ELSE pwNode[n]]
          /\ pwNode' = [n \in PwNodes |-> IF n \in unwritten \/ pwSaved'[n] = -1 THEN pwNode[n]
                                          ELSE pwSaved'[n] + 1]
          /\ pwPast' = pwPast \cup PwUnreached(unread \cup unwritten)
     /\ UNCHANGED <<pwHints, pwHeld, pwSent>>
  \/ pwMode # 1 /\ UNCHANGED <<pwHints, pwHeld, pwSent, pwSaved, pwNode, pwPast>>

\* msm-dcvs, display on after off, or for the first time.
PwSlackOn ==
  \/ /\ pwMode # 1
     /\ \E unwritten \in SUBSET PwNodes :
          /\ pwNode' = [n \in PwNodes |-> IF n \in unwritten \/ pwSaved[n] = -1 THEN pwNode[n]
                                          ELSE pwSaved[n]]
          /\ pwPast' = pwPast \cup PwUnreached(unwritten)
     /\ UNCHANGED <<pwHints, pwHeld, pwSent, pwSaved>>
  \/ pwMode = 1 /\ UNCHANGED <<pwHints, pwHeld, pwSent, pwSaved, pwNode, pwPast>>

\* set_interactive; without a governor it returns before the mode is saved.
set_interactive(on) ==
  /\ PwCall
  /\ \/ pwGovernor \in {"ondemand", "interactive"} /\ ~on /\ PwDisplayOff
     \/ pwGovernor \in {"ondemand", "interactive"} /\ on /\ PwDisplayOn
     \/ pwGovernor = "msm-dcvs" /\ ~on /\ PwSlackOff
     \/ pwGovernor = "msm-dcvs" /\ on /\ PwSlackOn
     \/ /\ pwGovernor \in {"other", "unreadable"}
        /\ UNCHANGED <<pwHints, pwHeld, pwSent, pwSaved, pwNode, pwPast>>
  /\ pwMode' = IF pwGovernor = "unreadable" THEN pwMode ELSE IF on THEN 1 ELSE 0
  /\ UNCHANGED <<pwGovernor, pwActive>>

\* Someone writes scaling_governor; it is out of turn while a hint is in force.
PwSwitches(g) ==
  /\ PwCall /\ g # pwGovernor
  /\ pwGovernor' = g
  /\ pwPast' = pwPast \cup (IF \E v \in PwVideo : pwActive[v] > 0 THEN {"switched"} ELSE {})
                     \cup (IF pwMode = 0 THEN {"switchedDark"} ELSE {})
  /\ UNCHANGED <<pwHints, pwHeld, pwSent, pwMode, pwSaved, pwNode, pwActive>>

PwNext ==
  \/ \E v \in PwVideo : PwVideoStarts(v) \/ PwVideoEnds(v)
  \/ \E on \in BOOLEAN : set_interactive(on)
  \/ \E g \in PwGovernors : PwSwitches(g)

PwSpec == PwInit /\ [][PwNext]_pwVars
-----------------------------------------------------------------------------
PwOdd(what) == pwPast \cap what # {}
PwLocks(id) == {k \in DOMAIN pwHints : pwHints[k][1] = id}

PwTypeOK ==
  /\ pwHints \in Seq((PwVideo \cup {"display"}) \X (1..PwMaxCalls))
  /\ pwHeld \subseteq 1..PwMaxCalls /\ pwMode \in {-1, 0, 1}
  /\ \A n \in PwNodes : pwNode[n] \in Nat /\ pwSaved[n] \in Nat \cup {-1}

(***************************************************************************)
(* What a hint changed is changed back when it ends:                       *)
(*  - every lock the library holds is in the list, once, so that some undo *)
(*    can release it, also after malloc failed; but a lock whose release   *)
(*    failed is forgotten ("stuck");                                       *)
(*  - however often the display goes on and off and under whatever         *)
(*    governors, there is one display lock at most, and none that          *)
(*    display_hint_sent does not know of;                                  *)
(*  - a video has its lock as long as it runs and no longer, unless the    *)
(*    lock could not be had, the governor was changed meanwhile            *)
(*    ("switched": the branch of the other governor does not undo), or a   *)
(*    decoding ended under ondemand, whose branch is empty ("kept");       *)
(*  - while the display is on the slack nodes have their first values,     *)
(*    unless a node could not be read or written, or the governor was      *)
(*    changed while the display was off: then the scaled values are taken  *)
(*    for the originals, and each round multiplies them by ten again.      *)
(***************************************************************************)
HintsUndone ==
  /\ pwHeld = {pwHints[k][2] : k \in DOMAIN pwHints} \/ PwOdd({"stuck"})
  /\ \A j, k \in DOMAIN pwHints : pwHints[j][2] = pwHints[k][2] => j = k
  /\ \A j, k \in PwLocks("display") : j = k /\ pwSent
  /\ \A v \in PwVideo :
       Cardinality(PwLocks(v)) = pwActive[v] \/ PwOdd({"failed", "switched", "kept"})
  /\ pwMode = 1 => (\A n \in PwNodes : pwNode[n] = 0) \/ PwOdd({"unreached", "switchedDark"})
=============================================================================
