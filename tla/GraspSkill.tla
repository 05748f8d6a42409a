----------------------------- MODULE GraspSkill -----------------------------
(***************************************************************************)
(* The grasp that skills/so101/main (and its copy for rebot) keeps on disk *)
(* between tool calls.  octos runs each tool call in a process of its own, *)
(* one after the other, and kills one that exceeds timeout_secs.  pick_at  *)
(* and place_at of the external skill pack move the arm and set or read    *)
(* _pick_xy and _grasp_R, which a process has in memory only; main saves   *)
(* them after pick_at and restores them before place_at.                   *)
(*                                                                         *)
(* A grasp is named by the number of the call that picked; 0 is None.      *)
(***************************************************************************)
EXTENDS Naturals

CONSTANTS
  MaxCalls,  \* bound on the tool calls
  Absent,    \* no state file
  Torn       \* a state file that has been opened for writing, and no more

Ids == 0 .. MaxCalls
Grasps == [pick_xy : Ids, grasp_R : Ids]

ASSUME GraspSkillAssumption ==
  /\ MaxCalls \in Nat
  /\ Absent # Torn
  /\ Absent \notin Grasps /\ Torn \notin Grasps

VARIABLES
  pc,        \* "idle", or where the process of the running call is
  calls,     \* the calls made so far; the number of the running one
  mem,       \* _pick_xy and _grasp_R in the running process
  stateFile, \* the file state_file
  ok,        \* what the running call will report
  held,      \* the pick whose object the gripper holds
  lastPick,  \* history: the last pick_at
  saved,     \* history: the last pick_at that reported success and saved it
  placed,    \* history: the last pick_at or place_at was a place_at that
             \* reported success
  trouble    \* history: "killed" if a process was, "write" and "read" if
             \* the file could not be written or removed, or read

historyVars == <<lastPick, saved, placed, trouble>>
vars == <<pc, calls, mem, stateFile, ok, held, historyVars>>

Empty == [pick_xy |-> 0, grasp_R |-> 0]

TypeOK ==
  /\ pc \in {"idle", "picking", "opening", "writing",
             "restoring", "placing", "removing"}
  /\ calls \in Ids /\ held \in Ids /\ lastPick \in Ids /\ saved \in Ids
  /\ mem \in Grasps
  /\ stateFile \in Grasps \cup {Absent, Torn}
  /\ ok \in BOOLEAN /\ placed \in BOOLEAN
  /\ trouble \subseteq {"killed", "write", "read"}

Init ==
  /\ pc = "idle" /\ calls = 0
  /\ mem = Empty /\ stateFile = Absent /\ ok = FALSE
  /\ held = 0
  /\ lastPick = 0 /\ saved = 0 /\ placed = FALSE /\ trouble = {}

-----------------------------------------------------------------------------
(* A fresh process has imported the skill pack, whose state is None.       *)
Spawn(place) ==
  /\ pc = "idle"
  /\ calls < MaxCalls
  /\ calls' = calls + 1
  /\ mem' = Empty
  /\ pc' = place
  /\ UNCHANGED <<stateFile, ok, held>>

PickAt ==
  /\ Spawn("picking")
  /\ lastPick' = calls'
  /\ placed' = FALSE
  /\ UNCHANGED <<saved, trouble>>

PlaceAt ==
  /\ Spawn("restoring")
  /\ UNCHANGED historyVars

(* What the gripper may hold after an attempt to pick or to place.         *)
AfterPick == {0, held, calls}
AfterPlace == {0, held}

(* arm_skills.pick_at returns.  A success has both variables and the       *)
(* object; an ERROR or a WARNING may come at any point before.             *)
PickReturns ==
  /\ pc = "picking"
  /\ ok' \in BOOLEAN
  /\ mem' \in [pick_xy : {0, calls}, grasp_R : {0, calls}]
  /\ held' \in AfterPick
  /\ ok' => held' = calls /\ mem' = [pick_xy |-> calls, grasp_R |-> calls]
  /\ pc' = "opening"
  /\ UNCHANGED <<calls, stateFile, historyVars>>

(* _save_grasp_state, whatever pick_at reported: open(..., "w") truncates. *)
SaveOpens ==
  /\ pc = "opening"
  /\ stateFile' = Torn
  /\ pc' = "writing"
  /\ UNCHANGED <<calls, mem, ok, held, historyVars>>

(* json.dump and close: so small a file is written at once.                *)
SaveWrites ==
  /\ pc = "writing"
  /\ stateFile' = mem
  /\ saved' = IF ok THEN calls ELSE saved
  /\ pc' = "idle"
  /\ UNCHANGED <<calls, mem, ok, held, lastPick, placed, trouble>>

(* An OSError is passed over.                                              *)
SaveFails ==
  /\ pc \in {"opening", "writing"}
  /\ trouble' = trouble \cup {"write"}
  /\ pc' = "idle"
  /\ UNCHANGED <<calls, mem, stateFile, ok, held, lastPick, saved, placed>>

(* Mutant: what is in the file is taken for a grasp.                       *)
RestoreUnchecked ==
  /\ pc = "restoring"
  /\ mem' = stateFile
  /\ pc' = "placing"
  /\ UNCHANGED <<calls, stateFile, ok, held, historyVars>>

(* _restore_grasp_state: no file and a torn file (a ValueError) restore    *)
(* nothing.                                                                *)
Restore ==
  /\ pc = "restoring"
  /\ mem' = IF stateFile \in Grasps THEN stateFile ELSE mem
  /\ pc' = "placing"
  /\ UNCHANGED <<calls, stateFile, ok, held, historyVars>>

RestoreFails ==
  /\ pc = "restoring"
  /\ trouble' = trouble \cup {"read"}
  /\ pc' = "placing"
  /\ UNCHANGED <<calls, mem, stateFile, ok, held, lastPick, saved, placed>>

(* Mutant: the file is removed however place_at ended.                     *)
PlaceAlwaysRemoves ==
  /\ pc = "placing"
  /\ ok' \in BOOLEAN
  /\ held' \in AfterPlace
  /\ ok' => held' = 0
  /\ pc' = "removing"
  /\ placed' = ok'
  /\ UNCHANGED <<calls, mem, stateFile, lastPick, saved, trouble>>

(* arm_skills.place_at returns.  Only a success removes the file.          *)
PlaceReturns ==
  /\ pc = "placing"
  /\ ok' \in BOOLEAN
  /\ held' \in AfterPlace
  /\ ok' => held' = 0
  /\ pc' = IF ok' THEN "removing" ELSE "idle"
  /\ placed' = ok'
  /\ UNCHANGED <<calls, mem, stateFile, lastPick, saved, trouble>>

(* Mutant: os.remove is forgotten.                                         *)
RemoveNothing ==
  /\ pc = "removing"
  /\ pc' = "idle"
  /\ UNCHANGED <<calls, mem, stateFile, ok, held, historyVars>>

Remove ==
  /\ pc = "removing"
  /\ stateFile' = Absent
  /\ pc' = "idle"
  /\ UNCHANGED <<calls, mem, ok, held, historyVars>>

(* An OSError is passed over; a missing file is one.                       *)
RemoveFails ==
  /\ pc = "removing"
  /\ trouble' = trouble \cup (IF stateFile = Absent THEN {} ELSE {"write"})
  /\ pc' = "idle"
  /\ UNCHANGED <<calls, mem, stateFile, ok, held, lastPick, saved, placed>>

(* arm_skills raises: main reports it, and neither saves nor removes.      *)
ArmRaises ==
  /\ pc \in {"picking", "placing"}
  /\ held' \in IF pc = "picking" THEN AfterPick ELSE AfterPlace
  /\ placed' = FALSE
  /\ pc' = "idle"
  /\ UNCHANGED <<calls, mem, stateFile, ok, lastPick, saved, trouble>>

(* octos kills the process.  The arm may still end what it was told to do. *)
Killed ==
  /\ pc # "idle"
  /\ held' \in CASE pc = "picking" -> AfterPick
                 [] pc = "placing" -> AfterPlace
                 [] OTHER -> {held}
  /\ trouble' = trouble \cup {"killed"}
  /\ pc' = "idle"
  /\ UNCHANGED <<calls, mem, stateFile, ok, lastPick, saved, placed>>

Next ==
  \/ PickAt
  \/ PlaceAt
  \/ PickReturns
  \/ SaveOpens
  \/ SaveWrites
  \/ SaveFails
  \/ Restore
  \/ RestoreFails
  \/ PlaceReturns
  \/ Remove
  \/ RemoveFails
  \/ ArmRaises
  \/ Killed

Spec == Init /\ [][Next]_vars

-----------------------------------------------------------------------------
(* Properties.                                                             *)

GraspOf(k) == [pick_xy |-> k, grasp_R |-> k]

(* A place_at that did not get the object out of the gripper can be called *)
(* again, however often and whatever ended it (an error, an exception, a   *)
(* kill): it finds the grasp of the object that the last pick_at saved, if *)
(* the file can be read.                                                   *)
PlaceCanBeRetried ==
  pc = "placing" /\ held # 0 /\ held = saved /\ held = lastPick =>
    mem = GraspOf(held) \/ "read" \in trouble

(* After a place_at that reported success the next one finds no grasp,     *)
(* unless a process was killed or the file system failed.                  *)
PlacedIsForgotten ==
  pc = "placing" /\ placed /\ trouble = {} => mem = Empty

(* The comment in main: the robot keeps holding the object between the     *)
(* calls, so its grasp is persisted to disk and restored for place_at.  An *)
(* object that is held, and whose grasp was saved, can thus be placed,     *)
(* though another pick_at was tried and failed in between.                 *)
HeldGraspRestored ==
  pc = "placing" /\ held # 0 /\ held = saved /\ trouble = {} =>
    mem = GraspOf(held)

=============================================================================
