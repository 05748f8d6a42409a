------------------------- MODULE GraspSkill_proofs -------------------------
(***************************************************************************)
(* Proofs about GraspSkill, for any number of calls.                       *)
(***************************************************************************)
EXTENDS GraspSkill, TLAPS

Picking == {"picking", "opening", "writing"}

(* The calls are made one after the other: a pick that has been saved is   *)
(* over, and a running pick is the last call.                              *)
CallInv ==
  /\ saved <= lastPick
  /\ lastPick <= calls
  /\ pc \in Picking => lastPick = calls /\ saved < calls /\ ~placed
  /\ pc \in {"opening", "writing"} /\ ok => mem = GraspOf(calls)

(* While the last pick's object is held and its grasp was saved, the file  *)
(* has that grasp.                                                         *)
FileInv ==
  /\ held # 0 /\ held = saved /\ held = lastPick => stateFile = GraspOf(saved)
  /\ pc = "removing" => held = 0 /\ placed
  /\ PlaceCanBeRetried

(* Between a successful place and the next pick there is no file.          *)
PlacedInv ==
  /\ placed /\ trouble = {} /\ pc # "removing" => stateFile = Absent
  /\ pc = "restoring" => mem = Empty
  /\ PlacedIsForgotten

Inv == TypeOK /\ CallInv /\ FileInv /\ PlacedInv

(* TypeOK in two parts: the provers take the Boolean one apart from the    *)
(* others.                                                                 *)
FlagTypes == ok \in BOOLEAN /\ placed \in BOOLEAN

DataTypes ==
  /\ pc \in {"idle", "picking", "opening", "writing",
             "restoring", "placing", "removing"}
  /\ calls \in Ids /\ held \in Ids /\ lastPick \in Ids /\ saved \in Ids
  /\ mem \in Grasps
  /\ stateFile \in Grasps \cup {Absent, Torn}
  /\ trouble \subseteq {"killed", "write", "read"}

LEMMA TypeParts == TypeOK <=> FlagTypes /\ DataTypes
BY DEF TypeOK, FlagTypes, DataTypes

LEMMA InitInv == Init => Inv
<1> SUFFICES ASSUME Init PROVE Inv
  OBVIOUS
<1>1. FlagTypes
  BY Zenon DEF Init, FlagTypes
<1>2. DataTypes
  BY GraspSkillAssumption DEF Init, DataTypes, Ids, Grasps, Empty
<1>3. CallInv /\ FileInv
  BY DEF Init, CallInv, FileInv, PlaceCanBeRetried, Picking
<1>4. PlacedInv
  BY DEF Init, PlacedInv, PlacedIsForgotten
<1> QED
  BY <1>1, <1>2, <1>3, <1>4, TypeParts DEF Inv

LEMMA FlagStep == ASSUME FlagTypes, [Next]_vars PROVE FlagTypes'
BY Zenon DEF FlagTypes, Next, vars, historyVars, PickAt, PlaceAt, Spawn,
   PickReturns, SaveOpens, SaveWrites, SaveFails, Restore,
   RestoreFails, PlaceReturns,
   Remove, RemoveFails, ArmRaises, Killed

(* Types and the order of the calls.                                       *)
LEMMA CallStep == ASSUME Inv, [Next]_vars PROVE TypeOK' /\ CallInv'
<1>1. FlagTypes'
  BY FlagStep, TypeParts DEF Inv
<1>2. DataTypes' /\ CallInv'
  <2>1. DataTypes /\ CallInv /\ FileInv
    BY TypeParts DEF Inv
  <2> USE <2>1, GraspSkillAssumption
      DEF DataTypes, CallInv, FileInv, Ids, Grasps, Empty, Picking, GraspOf,
          historyVars
  <2>2. CASE PickAt BY <2>2 DEF PickAt, Spawn
  <2>3. CASE PlaceAt BY <2>3 DEF PlaceAt, Spawn
  <2>4. CASE PickReturns BY <2>4 DEF PickReturns, AfterPick
  <2>5. CASE SaveOpens BY <2>5 DEF SaveOpens
  <2>6. CASE SaveWrites BY <2>6 DEF SaveWrites
  <2>7. CASE SaveFails BY <2>7 DEF SaveFails
  <2>8. CASE Restore \/ RestoreFails BY <2>8 DEF Restore, RestoreFails
  <2>9. CASE PlaceReturns BY <2>9 DEF PlaceReturns, AfterPlace
  <2>10. CASE Remove BY <2>10 DEF Remove
  <2>11. CASE RemoveFails BY <2>11 DEF RemoveFails
  <2>12. CASE ArmRaises BY <2>12 DEF ArmRaises, AfterPick, AfterPlace
  <2>13. CASE Killed BY <2>13 DEF Killed, AfterPick, AfterPlace
  <2>14. CASE UNCHANGED vars BY <2>14 DEF vars
  <2> QED
    BY <2>2, <2>3, <2>4, <2>5, <2>6, <2>7, <2>8, <2>9, <2>10, <2>11, <2>12,
       <2>13, <2>14 DEF Next
<1>3. TypeOK' <=> FlagTypes' /\ DataTypes'
  BY DEF TypeOK, FlagTypes, DataTypes
<1> QED
  BY <1>1, <1>2, <1>3

(* What the file and the memory of a process have.                         *)
LEMMA FileStep == ASSUME Inv, [Next]_vars PROVE FileInv' /\ PlacedInv'
<1> USE GraspSkillAssumption
    DEF Inv, TypeOK, CallInv, FileInv, PlacedInv, PlaceCanBeRetried,
        PlacedIsForgotten, Ids, Grasps, Empty, Picking, GraspOf, historyVars
<1>1. CASE PickAt BY <1>1 DEF PickAt, Spawn
<1>2. CASE PlaceAt BY <1>2 DEF PlaceAt, Spawn
<1>3. CASE PickReturns BY <1>3 DEF PickReturns, AfterPick
<1>4. CASE SaveOpens BY <1>4 DEF SaveOpens
<1>5. CASE SaveWrites BY <1>5 DEF SaveWrites
<1>6. CASE SaveFails BY <1>6 DEF SaveFails
<1>7. CASE Restore \/ RestoreFails BY <1>7 DEF Restore, RestoreFails
<1>8. CASE PlaceReturns BY <1>8 DEF PlaceReturns, AfterPlace
<1>9. CASE Remove BY <1>9 DEF Remove
<1>10. CASE RemoveFails BY <1>10 DEF RemoveFails
<1>11. CASE ArmRaises BY <1>11 DEF ArmRaises, AfterPick, AfterPlace
<1>12. CASE Killed BY <1>12 DEF Killed, AfterPick, AfterPlace
<1>13. CASE UNCHANGED vars BY <1>13 DEF vars
<1> QED
  BY <1>1, <1>2, <1>3, <1>4, <1>5, <1>6, <1>7, <1>8, <1>9, <1>10, <1>11,
     <1>12, <1>13 DEF Next

THEOREM Invariance == Spec => []Inv
<1>1. Inv /\ [Next]_vars => Inv'
  BY CallStep, FileStep DEF Inv
<1> QED
  BY InitInv, <1>1, PTL DEF Spec

(* The variables keep their types, for any number of calls.                *)
THEOREM TypeCorrect == Spec => []TypeOK
<1>1. Inv => TypeOK
  BY DEF Inv
<1> QED
  BY Invariance, <1>1, PTL

(* skills/so101/main: however often and whatever ended it, a place_at can  *)
(* be called again while the object of the last saved pick is held.        *)
THEOREM PlaceRetriable == Spec => []PlaceCanBeRetried
<1>1. Inv => PlaceCanBeRetried
  BY DEF Inv, FileInv
<1> QED
  BY Invariance, <1>1, PTL

(* skills/so101/main: after a place_at that reported success there is no   *)
(* grasp to restore, unless a process was killed or the file system failed. *)
THEOREM PlaceForgets == Spec => []PlacedIsForgotten
<1>1. Inv => PlacedIsForgotten
  BY DEF Inv, PlacedInv
<1> QED
  BY Invariance, <1>1, PTL

=============================================================================
