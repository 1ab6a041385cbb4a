--------------------------- MODULE RunScripts_proofs ---------------------------
(***************************************************************************)
(* What the run scripts leave behind, for any processes and runs, whatever *)
(* fails or is killed.  Groups are recorded, ready runs usable and reports *)
(* of cleanup-all true if each run is cleaned up only after its bootstrap  *)
(* has ended; the groups of others are spared in any case.                 *)
(***************************************************************************)
EXTENDS RunScripts, TLAPS

-----------------------------------------------------------------------------
(* The inductive invariant.                                                *)

\* The process that bootstraps run r.
Boots(p) == pc[p] \in Booting \/ goal[p] \in {"preparing", "ready"}

\* Nobody else works on a run, or is about to, before its bootstrap has ended.
BootsAlone ==
  \A p \in Proc : Boots(p) =>
    /\ \A q \in Proc : q # p => run[q] # run[p]
    /\ \A q \in Proc : run[p] \notin todo[q]

\* What bootstrap finds in the files of its run.
BootFiles ==
  \A p \in Proc :
    /\ goal[p] = "preparing" =>
         /\ group[run[p]] = "absent" /\ record[run[p]] = None
         /\ tmp[run[p]] = (IF pc[p] = "write" THEN None ELSE "preparing")
    /\ pc[p] \in Booting \/ goal[p] = "ready" =>
         /\ record[run[p]] = "preparing"
         /\ tmp[run[p]] = (IF pc[p] = "rename" THEN "ready" ELSE None)

\* Work is done, and groups exist, for recorded runs only.
OnlyRecorded ==
  /\ \A p \in Proc : run[p] # None => run[p] \in dirs
  /\ \A r \in Run \ dirs :
       record[r] = None /\ tmp[r] = None /\ mode[r] = None /\ group[r] = "absent"
  /\ \A r \in Run : mode[r] # "azure" => group[r] = "absent"
  /\ \A p \in Proc : pc[p] \in Booting => mode[run[p]] = "azure"

\* Whoever sets the status cleaned, in memory or on disk, has seen the group gone.
CleanedWhenGone ==
  /\ \A p \in Proc : goal[p] = "cleaned" => group[run[p]] = "absent"
  /\ \A r \in Run : tmp[r] = "cleaned" => group[r] = "absent"

RunsInv ==
  /\ TypeOK /\ BootsAlone /\ BootFiles /\ OnlyRecorded /\ CleanedWhenGone
  /\ GroupsAreRecorded

-----------------------------------------------------------------------------
(* Types.                                                                  *)

USE DEF procVars, fileVars, azureVars, Goto, Set, Stays

LEMMA TypeStep ==
  ASSUME TypeOK, NEW p \in Proc, Start(p) \/ ScriptStep(p) \/ Fail(p) \/ Kill(p)
  PROVE  TypeOK'
<1> USE NoneIsNoValue DEF TypeOK, Label, Status, Booting, Cleaning
<1>1. ASSUME NEW r \in Run, NEW m \in {"local", "azure"}, Bootstrap(p, r, m)
      PROVE  TypeOK'
  BY <1>1 DEF Bootstrap
<1>2. ASSUME NEW r \in Run, Cleanup(p, r)
      PROVE  TypeOK'
  BY <1>2 DEF Cleanup
<1>3. CASE CleanupAll(p)
  BY <1>3 DEF CleanupAll
<1>4. CASE Written(p)
  BY <1>4 DEF Written
<1>5. CASE Renamed(p)
  BY <1>5 DEF Renamed, Follow, Exit, FailureRemembered
<1>6. CASE RenameFails(p)
  BY <1>6 DEF RenameFails, Exit, FailureRemembered
<1>7. CASE NoCollision(p)
  BY <1>7 DEF NoCollision
<1>8. CASE CreateGroup(p)
  BY <1>8 DEF CreateGroup
<1>9. CASE Deploy(p)
  BY <1>9 DEF Deploy
<1>10. CASE Grant(p)
  BY <1>10 DEF Grant
<1>11. CASE Seed(p)
  BY <1>11 DEF Seed
<1>12. CASE Revoke(p)
  BY <1>12 DEF Revoke, Revoked
<1>13. CASE SweepNext(p)
  BY <1>13 DEF SweepNext
<1>14. CASE SweepEnds(p)
  BY <1>14 DEF SweepEnds, Leave
<1>15. CASE LoadRun(p)
  BY <1>15 DEF LoadRun, Exit, FailureRemembered
<1>16. CASE AskExists(p)
  BY <1>16 DEF AskExists
<1>17. CASE CheckOwner(p)
  <2>1. CASE IsOwn(run[p])
    BY <1>17, <2>1 DEF CheckOwner, MarkFirst
  <2>2. CASE ~IsOwn(run[p])
    BY <1>17, <2>2 DEF CheckOwner, Exit, FailureRemembered
  <2> QED
    BY <2>1, <2>2
<1>18. CASE DeleteGroup(p)
  <2>1. CASE Exists(run[p])
    BY <1>18, <2>1 DEF DeleteGroup
  <2>2. CASE ~Exists(run[p])
    BY <1>18, <2>2 DEF DeleteGroup, Exit, FailureRemembered
  <2> QED
    BY <2>1, <2>2
<1>19. CASE GroupDeleted(p)
  BY <1>19 DEF GroupDeleted
<1>20. CASE Fail(p)
  BY <1>20 DEF Fail, Exit, FailureRemembered
<1>21. CASE Kill(p)
  BY <1>21 DEF Kill, Leave
<1> QED
  BY <1>1, <1>2, <1>3, <1>4, <1>5, <1>6, <1>7, <1>8, <1>9, <1>10, <1>11,
     <1>12, <1>13, <1>14, <1>15, <1>16, <1>17, <1>18, <1>19, <1>20, <1>21 DEF Start, ScriptStep

LEMMA TypeNext == TypeOK /\ [Next]_vars => TypeOK'
<1> SUFFICES ASSUME TypeOK, [Next]_vars
             PROVE  TypeOK'
  OBVIOUS
<1>1. ASSUME NEW r \in Run, GroupGone(r) \/ Retag(r)
      PROVE  TypeOK'
  BY <1>1 DEF GroupGone, Retag, TypeOK
<1>2. CASE UNCHANGED vars
  BY <1>2 DEF vars, TypeOK
<1> QED
  BY <1>1, <1>2, TypeStep DEF Next, Trouble

\* The records, the groups and the locals of the scripts keep their types, and a
\* script that has ended has reset its locals, whatever fails or is killed.
THEOREM TypeCorrect == Spec => []TypeOK
<1>1. Init => TypeOK
  BY NoneIsNoValue DEF Init, TypeOK, Label, Status
<1> QED
  BY <1>1, TypeNext, PTL DEF Spec

-----------------------------------------------------------------------------
(* Records of groups.                                                      *)

\* A script that ends disturbs nothing.
LEMMA Exits ==
  ASSUME RunsInv, NEW p \in Proc, run[p] # None, NEW ok \in BOOLEAN, Exit(p, ok),
         UNCHANGED <<fileVars, azureVars>>
  PROVE  RunsInv'
<1> USE NoneIsNoValue DEF RunsInv, TypeOK, Booting, Cleaning, Label, Status, Exit
<1>1. TypeOK'
  OBVIOUS
<1>2. BootsAlone' /\ BootFiles'
  BY DEF BootsAlone, Boots, BootFiles, OnlyRecorded
<1>3. OnlyRecorded' /\ CleanedWhenGone' /\ GroupsAreRecorded'
  BY DEF OnlyRecorded, CleanedWhenGone, GroupsAreRecorded
<1> QED
  BY <1>1, <1>2, <1>3

\* A cleanup that goes on, or is about to set a status, disturbs nothing either,
\* if it says cleaned only of a run without a group.
LEMMA GoesOn ==
  ASSUME RunsInv, NEW p \in Proc, pc[p] \in Cleaning, Stays,
         UNCHANGED <<fileVars, azureVars>>,
         \/ \E label \in Cleaning : Goto(p, label)
         \/ Set(p, "deleting")
         \/ Set(p, "cleaned") /\ group[run[p]] = "absent"
  PROVE  RunsInv'
<1> USE NoneIsNoValue DEF RunsInv, TypeOK, Booting, Cleaning, Label, Status
<1>1. TypeOK'
  OBVIOUS
<1>2. BootsAlone' /\ BootFiles'
  BY DEF BootsAlone, Boots, BootFiles, OnlyRecorded
<1>3. OnlyRecorded' /\ CleanedWhenGone' /\ GroupsAreRecorded'
  BY DEF OnlyRecorded, CleanedWhenGone, GroupsAreRecorded
<1> QED
  BY <1>1, <1>2, <1>3

\* Each step of a process keeps the invariant.
LEMMA ProcStep ==
  ASSUME Patient, RunsInv, NEW p \in Proc,
         Start(p) \/ ScriptStep(p) \/ Fail(p) \/ Kill(p)
  PROVE  RunsInv'
<1>0. TypeOK'
  BY TypeStep DEF RunsInv
<1> USE NoneIsNoValue DEF RunsInv, TypeOK, Booting, Cleaning, Label, Status
<1>1. ASSUME NEW r \in Run, NEW m \in {"local", "azure"}, Bootstrap(p, r, m)
      PROVE  RunsInv'
  <2>1. BootsAlone'
    BY <1>1 DEF Bootstrap, BootsAlone, Boots, OnlyRecorded
  <2>2. BootFiles'
    BY <1>1 DEF Bootstrap, BootFiles, BootsAlone, Boots, OnlyRecorded
  <2>3. OnlyRecorded'
    BY <1>1 DEF Bootstrap, OnlyRecorded, BootFiles, GroupsAreRecorded
  <2>4. CleanedWhenGone'
    BY <1>1 DEF Bootstrap, CleanedWhenGone, BootFiles, BootsAlone, Boots, OnlyRecorded
  <2>5. GroupsAreRecorded'
    BY <1>1 DEF Bootstrap, GroupsAreRecorded, BootFiles, CleanedWhenGone, OnlyRecorded
  <2> QED
    BY <1>0, <2>1, <2>2, <2>3, <2>4, <2>5
<1>2. ASSUME NEW r \in Run, Cleanup(p, r)
      PROVE  RunsInv'
  <2>1. BootsAlone'
    BY <1>2 DEF Cleanup, MayClean, IsBooting, BootsAlone, Boots, OnlyRecorded
  <2>2. BootFiles'
    BY <1>2 DEF Cleanup, MayClean, IsBooting, BootFiles, BootsAlone, Boots, OnlyRecorded
  <2>3. OnlyRecorded'
    BY <1>2 DEF Cleanup, MayClean, IsBooting, OnlyRecorded, BootFiles, GroupsAreRecorded
  <2>4. CleanedWhenGone'
    BY <1>2 DEF Cleanup, MayClean, IsBooting, CleanedWhenGone, BootFiles, BootsAlone, Boots, OnlyRecorded
  <2>5. GroupsAreRecorded'
    BY <1>2 DEF Cleanup, MayClean, IsBooting, GroupsAreRecorded, BootFiles, CleanedWhenGone, OnlyRecorded
  <2> QED
    BY <1>0, <2>1, <2>2, <2>3, <2>4, <2>5
<1>3. CASE CleanupAll(p)
  <2>1. BootsAlone'
    BY <1>3 DEF CleanupAll, MayClean, IsBooting, BootsAlone, Boots, OnlyRecorded
  <2>2. BootFiles'
    BY <1>3 DEF CleanupAll, MayClean, IsBooting, BootFiles, BootsAlone, Boots, OnlyRecorded
  <2>3. OnlyRecorded'
    BY <1>3 DEF CleanupAll, MayClean, IsBooting, OnlyRecorded, BootFiles, GroupsAreRecorded
  <2>4. CleanedWhenGone'
    BY <1>3 DEF CleanupAll, MayClean, IsBooting, CleanedWhenGone, BootFiles, BootsAlone, Boots, OnlyRecorded
  <2>5. GroupsAreRecorded'
    BY <1>3 DEF CleanupAll, MayClean, IsBooting, GroupsAreRecorded, BootFiles, CleanedWhenGone, OnlyRecorded
  <2> QED
    BY <1>0, <2>1, <2>2, <2>3, <2>4, <2>5
<1>4. CASE Written(p)
  <2>1. BootsAlone'
    BY <1>4 DEF Written, BootsAlone, Boots, OnlyRecorded
  <2>2. BootFiles'
    BY <1>4 DEF Written, BootFiles, BootsAlone, Boots, OnlyRecorded
  <2>3. OnlyRecorded'
    BY <1>4 DEF Written, OnlyRecorded, BootFiles, GroupsAreRecorded
  <2>4. CleanedWhenGone'
    BY <1>4 DEF Written, CleanedWhenGone, BootFiles, BootsAlone, Boots, OnlyRecorded
  <2>5. GroupsAreRecorded'
    BY <1>4 DEF Written, GroupsAreRecorded, BootFiles, CleanedWhenGone, OnlyRecorded
  <2> QED
    BY <1>0, <2>1, <2>2, <2>3, <2>4, <2>5
<1>5. CASE Renamed(p)
  <2>0. /\ run[p] \in Run /\ goal[p] \in Status /\ tmp[run[p]] \in Status
       /\ pc[p] = "rename"
       /\ record' = [record EXCEPT ![run[p]] = tmp[run[p]]]
       /\ tmp' = [tmp EXCEPT ![run[p]] = None]
       /\ UNCHANGED <<dirs, mode, azureVars>>
    BY <1>5 DEF Renamed
  <2>1. CASE goal[p] = "preparing" /\ mode[run[p]] = "local" /\ Set(p, "ready") /\ Stays
    <3>1. TypeOK'
      BY <2>0, <2>1
    <3>2. BootsAlone'
      BY <2>0, <2>1 DEF BootsAlone, Boots, OnlyRecorded
    <3>3. BootFiles'
      BY <2>0, <2>1 DEF BootFiles, BootsAlone, Boots, OnlyRecorded
    <3>4. OnlyRecorded'
      BY <2>0, <2>1 DEF OnlyRecorded, BootFiles, GroupsAreRecorded
    <3>5. CleanedWhenGone'
      BY <2>0, <2>1 DEF CleanedWhenGone, BootFiles, BootsAlone, Boots, OnlyRecorded
    <3>6. GroupsAreRecorded'
      BY <2>0, <2>1 DEF GroupsAreRecorded, BootFiles, CleanedWhenGone, OnlyRecorded
    <3> QED
      BY <3>1, <3>2, <3>3, <3>4, <3>5, <3>6
  <2>2. CASE goal[p] = "preparing" /\ mode[run[p]] = "azure" /\ Goto(p, "collide") /\ Stays
    <3>1. TypeOK'
      BY <2>0, <2>2
    <3>2. BootsAlone'
      BY <2>0, <2>2 DEF BootsAlone, Boots, OnlyRecorded
    <3>3. BootFiles'
      BY <2>0, <2>2 DEF BootFiles, BootsAlone, Boots, OnlyRecorded
    <3>4. OnlyRecorded'
      BY <2>0, <2>2 DEF OnlyRecorded, BootFiles, GroupsAreRecorded
    <3>5. CleanedWhenGone'
      BY <2>0, <2>2 DEF CleanedWhenGone, BootFiles, BootsAlone, Boots, OnlyRecorded
    <3>6. GroupsAreRecorded'
      BY <2>0, <2>2 DEF GroupsAreRecorded, BootFiles, CleanedWhenGone, OnlyRecorded
    <3> QED
      BY <3>1, <3>2, <3>3, <3>4, <3>5, <3>6
  <2>3. CASE goal[p] = "deleting" /\ Goto(p, "delete") /\ Stays
    <3>1. TypeOK'
      BY <2>0, <2>3
    <3>2. BootsAlone'
      BY <2>0, <2>3 DEF BootsAlone, Boots, OnlyRecorded
    <3>3. BootFiles'
      BY <2>0, <2>3 DEF BootFiles, BootsAlone, Boots, OnlyRecorded
    <3>4. OnlyRecorded'
      BY <2>0, <2>3 DEF OnlyRecorded, BootFiles, GroupsAreRecorded
    <3>5. CleanedWhenGone'
      BY <2>0, <2>3 DEF CleanedWhenGone, BootFiles, BootsAlone, Boots, OnlyRecorded
    <3>6. GroupsAreRecorded'
      BY <2>0, <2>3 DEF GroupsAreRecorded, BootFiles, CleanedWhenGone, OnlyRecorded
    <3> QED
      BY <3>1, <3>2, <3>3, <3>4, <3>5, <3>6
  <2>4. CASE goal[p] \in {"ready", "cleaned"} /\ Exit(p, TRUE)
    <3>1. TypeOK'
      BY <2>0, <2>4 DEF Exit
    <3>2. BootsAlone'
      BY <2>0, <2>4 DEF Exit, BootsAlone, Boots, OnlyRecorded
    <3>3. BootFiles'
      BY <2>0, <2>4 DEF Exit, BootFiles, BootsAlone, Boots, OnlyRecorded
    <3>4. OnlyRecorded'
      BY <2>0, <2>4 DEF Exit, OnlyRecorded, BootFiles, GroupsAreRecorded
    <3>5. CleanedWhenGone'
      BY <2>0, <2>4 DEF Exit, CleanedWhenGone, BootFiles, BootsAlone, Boots, OnlyRecorded
    <3>6. GroupsAreRecorded'
      BY <2>0, <2>4 DEF Exit, GroupsAreRecorded, BootFiles, CleanedWhenGone, OnlyRecorded
    <3> QED
      BY <3>1, <3>2, <3>3, <3>4, <3>5, <3>6
  <2> QED
    BY <1>5, <2>1, <2>2, <2>3, <2>4 DEF Renamed, Follow
<1>6. CASE RenameFails(p)
  BY <1>6, Exits DEF RenameFails, RunsInv, TypeOK
<1>7. CASE NoCollision(p)
  <2>1. BootsAlone'
    BY <1>7 DEF NoCollision, Exists, BootsAlone, Boots, OnlyRecorded
  <2>2. BootFiles'
    BY <1>7 DEF NoCollision, Exists, BootFiles, BootsAlone, Boots, OnlyRecorded
  <2>3. OnlyRecorded'
    BY <1>7 DEF NoCollision, Exists, OnlyRecorded, BootFiles, GroupsAreRecorded
  <2>4. CleanedWhenGone'
    BY <1>7 DEF NoCollision, Exists, CleanedWhenGone, BootFiles, BootsAlone, Boots, OnlyRecorded
  <2>5. GroupsAreRecorded'
    BY <1>7 DEF NoCollision, Exists, GroupsAreRecorded, BootFiles, CleanedWhenGone, OnlyRecorded
  <2> QED
    BY <1>0, <2>1, <2>2, <2>3, <2>4, <2>5
<1>8. CASE CreateGroup(p)
  <2>1. BootsAlone'
    BY <1>8 DEF CreateGroup, Exists, BootsAlone, Boots, OnlyRecorded
  <2>2. BootFiles'
    BY <1>8 DEF CreateGroup, Exists, BootFiles, BootsAlone, Boots, OnlyRecorded
  <2>3. OnlyRecorded'
    BY <1>8 DEF CreateGroup, Exists, OnlyRecorded, BootFiles, GroupsAreRecorded
  <2>4. CleanedWhenGone'
    BY <1>8 DEF CreateGroup, Exists, CleanedWhenGone, BootFiles, BootsAlone, Boots, OnlyRecorded
  <2>5. GroupsAreRecorded'
    BY <1>8 DEF CreateGroup, Exists, GroupsAreRecorded, BootFiles, CleanedWhenGone, OnlyRecorded
  <2> QED
    BY <1>0, <2>1, <2>2, <2>3, <2>4, <2>5
<1>9. CASE Deploy(p)
  <2>1. BootsAlone'
    BY <1>9 DEF Deploy, Usable, BootsAlone, Boots, OnlyRecorded
  <2>2. BootFiles'
    BY <1>9 DEF Deploy, Usable, BootFiles, BootsAlone, Boots, OnlyRecorded
  <2>3. OnlyRecorded'
    BY <1>9 DEF Deploy, Usable, OnlyRecorded, BootFiles, GroupsAreRecorded
  <2>4. CleanedWhenGone'
    BY <1>9 DEF Deploy, Usable, CleanedWhenGone, BootFiles, BootsAlone, Boots, OnlyRecorded
  <2>5. GroupsAreRecorded'
    BY <1>9 DEF Deploy, Usable, GroupsAreRecorded, BootFiles, CleanedWhenGone, OnlyRecorded
  <2> QED
    BY <1>0, <2>1, <2>2, <2>3, <2>4, <2>5
<1>10. CASE Grant(p)
  <2>1. BootsAlone'
    BY <1>10 DEF Grant, Usable, BootsAlone, Boots, OnlyRecorded
  <2>2. BootFiles'
    BY <1>10 DEF Grant, Usable, BootFiles, BootsAlone, Boots, OnlyRecorded
  <2>3. OnlyRecorded'
    BY <1>10 DEF Grant, Usable, OnlyRecorded, BootFiles, GroupsAreRecorded
  <2>4. CleanedWhenGone'
    BY <1>10 DEF Grant, Usable, CleanedWhenGone, BootFiles, BootsAlone, Boots, OnlyRecorded
  <2>5. GroupsAreRecorded'
    BY <1>10 DEF Grant, Usable, GroupsAreRecorded, BootFiles, CleanedWhenGone, OnlyRecorded
  <2> QED
    BY <1>0, <2>1, <2>2, <2>3, <2>4, <2>5
<1>11. CASE Seed(p)
  <2>1. BootsAlone'
    BY <1>11 DEF Seed, Usable, BootsAlone, Boots, OnlyRecorded
  <2>2. BootFiles'
    BY <1>11 DEF Seed, Usable, BootFiles, BootsAlone, Boots, OnlyRecorded
  <2>3. OnlyRecorded'
    BY <1>11 DEF Seed, Usable, OnlyRecorded, BootFiles, GroupsAreRecorded
  <2>4. CleanedWhenGone'
    BY <1>11 DEF Seed, Usable, CleanedWhenGone, BootFiles, BootsAlone, Boots, OnlyRecorded
  <2>5. GroupsAreRecorded'
    BY <1>11 DEF Seed, Usable, GroupsAreRecorded, BootFiles, CleanedWhenGone, OnlyRecorded
  <2> QED
    BY <1>0, <2>1, <2>2, <2>3, <2>4, <2>5
<1>12. CASE Revoke(p)
  <2>1. BootsAlone'
    BY <1>12 DEF Revoke, Revoked, BootsAlone, Boots, OnlyRecorded
  <2>2. BootFiles'
    BY <1>12 DEF Revoke, Revoked, BootFiles, BootsAlone, Boots, OnlyRecorded
  <2>3. OnlyRecorded'
    BY <1>12 DEF Revoke, Revoked, OnlyRecorded, BootFiles, GroupsAreRecorded
  <2>4. CleanedWhenGone'
    BY <1>12 DEF Revoke, Revoked, CleanedWhenGone, BootFiles, BootsAlone, Boots, OnlyRecorded
  <2>5. GroupsAreRecorded'
    BY <1>12 DEF Revoke, Revoked, GroupsAreRecorded, BootFiles, CleanedWhenGone, OnlyRecorded
  <2> QED
    BY <1>0, <2>1, <2>2, <2>3, <2>4, <2>5
<1>13. CASE SweepNext(p)
  <2>1. BootsAlone'
    BY <1>13 DEF SweepNext, BootsAlone, Boots, OnlyRecorded
  <2>2. BootFiles'
    BY <1>13 DEF SweepNext, BootFiles, BootsAlone, Boots, OnlyRecorded
  <2>3. OnlyRecorded'
    BY <1>13 DEF SweepNext, OnlyRecorded, BootFiles, GroupsAreRecorded
  <2>4. CleanedWhenGone'
    BY <1>13 DEF SweepNext, CleanedWhenGone, BootFiles, BootsAlone, Boots, OnlyRecorded
  <2>5. GroupsAreRecorded'
    BY <1>13 DEF SweepNext, GroupsAreRecorded, BootFiles, CleanedWhenGone, OnlyRecorded
  <2> QED
    BY <1>0, <2>1, <2>2, <2>3, <2>4, <2>5
<1>14. CASE SweepEnds(p)
  <2>1. BootsAlone'
    BY <1>14 DEF SweepEnds, Leave, BootsAlone, Boots, OnlyRecorded
  <2>2. BootFiles'
    BY <1>14 DEF SweepEnds, Leave, BootFiles, BootsAlone, Boots, OnlyRecorded
  <2>3. OnlyRecorded'
    BY <1>14 DEF SweepEnds, Leave, OnlyRecorded, BootFiles, GroupsAreRecorded
  <2>4. CleanedWhenGone'
    BY <1>14 DEF SweepEnds, Leave, CleanedWhenGone, BootFiles, BootsAlone, Boots, OnlyRecorded
  <2>5. GroupsAreRecorded'
    BY <1>14 DEF SweepEnds, Leave, GroupsAreRecorded, BootFiles, CleanedWhenGone, OnlyRecorded
  <2> QED
    BY <1>0, <2>1, <2>2, <2>3, <2>4, <2>5
<1>15. CASE LoadRun(p)
  <2>1. run[p] # None /\ pc[p] \in Cleaning /\ UNCHANGED <<fileVars, azureVars>>
    BY <1>15 DEF LoadRun
  <2>2. CASE mode[run[p]] = "local"
    <3>1. group[run[p]] = "absent"
      BY <2>1, <2>2 DEF OnlyRecorded
    <3> HIDE DEF RunsInv
    <3> QED
      BY <1>15, <2>1, <2>2, <3>1, Exits, GoesOn DEF LoadRun
  <2>3. CASE mode[run[p]] # "local"
    <3> HIDE DEF RunsInv
    <3> QED
      BY <1>15, <2>1, <2>3, Exits, GoesOn DEF LoadRun
  <2> QED
    BY <2>2, <2>3
<1>16. CASE AskExists(p)
  <2>1. run[p] # None /\ pc[p] \in Cleaning
    BY <1>16 DEF AskExists
  <2>2. UNCHANGED <<fileVars, azureVars>>
    BY <1>16 DEF AskExists
  <2> HIDE DEF RunsInv
  <2> QED
    BY <1>16, <2>1, <2>2, Exits, GoesOn DEF AskExists, Exists
<1>17. CASE CheckOwner(p)
  <2>1. run[p] # None /\ pc[p] \in Cleaning
    BY <1>17 DEF CheckOwner
  <2>2. UNCHANGED <<fileVars, azureVars>>
    BY <1>17 DEF CheckOwner
  <2> HIDE DEF RunsInv
  <2> QED
    BY <1>17, <2>1, <2>2, Exits, GoesOn DEF CheckOwner, IsOwn, MarkFirst
<1>18. CASE DeleteGroup(p)
  <2>1. CASE Exists(run[p])
    <3>0. run[p] \in Run
      BY <1>18 DEF DeleteGroup
    <3>1. TypeOK'
      BY <1>18, <2>1, <3>0 DEF DeleteGroup, Exists
    <3>2. BootsAlone'
      BY <1>18, <2>1, <3>0 DEF DeleteGroup, Exists, BootsAlone, Boots, OnlyRecorded
    <3>3. BootFiles'
      BY <1>18, <2>1, <3>0 DEF DeleteGroup, Exists, BootFiles, BootsAlone, Boots, OnlyRecorded
    <3>4. OnlyRecorded'
      BY <1>18, <2>1, <3>0 DEF DeleteGroup, Exists, OnlyRecorded, BootFiles, GroupsAreRecorded
    <3>5. CleanedWhenGone'
      BY <1>18, <2>1, <3>0
      DEF DeleteGroup, Exists, CleanedWhenGone, BootFiles, BootsAlone, Boots, OnlyRecorded
    <3>6. GroupsAreRecorded'
      BY <1>18, <2>1, <3>0
      DEF DeleteGroup, Exists, GroupsAreRecorded, BootFiles, CleanedWhenGone, OnlyRecorded
    <3> QED
      BY <3>1, <3>2, <3>3, <3>4, <3>5, <3>6
  <2>2. CASE ~Exists(run[p])
    <3>1. run[p] # None /\ Exit(p, FALSE) /\ UNCHANGED <<fileVars, azureVars>>
      BY <1>18, <2>2 DEF DeleteGroup
    <3> HIDE DEF RunsInv
    <3> QED
      BY <3>1, Exits
  <2> QED
    BY <2>1, <2>2
<1>19. CASE GroupDeleted(p)
  <2>1. run[p] # None /\ pc[p] \in Cleaning
    BY <1>19 DEF GroupDeleted
  <2>2. UNCHANGED <<fileVars, azureVars>>
    BY <1>19 DEF GroupDeleted
  <2> HIDE DEF RunsInv
  <2> QED
    BY <1>19, <2>1, <2>2, Exits, GoesOn DEF GroupDeleted, Deleted, Exists
<1>20. CASE Fail(p)
  BY <1>20, Exits DEF Fail
<1>21. CASE Kill(p)
  <2>1. BootsAlone'
    BY <1>21 DEF Kill, Leave, BootsAlone, Boots, OnlyRecorded
  <2>2. BootFiles'
    BY <1>21 DEF Kill, Leave, BootFiles, BootsAlone, Boots, OnlyRecorded
  <2>3. OnlyRecorded'
    BY <1>21 DEF Kill, Leave, OnlyRecorded, BootFiles, GroupsAreRecorded
  <2>4. CleanedWhenGone'
    BY <1>21 DEF Kill, Leave, CleanedWhenGone, BootFiles, BootsAlone, Boots, OnlyRecorded
  <2>5. GroupsAreRecorded'
    BY <1>21 DEF Kill, Leave, GroupsAreRecorded, BootFiles, CleanedWhenGone, OnlyRecorded
  <2> QED
    BY <1>0, <2>1, <2>2, <2>3, <2>4, <2>5
<1> QED
  BY <1>1, <1>2, <1>3, <1>4, <1>5, <1>6, <1>7, <1>8, <1>9, <1>10, <1>11,
     <1>12, <1>13, <1>14, <1>15, <1>16, <1>17, <1>18, <1>19, <1>20, <1>21 DEF Start, ScriptStep

\* So does a step of Azure or of its other users.
LEMMA AzureStep ==
  ASSUME RunsInv, NEW r \in Run, GroupGone(r) \/ Retag(r)
  PROVE  RunsInv'
<1> USE NoneIsNoValue DEF RunsInv, TypeOK, Booting, Cleaning, Label, Status
<1>1. CASE GroupGone(r)
  BY <1>1 DEF GroupGone, BootsAlone, Boots, BootFiles, OnlyRecorded, CleanedWhenGone, GroupsAreRecorded
<1>2. CASE Retag(r)
  BY <1>2 DEF Retag, BootsAlone, Boots, BootFiles, OnlyRecorded, CleanedWhenGone, GroupsAreRecorded
<1> QED
  BY <1>1, <1>2

\* A state in which no script has run satisfies the invariant.
LEMMA RunsInit == Init => RunsInv
BY NoneIsNoValue
DEF Init, RunsInv, TypeOK, Booting, Cleaning, Label, Status, BootsAlone, Boots,
    BootFiles, OnlyRecorded, CleanedWhenGone, GroupsAreRecorded

\* The invariant is inductive for patient operators.
LEMMA RunsNext == Patient /\ RunsInv /\ [Next]_vars => RunsInv'
<1> SUFFICES ASSUME Patient, RunsInv, [Next]_vars
             PROVE  RunsInv'
  OBVIOUS
<1>1. CASE Next
  BY <1>1, ProcStep, AzureStep DEF Next, Trouble
<1>2. CASE UNCHANGED vars
  BY <1>2 DEF vars, RunsInv, TypeOK, BootsAlone, Boots, BootFiles, OnlyRecorded,
              CleanedWhenGone, GroupsAreRecorded
<1> QED
  BY <1>1, <1>2

LEMMA RunsInvHolds == Patient => (Spec => []RunsInv)
<1> SUFFICES ASSUME Patient
             PROVE  Spec => []RunsInv
  OBVIOUS
<1> QED
  BY RunsInit, RunsNext, PTL DEF Spec

\* Wherever bootstrap, cleanup or cleanup-all fails or is killed, and however many
\* cleanups of a run overlap, each group still has a record that leads to it.
THEOREM EveryGroupIsRecorded == Patient => (Spec => []GroupsAreRecorded)
<1> SUFFICES ASSUME Patient
             PROVE  Spec => []GroupsAreRecorded
  OBVIOUS
<1>1. RunsInv => GroupsAreRecorded
  BY DEF RunsInv
<1> QED
  BY <1>1, RunsInvHolds, PTL

-----------------------------------------------------------------------------
(* Runs that are ready: the inductive invariant.                           *)

\* What bootstrap has put in place so far.
BootedSoFar ==
  \A p \in Proc :
    /\ pc[p] \in {"deploy", "grant", "seed", "revoke"} => group[run[p]] = "ours"
    /\ pc[p] = "revoke" => seeded[run[p]]
    /\ goal[p] = "ready" /\ mode[run[p]] = "azure" =>
         group[run[p]] = "ours" /\ seeded[run[p]] /\ ~writer[run[p]]

\* A group is being deleted only while its record says deleting, or cleaned when
\* another cleanup was faster; of two cleanups that rename the same file, neither
\* brings an older status back.
CleaningIsMarked ==
  /\ \A p \in Proc : pc[p] = "rename" /\ goal[p] \in {"deleting", "cleaned"} =>
       tmp[run[p]] \in {"deleting", "cleaned", None}
  /\ \A p \in Proc :
       pc[p] \in {"delete", "await"} => record[run[p]] \in {"deleting", "cleaned"}
  /\ \A r \in Run : group[r] = "going" => record[r] \in {"deleting", "cleaned"}

ReadyInv == BootedSoFar /\ CleaningIsMarked /\ ReadyIsUsable

\* What the scripts' ways to go on leave of the other processes, and of their own.
LEMMA Goes ==
  ASSUME TypeOK, NEW p \in Proc, Stays, NEW label, NEW status,
         pc' = [pc EXCEPT ![p] = label], goal' = [goal EXCEPT ![p] = status]
  PROVE  /\ pc'[p] = label /\ goal'[p] = status /\ run'[p] = run[p]
         /\ \A q \in Proc \ {p} : pc'[q] = pc[q] /\ goal'[q] = goal[q] /\ run'[q] = run[q]
BY DEF TypeOK

LEMMA Exited ==
  ASSUME TypeOK, NEW p \in Proc, NEW ok, Exit(p, ok)
  PROVE  /\ pc'[p] \in {"idle", "next"} /\ goal'[p] = None /\ run'[p] = None
         /\ \A q \in Proc \ {p} : pc'[q] = pc[q] /\ goal'[q] = goal[q] /\ run'[q] = run[q]
BY DEF TypeOK, Exit

LEMMA RenamedGoes ==
  ASSUME TypeOK, NEW p \in Proc, Renamed(p)
  PROVE  /\ \A q \in Proc \ {p} : pc'[q] = pc[q] /\ goal'[q] = goal[q] /\ run'[q] = run[q]
         /\ \/ /\ goal[p] = "preparing" /\ goal'[p] \in {"ready", None} /\ run'[p] = run[p]
               /\ pc'[p] \in {"write", "collide"}
               /\ goal'[p] = "ready" => mode[run[p]] = "local"
            \/ goal[p] = "deleting" /\ goal'[p] = None /\ run'[p] = run[p] /\ pc'[p] = "delete"
            \/ /\ goal[p] \in {"ready", "cleaned"} /\ goal'[p] = None /\ run'[p] = None
               /\ pc'[p] \in {"idle", "next"}
<1>1. CASE Exit(p, TRUE) /\ goal[p] \in {"ready", "cleaned"}
  BY <1>1, Exited
<1>2. CASE goal[p] = "deleting" /\ Goto(p, "delete") /\ Stays
  BY <1>2, Goes
<1>3. CASE goal[p] = "preparing" /\ mode[run[p]] = "azure" /\ Goto(p, "collide") /\ Stays
  <2>1. /\ pc'[p] = "collide" /\ goal'[p] = None /\ run'[p] = run[p]
        /\ \A q \in Proc \ {p} : pc'[q] = pc[q] /\ goal'[q] = goal[q] /\ run'[q] = run[q]
    BY <1>3, Goes
  <2> QED
    BY <1>3, <2>1, NoneIsNoValue
<1>4. CASE goal[p] = "preparing" /\ mode[run[p]] = "local" /\ Set(p, "ready") /\ Stays
  <2>1. /\ pc'[p] = "write" /\ goal'[p] = "ready" /\ run'[p] = run[p]
        /\ \A q \in Proc \ {p} : pc'[q] = pc[q] /\ goal'[q] = goal[q] /\ run'[q] = run[q]
    BY <1>4, Goes
  <2> QED
    BY <1>4, <2>1
<1> QED
  BY <1>1, <1>2, <1>3, <1>4 DEF Renamed, Follow

LEMMA LoadRunGoes ==
  ASSUME TypeOK, NEW p \in Proc, LoadRun(p)
  PROVE  /\ UNCHANGED <<fileVars, azureVars>> /\ pc[p] = "load"
         /\ \A q \in Proc \ {p} : pc'[q] = pc[q] /\ goal'[q] = goal[q] /\ run'[q] = run[q]
         /\ pc'[p] \in {"idle", "next", "write", "exists"} /\ goal'[p] \in {"cleaned", None}
<1>1. UNCHANGED <<fileVars, azureVars>> /\ pc[p] = "load"
  BY DEF LoadRun
<1>2. CASE Exit(p, FALSE) \/ Exit(p, TRUE)
  BY <1>1, <1>2, Exited
<1>3. CASE Stays /\ (Set(p, "cleaned") \/ Goto(p, "exists"))
  BY <1>1, <1>3, Goes
<1> QED
  BY <1>2, <1>3 DEF LoadRun

LEMMA CheckOwnerGoes ==
  ASSUME TypeOK, NEW p \in Proc, CheckOwner(p)
  PROVE  /\ UNCHANGED <<fileVars, azureVars>> /\ pc[p] = "show"
         /\ \A q \in Proc \ {p} : pc'[q] = pc[q] /\ goal'[q] = goal[q] /\ run'[q] = run[q]
         /\ \/ pc'[p] \in {"idle", "next"} /\ goal'[p] = None /\ run'[p] = None
            \/ pc'[p] = "write" /\ goal'[p] = "deleting" /\ run'[p] = run[p] /\ IsOwn(run[p])
<1>1. UNCHANGED <<fileVars, azureVars>> /\ pc[p] = "show"
  BY DEF CheckOwner
<1>2. CASE Exit(p, FALSE)
  BY <1>1, <1>2, Exited
<1>3. CASE IsOwn(run[p]) /\ Set(p, "deleting") /\ Stays
  BY <1>1, <1>3, Goes
<1> QED
  BY <1>2, <1>3 DEF CheckOwner, MarkFirst

LEMMA DeleteGroupGoes ==
  ASSUME TypeOK, NEW p \in Proc, DeleteGroup(p)
  PROVE  /\ UNCHANGED <<fileVars, writer, seeded>> /\ pc[p] = "delete"
         /\ group' = group \/ group' = [group EXCEPT ![run[p]] = "going"]
         /\ \A q \in Proc \ {p} : pc'[q] = pc[q] /\ goal'[q] = goal[q] /\ run'[q] = run[q]
         /\ pc'[p] \in {"idle", "next", "await"} /\ goal'[p] = None
         /\ pc'[p] = "await" => run'[p] = run[p]
<1>1. UNCHANGED <<fileVars, writer, seeded>> /\ pc[p] = "delete"
  BY DEF DeleteGroup
<1>2. CASE Exit(p, FALSE) /\ UNCHANGED group
  BY <1>1, <1>2, Exited
<1>3. CASE group' = [group EXCEPT ![run[p]] = "going"] /\ Goto(p, "await") /\ Stays
  BY <1>1, <1>3, Goes
<1> QED
  BY <1>2, <1>3 DEF DeleteGroup

LEMMA RenamedIsReady ==
  ASSUME RunsInv, ReadyInv, NEW p \in Proc, Renamed(p)
  PROVE  ReadyInv'
<1> DEFINE r == run[p]
<1>1. TypeOK
  BY DEF RunsInv
<1>2. /\ r \in Run /\ tmp[r] \in Status /\ goal[p] \in Status /\ pc[p] = "rename"
      /\ record' = [record EXCEPT ![r] = tmp[r]] /\ tmp' = [tmp EXCEPT ![r] = None]
      /\ UNCHANGED <<mode, group, writer, seeded>>
  BY <1>1 DEF Renamed, TypeOK
<1>3. /\ \A q \in Proc \ {p} : pc'[q] = pc[q] /\ goal'[q] = goal[q] /\ run'[q] = run[q]
      /\ \/ /\ goal[p] = "preparing" /\ goal'[p] \in {"ready", None} /\ run'[p] = run[p]
            /\ pc'[p] \in {"write", "collide"}
            /\ goal'[p] = "ready" => mode[run[p]] = "local"
         \/ goal[p] = "deleting" /\ goal'[p] = None /\ run'[p] = run[p] /\ pc'[p] = "delete"
         \/ /\ goal[p] \in {"ready", "cleaned"} /\ goal'[p] = None /\ run'[p] = None
            /\ pc'[p] \in {"idle", "next"}
  BY <1>1, RenamedGoes
<1>4. goal[p] \in {"deleting", "cleaned"} => tmp[r] \in {"deleting", "cleaned"}
  BY <1>2, NoneIsNoValue DEF ReadyInv, CleaningIsMarked, Status
<1>5. /\ goal[p] = "preparing" => tmp[r] = "preparing" /\ group[r] = "absent"
      /\ goal[p] = "ready" => tmp[r] = "ready" /\ record[r] = "preparing"
  BY <1>2 DEF RunsInv, BootFiles
<1>6. goal[p] \in {"preparing", "ready"} => \A q \in Proc \ {p} : run[q] # r
  BY DEF RunsInv, BootsAlone, Boots
<1>7. \A s \in Run \ {r} : record'[s] = record[s] /\ tmp'[s] = tmp[s]
  BY <1>1, <1>2 DEF TypeOK
<1>8. record'[r] = tmp[r] /\ tmp'[r] = None
  BY <1>1, <1>2 DEF TypeOK
<1>9. BootedSoFar'
  <2> SUFFICES ASSUME NEW q \in Proc
               PROVE  /\ pc'[q] \in {"deploy", "grant", "seed", "revoke"} => group'[run'[q]] = "ours"
                      /\ pc'[q] = "revoke" => seeded'[run'[q]]
                      /\ goal'[q] = "ready" /\ mode'[run'[q]] = "azure" =>
                           group'[run'[q]] = "ours" /\ seeded'[run'[q]] /\ ~writer'[run'[q]]
    BY DEF BootedSoFar
  <2>1. CASE q = p
    <3>1. pc'[p] \notin {"deploy", "grant", "seed", "revoke"}
      BY <1>3
    <3>2. goal'[p] = "ready" => run'[p] = r /\ mode[r] = "local"
      BY <1>3, NoneIsNoValue
    <3> QED
      BY <1>2, <2>1, <3>1, <3>2
  <2>2. CASE q # p
    <3>1. pc'[q] = pc[q] /\ goal'[q] = goal[q] /\ run'[q] = run[q]
      BY <1>3, <2>2
    <3> QED
      BY <1>2, <3>1 DEF ReadyInv, BootedSoFar
  <2> QED
    BY <2>1, <2>2
<1>10. CleaningIsMarked'
  <2>1. ASSUME NEW q \in Proc, pc'[q] = "rename", goal'[q] \in {"deleting", "cleaned"}
        PROVE  tmp'[run'[q]] \in {"deleting", "cleaned", None}
    <3>1. q # p /\ pc[q] = "rename" /\ goal[q] \in {"deleting", "cleaned"} /\ run'[q] = run[q]
      <4>1. q # p
        BY <1>3, <2>1
      <4> QED
        BY <1>3, <2>1, <4>1
    <3>2. run[q] \in Run
      BY <1>1, <3>1 DEF TypeOK
    <3> QED
      BY <1>7, <1>8, <3>1, <3>2 DEF ReadyInv, CleaningIsMarked
  <2>2. ASSUME NEW q \in Proc, pc'[q] \in {"delete", "await"}
        PROVE  record'[run'[q]] \in {"deleting", "cleaned"}
    <3>1. CASE q = p
      <4>1. goal[p] = "deleting" /\ run'[p] = r
        BY <1>3, <2>2, <3>1
      <4> QED
        BY <1>4, <1>8, <3>1, <4>1
    <3>2. CASE q # p
      <4>1. pc[q] \in {"delete", "await"} /\ run'[q] = run[q] /\ run[q] \in Run
        BY <1>1, <1>3, <2>2, <3>2 DEF TypeOK
      <4>2. CASE run[q] = r
        BY <1>2, <1>4, <1>6, <1>8, <3>2, <4>1, <4>2 DEF Status
      <4> QED
        BY <1>7, <4>1, <4>2 DEF ReadyInv, CleaningIsMarked
    <3> QED
      BY <3>1, <3>2
  <2>3. ASSUME NEW s \in Run, group'[s] = "going"
        PROVE  record'[s] \in {"deleting", "cleaned"}
    <3>1. record[s] \in {"deleting", "cleaned"}
      BY <1>2, <2>3 DEF ReadyInv, CleaningIsMarked
    <3> QED
      BY <1>2, <1>4, <1>5, <1>7, <1>8, <2>3, <3>1 DEF Status
  <2> QED
    BY <2>1, <2>2, <2>3 DEF CleaningIsMarked
<1>11. ReadyIsUsable'
  <2>1. goal[p] = "ready" /\ mode[r] = "azure" => group[r] = "ours" /\ seeded[r] /\ ~writer[r]
    BY DEF ReadyInv, BootedSoFar
  <2>2. tmp[r] = "ready" => goal[p] = "ready"
    BY <1>2, <1>4, <1>5 DEF Status
  <2> QED
    BY <1>2, <1>7, <1>8, <2>1, <2>2 DEF ReadyInv, ReadyIsUsable
<1> QED
  BY <1>9, <1>10, <1>11 DEF ReadyInv

\* Each step of a process keeps the invariant.
LEMMA ReadyStep ==
  ASSUME RunsInv, ReadyInv, NEW p \in Proc,
         Start(p) \/ ScriptStep(p) \/ Fail(p) \/ Kill(p)
  PROVE  ReadyInv'
<1>0. TypeOK
  BY DEF RunsInv
<1> USE NoneIsNoValue DEF RunsInv, TypeOK, Booting, Cleaning, Label, Status, ReadyInv
<1> USE DEF BootedSoFar, CleaningIsMarked, ReadyIsUsable
<1>1. ASSUME NEW r \in Run, NEW m \in {"local", "azure"}, Bootstrap(p, r, m)
      PROVE  ReadyInv'
  BY <1>1 DEF Bootstrap, OnlyRecorded
<1>2. ASSUME NEW r \in Run, Cleanup(p, r)
      PROVE  ReadyInv'
  BY <1>2 DEF Cleanup
<1>3. CASE CleanupAll(p)
  BY <1>3 DEF CleanupAll
<1>4. CASE Written(p)
  BY <1>4 DEF Written, BootsAlone, Boots
<1>5. CASE Renamed(p)
  BY <1>5, RenamedIsReady
<1>6. CASE RenameFails(p)
  BY <1>6 DEF RenameFails, Exit
<1>7. CASE NoCollision(p)
  BY <1>7 DEF NoCollision
<1>8. CASE CreateGroup(p)
  BY <1>8 DEF CreateGroup, Exists, BootsAlone, Boots, BootFiles
<1>9. CASE Deploy(p)
  BY <1>9 DEF Deploy
<1>10. CASE Grant(p)
  BY <1>10 DEF Grant, BootsAlone, Boots, BootFiles
<1>11. CASE Seed(p)
  BY <1>11 DEF Seed
<1>12. CASE Revoke(p)
  BY <1>12 DEF Revoke, Revoked
<1>13. CASE SweepNext(p)
  BY <1>13 DEF SweepNext
<1>14. CASE SweepEnds(p)
  BY <1>14 DEF SweepEnds, Leave
<1>15. CASE LoadRun(p)
  BY <1>0, <1>15, LoadRunGoes
<1>16. CASE AskExists(p)
  BY <1>16 DEF AskExists, Exists
<1>17. CASE CheckOwner(p)
  BY <1>0, <1>17, CheckOwnerGoes
<1>18. CASE DeleteGroup(p)
  <2>1. \A q \in Proc : run[q] = run[p] => ~Boots(q)
    BY <1>18 DEF DeleteGroup, BootsAlone, Boots
  <2>2. /\ UNCHANGED <<fileVars, writer, seeded>> /\ pc[p] = "delete" /\ run[p] \in Run
        /\ group' = group \/ group' = [group EXCEPT ![run[p]] = "going"]
    BY <1>0, <1>18, DeleteGroupGoes
  <2>3. /\ \A q \in Proc \ {p} : pc'[q] = pc[q] /\ goal'[q] = goal[q] /\ run'[q] = run[q]
        /\ pc'[p] \in {"idle", "next", "await"} /\ goal'[p] = None
        /\ pc'[p] = "await" => run'[p] = run[p]
    BY <1>0, <1>18, DeleteGroupGoes
  <2>4. BootedSoFar'
    BY <2>1, <2>2, <2>3 DEF Boots
  <2>5. CleaningIsMarked'
    BY <2>2, <2>3
  <2>6. ReadyIsUsable'
    BY <2>2
  <2> QED
    BY <2>4, <2>5, <2>6
<1>19. CASE GroupDeleted(p)
  BY <1>19 DEF GroupDeleted, Deleted, Exists
<1>20. CASE Fail(p)
  BY <1>20 DEF Fail, Exit
<1>21. CASE Kill(p)
  BY <1>21 DEF Kill, Leave
<1> QED
  BY <1>1, <1>2, <1>3, <1>4, <1>5, <1>6, <1>7, <1>8, <1>9, <1>10, <1>11,
     <1>12, <1>13, <1>14, <1>15, <1>16, <1>17, <1>18, <1>19, <1>20, <1>21 DEF Start, ScriptStep

LEMMA ReadyAzure ==
  ASSUME RunsInv, ReadyInv, NEW r \in Run, GroupGone(r) \/ Retag(r)
  PROVE  ReadyInv'
<1> USE DEF ReadyInv, RunsInv, TypeOK, Booting, BootedSoFar, CleaningIsMarked, ReadyIsUsable
<1>1. CASE GroupGone(r)
  BY <1>1 DEF GroupGone
<1>2. CASE Retag(r)
  BY <1>2, NoneIsNoValue DEF Retag
<1> QED
  BY <1>1, <1>2

LEMMA ReadyInit == Init => ReadyInv
BY NoneIsNoValue DEF Init, ReadyInv, BootedSoFar, CleaningIsMarked, ReadyIsUsable

LEMMA ReadyNext == RunsInv /\ ReadyInv /\ [Next]_vars => ReadyInv'
<1> SUFFICES ASSUME RunsInv, ReadyInv, [Next]_vars
             PROVE  ReadyInv'
  OBVIOUS
<1>1. CASE Next
  BY <1>1, ReadyStep, ReadyAzure DEF Next, Trouble
<1>2. CASE UNCHANGED vars
  BY <1>2 DEF vars, ReadyInv, BootedSoFar, CleaningIsMarked, ReadyIsUsable
<1> QED
  BY <1>1, <1>2

\* A run that says ready has its group, with the values in it and without the
\* temporary right to write them, until somebody begins to clean it up.
THEOREM ReadyRunsAreUsable == Patient => (Spec => []ReadyIsUsable)
<1> SUFFICES ASSUME Patient
             PROVE  Spec => []ReadyIsUsable
  OBVIOUS
<1>1. ReadyInv => ReadyIsUsable
  BY DEF ReadyInv
<1> QED
  BY <1>1, RunsInvHolds, ReadyInit, ReadyNext, PTL DEF Spec

-----------------------------------------------------------------------------
(* What cleanup-all reports: the inductive invariant.                      *)

\* What a sweep has handled without a failure is gone, and stays so: bootstrap is
\* over for each run that the sweep has listed.
SweptAreGone ==
  \A p \in Proc :
    /\ sweeping[p] => pc[p] # "idle" /\ (run[p] = None \/ run[p] \in listed[p])
    /\ ~sweeping[p] => listed[p] = {}
    /\ todo[p] \subseteq listed[p]
    /\ \A r \in listed[p], q \in Proc : run[q] = r => ~Boots(q)
    /\ ~refused[p] => \A r \in listed[p] \ todo[p] : r # run[p] => group[r] = "absent"

\* A step that leaves the sweeps as they are disturbs none, if only bootstrap
\* creates a group.
LEMMA SweepsStay ==
  ASSUME RunsInv, SweptAreGone, NEW p \in Proc, Stays,
         \A q \in Proc \ {p} : pc'[q] = pc[q] /\ goal'[q] = goal[q],
         pc'[p] # "idle", Boots(p)' => Boots(p),
         \A r \in Run : group[r] = "absent" => group'[r] = "absent" \/ (Boots(p) /\ run[p] = r)
  PROVE  SweptAreGone'
<1>1. \A q \in Proc : Boots(q)' => Boots(q)
  BY DEF Boots
<1>2. \A q \in Proc : listed[q] \subseteq Run
  BY DEF RunsInv, TypeOK
<1>3. \A q \in Proc : sweeping[q] => pc'[q] # "idle"
  BY DEF SweptAreGone
<1>4. \A q \in Proc : \A r \in listed[q] : group[r] = "absent" => group'[r] = "absent"
  BY <1>2 DEF SweptAreGone
<1> QED
  BY <1>1, <1>3, <1>4 DEF SweptAreGone

\* A script that ends disturbs no sweep, if it ends well only without a group.
LEMMA SweepsExit ==
  ASSUME RunsInv, SweptAreGone, NEW p \in Proc, NEW ok \in BOOLEAN, Exit(p, ok),
         group' = group, ok /\ sweeping[p] => group[run[p]] = "absent"
  PROVE  SweptAreGone'
<1>1. TypeOK
  BY DEF RunsInv
<1>2. /\ pc'[p] = (IF sweeping[p] THEN "next" ELSE "idle") /\ goal'[p] = None /\ run'[p] = None
      /\ refused'[p] = (sweeping[p] /\ (refused[p] \/ ~ok))
      /\ UNCHANGED <<sweeping, listed, todo>>
      /\ \A q \in Proc \ {p} : /\ pc'[q] = pc[q] /\ goal'[q] = goal[q]
                               /\ run'[q] = run[q] /\ refused'[q] = refused[q]
  BY <1>1 DEF Exit, FailureRemembered, TypeOK
<1>3. \A q \in Proc : run'[q] # None => q # p /\ run'[q] = run[q] /\ (Boots(q)' <=> Boots(q))
  BY <1>2 DEF Boots
<1>4. \A q \in Proc : listed[q] \subseteq Run
  BY <1>1 DEF TypeOK
<1>5. ASSUME NEW q \in Proc
      PROVE  \A r \in listed[q], s \in Proc : run'[s] = r => ~Boots(s)'
  BY <1>3, <1>4, NoneIsNoValue DEF SweptAreGone
<1>6. ASSUME NEW q \in Proc, ~refused'[q], NEW r \in listed[q] \ todo[q], r # run'[q]
      PROVE  group[r] = "absent"
  <2>1. CASE q = p
    <3>1. sweeping[p]
      BY <2>1 DEF SweptAreGone
    <3>2. ok /\ ~refused[p] /\ group[run[p]] = "absent"
      BY <1>2, <1>6, <2>1, <3>1
    <3> QED
      BY <2>1, <3>2 DEF SweptAreGone
  <2>2. CASE q # p
    BY <1>2, <1>6, <2>2 DEF SweptAreGone
  <2> QED
    BY <2>1, <2>2
<1>7. \A q \in Proc : sweeping[q] => pc'[q] # "idle" /\ (run'[q] = None \/ run'[q] \in listed[q])
  BY <1>2 DEF SweptAreGone
<1> QED
  BY <1>2, <1>5, <1>6, <1>7 DEF SweptAreGone

\* A script that is killed, or a sweep that ends, is no sweep any more.
LEMMA SweepsLeave ==
  ASSUME RunsInv, SweptAreGone, NEW p \in Proc, Leave(p), group' = group
  PROVE  SweptAreGone'
<1>1. TypeOK
  BY DEF RunsInv
<1>2. /\ run'[p] = None /\ ~sweeping'[p] /\ listed'[p] = {} /\ todo'[p] = {}
      /\ \A q \in Proc \ {p} : /\ pc'[q] = pc[q] /\ goal'[q] = goal[q] /\ run'[q] = run[q]
                               /\ sweeping'[q] = sweeping[q] /\ refused'[q] = refused[q]
                               /\ listed'[q] = listed[q] /\ todo'[q] = todo[q]
  BY <1>1 DEF Leave, TypeOK
<1>3. \A q \in Proc : run'[q] # None => q # p /\ run'[q] = run[q] /\ (Boots(q)' <=> Boots(q))
  BY <1>2 DEF Boots
<1>4. \A q \in Proc : listed[q] \subseteq Run
  BY <1>1 DEF TypeOK
<1>5. \A q \in Proc : \A r \in listed'[q], s \in Proc : run'[s] = r => ~Boots(s)'
  BY <1>2, <1>3, <1>4, NoneIsNoValue DEF SweptAreGone
<1> QED
  BY <1>2, <1>5 DEF SweptAreGone

LEMMA SweptStart ==
  ASSUME Patient, RunsInv, SweptAreGone, NEW p \in Proc, Start(p)
  PROVE  SweptAreGone'
<1>1. TypeOK
  BY DEF RunsInv
<1>2. /\ group' = group /\ pc[p] = "idle" /\ ~sweeping[p] /\ run[p] = None /\ listed[p] = {}
      /\ \A q \in Proc : listed[q] \subseteq dirs /\ dirs \subseteq Run
  BY <1>1 DEF Start, Bootstrap, Cleanup, CleanupAll, TypeOK, SweptAreGone
<1>3. ASSUME NEW r \in Run, NEW m \in {"local", "azure"}, Bootstrap(p, r, m)
      PROVE  SweptAreGone'
  <2>1. /\ r \notin dirs /\ run'[p] = r /\ UNCHANGED <<sweeping, listed, todo, refused>>
        /\ \A q \in Proc \ {p} : pc'[q] = pc[q] /\ goal'[q] = goal[q] /\ run'[q] = run[q]
    BY <1>1, <1>3 DEF Bootstrap, TypeOK
  <2>2. \A q \in Proc \ {p} : Boots(q)' <=> Boots(q)
    BY <2>1 DEF Boots
  <2>3. \A q \in Proc : \A s \in listed[q], u \in Proc : run'[u] = s => ~Boots(u)'
    BY <1>2, <2>1, <2>2 DEF SweptAreGone
  <2>4. \A q \in Proc : sweeping[q] => q # p
    BY <1>2
  <2> QED
    BY <1>2, <2>1, <2>3, <2>4 DEF SweptAreGone
<1>4. ASSUME NEW r \in Run, Cleanup(p, r)
      PROVE  SweptAreGone'
  <2>1. /\ run'[p] = r /\ pc'[p] = "load" /\ goal'[p] = None
        /\ UNCHANGED <<sweeping, listed, todo, refused>>
        /\ \A q \in Proc \ {p} : pc'[q] = pc[q] /\ goal'[q] = goal[q] /\ run'[q] = run[q]
    BY <1>1, <1>4 DEF Cleanup, TypeOK
  <2>2. ~Boots(p)' /\ \A q \in Proc \ {p} : Boots(q)' <=> Boots(q)
    BY <2>1, NoneIsNoValue DEF Boots, Booting
  <2>3. \A q \in Proc : \A s \in listed[q], u \in Proc : run'[u] = s => ~Boots(u)'
    BY <2>1, <2>2 DEF SweptAreGone
  <2>4. \A q \in Proc : sweeping[q] => q # p
    BY <1>2
  <2> QED
    BY <1>2, <2>1, <2>3, <2>4 DEF SweptAreGone
<1>5. CASE CleanupAll(p)
  <2>1. /\ run' = run /\ refused' = refused
        /\ pc'[p] = "next" /\ goal'[p] = None /\ sweeping'[p] = TRUE
        /\ listed'[p] = dirs /\ todo'[p] = dirs
        /\ \A q \in Proc \ {p} : /\ pc'[q] = pc[q] /\ goal'[q] = goal[q]
                                 /\ sweeping'[q] = sweeping[q]
                                 /\ listed'[q] = listed[q] /\ todo'[q] = todo[q]
    BY <1>1, <1>5 DEF CleanupAll, TypeOK
  <2>2. \A r \in dirs, u \in Proc : run[u] = r => ~Boots(u)
    BY <1>5 DEF CleanupAll, MayClean, IsBooting, Boots
  <2>3. ~Boots(p)' /\ \A q \in Proc \ {p} : Boots(q)' <=> Boots(q)
    BY <2>1, NoneIsNoValue DEF Boots, Booting
  <2>4. \A q \in Proc : \A s \in listed'[q], u \in Proc : run'[u] = s => ~Boots(u)'
    BY <2>1, <2>2, <2>3 DEF SweptAreGone
  <2> QED
    BY <1>2, <2>1, <2>4 DEF SweptAreGone
<1> QED
  BY <1>3, <1>4, <1>5 DEF Start

LEMMA SweptStep ==
  ASSUME RunsInv, SweptAreGone, NEW p \in Proc, ScriptStep(p) \/ Fail(p) \/ Kill(p)
  PROVE  SweptAreGone'
<1>1. TypeOK
  BY DEF RunsInv
<1>2. ASSUME NEW label \in Booting \cup Cleaning \cup {"write", "rename"}, NEW status, Stays,
             pc' = [pc EXCEPT ![p] = label], goal' = [goal EXCEPT ![p] = status],
             label \in Booting \/ status \in {"preparing", "ready"} => Boots(p),
             \A r \in Run : group[r] = "absent" =>
                              group'[r] = "absent" \/ (Boots(p) /\ run[p] = r)
      PROVE  SweptAreGone'
  <2>1. /\ pc'[p] = label /\ goal'[p] = status
        /\ \A q \in Proc \ {p} : pc'[q] = pc[q] /\ goal'[q] = goal[q] /\ run'[q] = run[q]
    BY <1>1, <1>2 DEF TypeOK
  <2>2. Boots(p)' => Boots(p)
    BY <1>2, <2>1 DEF Boots
  <2>3. pc'[p] # "idle"
    BY <1>2, <2>1 DEF Booting, Cleaning
  <2> QED
    BY <1>2, <2>1, <2>2, <2>3, SweepsStay
<1>3. CASE Written(p)
  <2>1. goal[p] \in {"preparing", "ready"} => Boots(p)
    BY DEF Boots
  <2> QED
    <3>1. goal' = [goal EXCEPT ![p] = goal[p]] /\ group' = group
      BY <1>1, <1>3 DEF Written, TypeOK
    <3>2. pc' = [pc EXCEPT ![p] = "rename"] /\ Stays
      BY <1>3 DEF Written
    <3> QED
      BY <1>2, <2>1, <3>1, <3>2 DEF Booting
<1>4. ASSUME NEW ok \in BOOLEAN, Exit(p, ok), group' = group,
             ok /\ sweeping[p] => group[run[p]] = "absent"
      PROVE  SweptAreGone'
  BY <1>4, SweepsExit
<1>5. CASE Renamed(p)
  <2>1. group' = group
    BY <1>5 DEF Renamed
  <2>2. CASE goal[p] \in {"ready", "cleaned"} /\ Exit(p, TRUE)
    <3>1. ASSUME sweeping[p]
          PROVE  group[run[p]] = "absent"
      <4>1. run[p] \in listed[p]
        BY <1>1, <1>5, <3>1 DEF SweptAreGone, Renamed, TypeOK
      <4>2. ~Boots(p)
        BY <4>1 DEF SweptAreGone
      <4> QED
        BY <2>2, <4>2 DEF RunsInv, CleanedWhenGone, Boots
    <3> QED
      BY <1>4, <2>1, <2>2, <3>1
  <2>3. CASE goal[p] = "preparing" /\ Set(p, "ready") /\ Stays
    <3>1. Boots(p)
      BY <2>3 DEF Boots
    <3> QED
      BY <1>2, <2>1, <2>3, <3>1
  <2>4. CASE goal[p] = "preparing" /\ Goto(p, "collide") /\ Stays
    <3>1. Boots(p)
      BY <2>4 DEF Boots
    <3> QED
      BY <1>2, <2>1, <2>4, <3>1 DEF Booting
  <2>5. CASE Goto(p, "delete") /\ Stays
    BY <1>2, <2>1, <2>5, NoneIsNoValue DEF Booting, Cleaning
  <2> QED
    BY <1>5, <2>2, <2>3, <2>4, <2>5 DEF Renamed, Follow
<1>6. CASE NoCollision(p) \/ CreateGroup(p) \/ Deploy(p) \/ Grant(p) \/ Seed(p) \/ Revoke(p)
  <2>1. Boots(p)
    BY <1>6 DEF NoCollision, CreateGroup, Deploy, Grant, Seed, Revoke, Boots, Booting
  <2>2. group' = group \/ group' = [group EXCEPT ![run[p]] = "ours"]
    BY <1>6 DEF NoCollision, CreateGroup, Deploy, Grant, Seed, Revoke
  <2>3. \A r \in Run : group[r] = "absent" => group'[r] = "absent" \/ run[p] = r
    BY <1>1, <2>2 DEF TypeOK
  <2>4. \/ \E label \in Booting : Goto(p, label) /\ Stays
        \/ Set(p, "ready") /\ Stays
    BY <1>6 DEF NoCollision, CreateGroup, Deploy, Grant, Seed, Revoke, Booting
  <2> QED
    BY <1>2, <2>1, <2>3, <2>4
<1>7. CASE SweepNext(p)
  <2>1. PICK r \in todo[p] :
          /\ run' = [run EXCEPT ![p] = r] /\ todo' = [todo EXCEPT ![p] = @ \ {r}]
          /\ UNCHANGED <<sweeping, listed, refused, group>>
          /\ pc' = [pc EXCEPT ![p] = "load"] /\ goal' = [goal EXCEPT ![p] = None]
    BY <1>7 DEF SweepNext
  <2>2. r \in Run /\ run[p] = None
    BY <1>1, <1>7, <2>1 DEF TypeOK, SweepNext
  <2>3. /\ run'[p] = r /\ todo'[p] = todo[p] \ {r} /\ pc'[p] = "load" /\ goal'[p] = None
        /\ \A q \in Proc \ {p} : /\ pc'[q] = pc[q] /\ goal'[q] = goal[q]
                                 /\ run'[q] = run[q] /\ todo'[q] = todo[q]
    BY <1>1, <2>1 DEF TypeOK
  <2>4. ~Boots(p)' /\ \A q \in Proc \ {p} : Boots(q)' <=> Boots(q)
    BY <2>3, NoneIsNoValue DEF Boots, Booting
  <2>5. \A q \in Proc : \A s \in listed[q], u \in Proc : run'[u] = s => ~Boots(u)'
    BY <2>3, <2>4 DEF SweptAreGone
  <2>6. \A q \in Proc : todo'[q] \subseteq todo[q]
    BY <2>3
  <2>7. ASSUME NEW q \in Proc, ~refused[q], NEW s \in listed[q] \ todo'[q], s # run'[q]
        PROVE  group[s] = "absent"
    <3>1. CASE q = p
      <4>1. s \notin todo[p] /\ s # None
        BY <1>1, <2>3, <2>7, <3>1, NoneIsNoValue DEF TypeOK
      <4> QED
        BY <2>2, <2>7, <3>1, <4>1 DEF SweptAreGone
    <3>2. CASE q # p
      BY <2>3, <2>7, <3>2 DEF SweptAreGone
    <3> QED
      BY <3>1, <3>2
  <2>8. \A q \in Proc : sweeping[q] => pc'[q] # "idle" /\ (run'[q] = None \/ run'[q] \in listed[q])
    BY <2>1, <2>3 DEF SweptAreGone
  <2> QED
    BY <2>1, <2>5, <2>6, <2>7, <2>8 DEF SweptAreGone
<1>8. CASE SweepEnds(p) \/ Kill(p)
  BY <1>8, SweepsLeave DEF SweepEnds, Kill
<1>9. CASE LoadRun(p)
  <2>1. group' = group
    BY <1>9 DEF LoadRun
  <2>2. CASE Skipped(run[p]) /\ Exit(p, TRUE)
    <3>1. run[p] \in Run
      BY <1>1, <1>9 DEF LoadRun, TypeOK
    <3>2. group[run[p]] = "absent"
      BY <2>2, <3>1 DEF RunsInv, GroupsAreRecorded, Skipped
    <3> QED
      BY <1>4, <2>1, <2>2, <3>2
  <2>3. CASE Exit(p, FALSE)
    BY <1>4, <2>1, <2>3
  <2>4. CASE Stays /\ (Set(p, "cleaned") \/ Goto(p, "exists"))
    BY <1>2, <2>1, <2>4, NoneIsNoValue DEF Booting, Cleaning
  <2> QED
    BY <1>9, <2>2, <2>3, <2>4 DEF LoadRun
<1>10. CASE RenameFails(p) \/ Fail(p)
  BY <1>4, <1>10 DEF RenameFails, Fail
<1>11. CASE AskExists(p) \/ GroupDeleted(p)
  <2>1. Stays /\ (Set(p, "cleaned") \/ Goto(p, "show")) /\ group' = group
    BY <1>11 DEF AskExists, GroupDeleted
  <2> QED
    BY <1>2, <2>1, NoneIsNoValue DEF Booting, Cleaning
<1>12. CASE CheckOwner(p)
  <2>1. group' = group /\ (Exit(p, FALSE) \/ (Set(p, "deleting") /\ Stays))
    BY <1>12 DEF CheckOwner, MarkFirst
  <2> QED
    BY <1>2, <1>4, <2>1 DEF Booting
<1>13. CASE DeleteGroup(p)
  <2>1. CASE Exit(p, FALSE) /\ UNCHANGED group
    BY <1>4, <2>1
  <2>2. CASE /\ Exists(run[p]) /\ group' = [group EXCEPT ![run[p]] = "going"]
             /\ Goto(p, "await") /\ Stays
    <3>1. \A r \in Run : group[r] = "absent" => group'[r] = "absent"
      BY <1>1, <2>2 DEF TypeOK, Exists
    <3> QED
      BY <1>2, <2>2, <3>1, NoneIsNoValue DEF Booting, Cleaning
  <2> QED
    BY <1>13, <2>1, <2>2 DEF DeleteGroup
<1> QED
  BY <1>3, <1>5, <1>6, <1>7, <1>8, <1>9, <1>10, <1>11, <1>12, <1>13 DEF ScriptStep

LEMMA SweptAzure ==
  ASSUME RunsInv, SweptAreGone, NEW r \in Run, GroupGone(r) \/ Retag(r)
  PROVE  SweptAreGone'
<1>1. UNCHANGED procVars /\ \A s \in Run : group[s] = "absent" => group'[s] = "absent"
  BY DEF GroupGone, Retag, RunsInv, TypeOK
<1>2. \A q \in Proc : listed[q] \subseteq Run
  BY DEF RunsInv, TypeOK
<1> QED
  BY <1>1, <1>2 DEF SweptAreGone, Boots

LEMMA SweptInit == Init => SweptAreGone
BY DEF Init, SweptAreGone

LEMMA SweptNext == Patient /\ RunsInv /\ SweptAreGone /\ [Next]_vars => SweptAreGone'
<1> SUFFICES ASSUME Patient, RunsInv, SweptAreGone, [Next]_vars
             PROVE  SweptAreGone'
  OBVIOUS
<1>1. CASE Next
  BY <1>1, SweptStart, SweptStep, SweptAzure DEF Next, Trouble
<1>2. CASE UNCHANGED vars
  BY <1>2 DEF vars, SweptAreGone, Boots
<1> QED
  BY <1>1, <1>2

\* cleanup-all reports success only when no run it has listed has a group any more,
\* however many cleanups of the same runs overlap with it.
THEOREM SweepsReportTruly == Patient => (Spec => []SweepReportsTruly)
<1> SUFFICES ASSUME Patient
             PROVE  Spec => []SweepReportsTruly
  OBVIOUS
<1>1. RunsInv /\ SweptAreGone => SweepReportsTruly
  <2> SUFFICES ASSUME RunsInv, SweptAreGone, NEW p \in Proc, pc[p] = "next", todo[p] = {},
                      ~refused[p], NEW r \in listed[p]
               PROVE  group[r] = "absent"
    BY DEF SweepReportsTruly
  <2>1. run[p] = None /\ r \in Run
    BY DEF RunsInv, TypeOK
  <2> QED
    BY <2>1, NoneIsNoValue DEF SweptAreGone
<1> QED
  BY <1>1, RunsInvHolds, SweptInit, SweptNext, PTL DEF Spec

-----------------------------------------------------------------------------
(* What holds whether or not a cleanup waits for the bootstrap.            *)

\* Between the look at its tags and its deletion no group is taken over.
OwnersAsked ==
  \A p \in Proc : pc[p] = "delete" \/ goal[p] = "deleting" => group[run[p]] # "foreign"

LEMMA OwnersStep ==
  ASSUME TypeOK, OwnersAsked, NEW p \in Proc, Start(p) \/ ScriptStep(p) \/ Fail(p) \/ Kill(p)
  PROVE  OwnersAsked'
<1> USE NoneIsNoValue DEF TypeOK, OwnersAsked
<1>1. ASSUME NEW r \in Run, NEW m \in {"local", "azure"}, Bootstrap(p, r, m)
      PROVE  OwnersAsked'
  BY <1>1 DEF Bootstrap
<1>2. ASSUME NEW r \in Run, Cleanup(p, r)
      PROVE  OwnersAsked'
  BY <1>2 DEF Cleanup
<1>3. CASE CleanupAll(p)
  BY <1>3 DEF CleanupAll
<1>4. CASE Written(p)
  BY <1>4 DEF Written
<1>5. CASE Renamed(p)
  <2>1. group' = group /\ \A q \in Proc \ {p} :
                           pc'[q] = pc[q] /\ goal'[q] = goal[q] /\ run'[q] = run[q]
    BY <1>5, RenamedGoes DEF Renamed
  <2>2. /\ goal'[p] # "deleting"
        /\ pc'[p] = "delete" => goal[p] = "deleting" /\ run'[p] = run[p]
    BY <1>5, RenamedGoes
  <2> QED
    BY <2>1, <2>2
<1>6. CASE RenameFails(p)
  BY <1>6 DEF RenameFails, Exit
<1>7. CASE NoCollision(p)
  BY <1>7 DEF NoCollision
<1>8. CASE CreateGroup(p)
  BY <1>8 DEF CreateGroup
<1>9. CASE Deploy(p)
  BY <1>9 DEF Deploy
<1>10. CASE Grant(p)
  BY <1>10 DEF Grant
<1>11. CASE Seed(p)
  BY <1>11 DEF Seed
<1>12. CASE Revoke(p)
  BY <1>12 DEF Revoke
<1>13. CASE SweepNext(p)
  BY <1>13 DEF SweepNext
<1>14. CASE SweepEnds(p)
  BY <1>14 DEF SweepEnds, Leave
<1>15. CASE LoadRun(p)
  BY <1>15, LoadRunGoes
<1>16. CASE AskExists(p)
  BY <1>16 DEF AskExists
<1>17. CASE CheckOwner(p)
  BY <1>17, CheckOwnerGoes DEF IsOwn
<1>18. CASE DeleteGroup(p)
  BY <1>18, DeleteGroupGoes
<1>19. CASE GroupDeleted(p)
  BY <1>19 DEF GroupDeleted
<1>20. CASE Fail(p)
  BY <1>20 DEF Fail, Exit
<1>21. CASE Kill(p)
  BY <1>21 DEF Kill, Leave
<1> QED
  BY <1>1, <1>2, <1>3, <1>4, <1>5, <1>6, <1>7, <1>8, <1>9, <1>10, <1>11,
     <1>12, <1>13, <1>14, <1>15, <1>16, <1>17, <1>18, <1>19, <1>20, <1>21 DEF Start, ScriptStep

LEMMA OwnersNext == TypeOK /\ OwnersAsked /\ [Next]_vars => OwnersAsked'
<1> SUFFICES ASSUME TypeOK, OwnersAsked, [Next]_vars
             PROVE  OwnersAsked'
  OBVIOUS
<1>1. ASSUME NEW r \in Run, GroupGone(r)
      PROVE  OwnersAsked'
  BY <1>1 DEF GroupGone, TypeOK, OwnersAsked
<1>2. ASSUME NEW r \in Run, Retag(r)
      PROVE  OwnersAsked'
  BY <1>2 DEF Retag, TypeOK, OwnersAsked
<1>3. CASE UNCHANGED vars
  BY <1>3 DEF vars, OwnersAsked
<1> QED
  BY <1>1, <1>2, <1>3, OwnersStep DEF Next, Trouble

\* A group that somebody has taken over is never deleted, by a cleanup that waits
\* for the bootstrap or one that does not.
THEOREM ForeignGroupsAreSpared == Spec => ForeignIsSpared
<1> DEFINE Spared == \A r \in Run : group[r] = "foreign" => group'[r] = "foreign"
<1>1. ASSUME TypeOK, OwnersAsked, Next
      PROVE  Spared
  <2>1. ASSUME NEW r \in Run, GroupGone(r) \/ Retag(r)
        PROVE  Spared
    BY <1>1, <2>1 DEF GroupGone, Retag, TypeOK
  <2>2. ASSUME NEW p \in Proc, DeleteGroup(p)
        PROVE  Spared
    <3>1. group[run[p]] # "foreign"
      BY <1>1, <2>2 DEF OwnersAsked, DeleteGroup
    <3>2. group' = group \/ group' = [group EXCEPT ![run[p]] = "going"]
      BY <1>1, <2>2, DeleteGroupGoes
    <3> QED
      BY <1>1, <3>1, <3>2 DEF TypeOK
  <2>3. ASSUME NEW p \in Proc, CreateGroup(p)
        PROVE  Spared
    BY <1>1, <2>3 DEF CreateGroup, Exists, TypeOK
  <2>4. ASSUME NEW p \in Proc, ~DeleteGroup(p), ~CreateGroup(p),
               Start(p) \/ ScriptStep(p) \/ Fail(p) \/ Kill(p)
        PROVE  group' = group
    BY <2>4 DEF Start, ScriptStep, Fail, Kill, Bootstrap, Cleanup, CleanupAll, Written, Renamed,
                RenameFails, NoCollision, Deploy, Grant, Seed, Revoke, SweepNext, SweepEnds,
                LoadRun, AskExists, CheckOwner, GroupDeleted
  <2> QED
    BY <1>1, <2>1, <2>2, <2>3, <2>4 DEF Next, Trouble
<1>2. TypeOK /\ OwnersAsked /\ [Next]_vars => [Spared]_vars
  <2>1. UNCHANGED vars => [Spared]_vars
    OBVIOUS
  <2> QED
    BY <1>1, <2>1
<1>3. Init => OwnersAsked
  BY NoneIsNoValue DEF Init, OwnersAsked
<1> HIDE DEF Spared
<1>4. Spec => [][Spared]_vars
  BY <1>2, <1>3, TypeCorrect, OwnersNext, PTL DEF Spec
<1> QED
  BY <1>4 DEF Spared, ForeignIsSpared
=============================================================================
