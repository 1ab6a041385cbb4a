------------------------------ MODULE RunScripts ------------------------------
(***************************************************************************)
(* script/bootstrap, script/cleanup and script/cleanup-all as processes    *)
(* that share the run records under .runs and the resource groups in       *)
(* Azure.  A step is one change of a file or one call of az; it may fail,  *)
(* which ends the script (set -e), and a process may be killed before it.  *)
(*                                                                         *)
(* A run record is known by its status.  A resource group is "ours" while  *)
(* it has the tags of its run, "foreign" when it has others, and "going"   *)
(* from the time its deletion was accepted until it is gone.               *)
(***************************************************************************)
CONSTANTS
  Proc,    \* processes that run one script after another
  Run,     \* run IDs; bootstrap never uses one twice
  None,
  Patient  \* whether a run is cleaned up only after its bootstrap has ended

ASSUME NoneIsNoValue ==
  None \notin Run \cup {"preparing", "ready", "deleting", "cleaned", "local", "azure"}
ASSUME PatientIsBoolean == Patient \in BOOLEAN

VARIABLES
  pc, run, goal,           \* per process: where, for which run, status to set
  sweeping, listed, todo,  \* cleanup-all: RUN_DIRS, and those not handled yet
  refused,                 \* FAILED of cleanup-all is not empty
  dirs, record, tmp,       \* .runs/<run>, its state.json, its state.tmp
  mode,
  group, writer, seeded    \* in Azure: the group, Data Owner granted, values

procVars == <<pc, run, goal, sweeping, listed, todo, refused>>
fileVars == <<dirs, record, tmp, mode>>
azureVars == <<group, writer, seeded>>
vars == <<procVars, fileVars, azureVars>>

Booting == {"collide", "group", "deploy", "grant", "seed", "revoke"}
Cleaning == {"load", "exists", "show", "delete", "await"}

Init ==
  /\ pc = [p \in Proc |-> "idle"]
  /\ run = [p \in Proc |-> None] /\ goal = [p \in Proc |-> None]
  /\ sweeping = [p \in Proc |-> FALSE] /\ refused = [p \in Proc |-> FALSE]
  /\ listed = [p \in Proc |-> {}] /\ todo = [p \in Proc |-> {}]
  /\ dirs = {}
  /\ record = [r \in Run |-> None] /\ tmp = [r \in Run |-> None]
  /\ mode = [r \in Run |-> None]
  /\ group = [r \in Run |-> "absent"]
  /\ writer = [r \in Run |-> FALSE] /\ seeded = [r \in Run |-> FALSE]

-----------------------------------------------------------------------------
(* How a script goes on and how it ends.                                   *)

Goto(p, label) == /\ pc' = [pc EXCEPT ![p] = label]
                  /\ goal' = [goal EXCEPT ![p] = None]
Set(p, status) == /\ pc' = [pc EXCEPT ![p] = "write"]
                  /\ goal' = [goal EXCEPT ![p] = status]
Stays == UNCHANGED <<run, sweeping, listed, todo, refused>>

\* Mutant: cleanup-all does not remember what failed.
FailureIgnored(p, ok) == refused[p]

FailureRemembered(p, ok) == refused[p] \/ ~ok

\* The script ends, with status 0 if ok; inside cleanup-all the next run follows.
Exit(p, ok) ==
  /\ Goto(p, IF sweeping[p] THEN "next" ELSE "idle")
  /\ run' = [run EXCEPT ![p] = None]
  /\ refused' = [refused EXCEPT ![p] = sweeping[p] /\ FailureRemembered(p, ok)]
  /\ UNCHANGED <<sweeping, listed, todo>>

Leave(p) ==
  /\ Goto(p, "idle")
  /\ run' = [run EXCEPT ![p] = None]
  /\ sweeping' = [sweeping EXCEPT ![p] = FALSE]
  /\ refused' = [refused EXCEPT ![p] = FALSE]
  /\ listed' = [listed EXCEPT ![p] = {}] /\ todo' = [todo EXCEPT ![p] = {}]

\* A command of the script fails.
Fail(p) == run[p] # None /\ Exit(p, FALSE) /\ UNCHANGED <<fileVars, azureVars>>

\* Ctrl-C, or the end of the machine.
Kill(p) == pc[p] # "idle" /\ Leave(p) /\ UNCHANGED <<fileVars, azureVars>>

-----------------------------------------------------------------------------
(* _state.py: the new state is written beside the file and renamed.        *)

Written(p) ==
  /\ pc[p] = "write" /\ (goal[p] = "preparing" \/ record[run[p]] # None)
  /\ tmp' = [tmp EXCEPT ![run[p]] = goal[p]]
  /\ pc' = [pc EXCEPT ![p] = "rename"]
  /\ UNCHANGED <<goal, dirs, record, mode, azureVars>> /\ Stays

\* What follows a status that has been set.
Follow(p) ==
  LET r == run[p] IN
  \/ goal[p] = "preparing" /\ mode[r] = "local" /\ Set(p, "ready") /\ Stays
  \/ goal[p] = "preparing" /\ mode[r] = "azure" /\ Goto(p, "collide") /\ Stays
  \/ goal[p] = "deleting" /\ Goto(p, "delete") /\ Stays
  \/ goal[p] \in {"ready", "cleaned"} /\ Exit(p, TRUE)

Renamed(p) ==
  /\ pc[p] = "rename" /\ tmp[run[p]] # None
  /\ record' = [record EXCEPT ![run[p]] = tmp[run[p]]]
  /\ tmp' = [tmp EXCEPT ![run[p]] = None]
  /\ Follow(p)
  /\ UNCHANGED <<dirs, mode, azureVars>>

\* Another process has renamed the file that both wrote.
RenameFails(p) ==
  /\ pc[p] = "rename" /\ tmp[run[p]] = None
  /\ Exit(p, FALSE)
  /\ UNCHANGED <<fileVars, azureVars>>

-----------------------------------------------------------------------------
(* bootstrap.                                                              *)

Bootstrap(p, r, m) ==
  /\ pc[p] = "idle" /\ r \notin dirs
  /\ dirs' = dirs \cup {r}
  /\ mode' = [mode EXCEPT ![r] = m]
  /\ run' = [run EXCEPT ![p] = r]
  /\ Set(p, "preparing")
  /\ UNCHANGED <<sweeping, listed, todo, refused, record, tmp, azureVars>>

Exists(r) == group[r] # "absent"
Usable(r) == group[r] = "ours"

NoCollision(p) ==
  /\ pc[p] = "collide" /\ ~Exists(run[p])
  /\ Goto(p, "group") /\ Stays
  /\ UNCHANGED <<fileVars, azureVars>>

CreateGroup(p) ==
  /\ pc[p] = "group" /\ ~Exists(run[p])
  /\ group' = [group EXCEPT ![run[p]] = "ours"]
  /\ Goto(p, "deploy") /\ Stays
  /\ UNCHANGED <<fileVars, writer, seeded>>

Deploy(p) ==
  /\ pc[p] = "deploy" /\ Usable(run[p])
  /\ Goto(p, "grant") /\ Stays
  /\ UNCHANGED <<fileVars, azureVars>>

Grant(p) ==
  /\ pc[p] = "grant" /\ Usable(run[p])
  /\ writer' = [writer EXCEPT ![run[p]] = TRUE]
  /\ Goto(p, "seed") /\ Stays
  /\ UNCHANGED <<fileVars, group, seeded>>

Seed(p) ==
  /\ pc[p] = "seed" /\ record[run[p]] # None /\ Usable(run[p]) /\ writer[run[p]]
  /\ seeded' = [seeded EXCEPT ![run[p]] = TRUE]
  /\ Goto(p, "revoke") /\ Stays
  /\ UNCHANGED <<fileVars, group, writer>>

\* Mutant: the grant is left in place.
Kept(r) == writer

Revoked(r) == [writer EXCEPT ![r] = FALSE]

Revoke(p) ==
  /\ pc[p] = "revoke"
  /\ writer' = Revoked(run[p])
  /\ Set(p, "ready") /\ Stays
  /\ UNCHANGED <<fileVars, group, seeded>>

-----------------------------------------------------------------------------
(* cleanup and cleanup-all.                                                *)

IsBooting(r) ==
  \E q \in Proc : run[q] = r /\ (pc[q] \in Booting \/ goal[q] \in {"preparing", "ready"})

MayClean(r) == Patient => ~IsBooting(r)

Cleanup(p, r) ==
  /\ pc[p] = "idle" /\ r \in dirs /\ MayClean(r)
  /\ run' = [run EXCEPT ![p] = r]
  /\ Goto(p, "load")
  /\ UNCHANGED <<sweeping, listed, todo, refused, fileVars, azureVars>>

CleanupAll(p) ==
  /\ pc[p] = "idle" /\ dirs # {} /\ \A r \in dirs : MayClean(r)
  /\ sweeping' = [sweeping EXCEPT ![p] = TRUE]
  /\ listed' = [listed EXCEPT ![p] = dirs] /\ todo' = [todo EXCEPT ![p] = dirs]
  /\ Goto(p, "next")
  /\ UNCHANGED <<run, refused, fileVars, azureVars>>

SweepNext(p) ==
  /\ pc[p] = "next"
  /\ \E r \in todo[p] :
       /\ run' = [run EXCEPT ![p] = r]
       /\ todo' = [todo EXCEPT ![p] = @ \ {r}]
  /\ Goto(p, "load")
  /\ UNCHANGED <<sweeping, listed, refused, fileVars, azureVars>>

SweepEnds(p) ==
  /\ pc[p] = "next" /\ todo[p] = {}
  /\ Leave(p)
  /\ UNCHANGED <<fileVars, azureVars>>

\* Mutant: a run whose deletion was once begun is taken for cleaned.
SkippedEarly(r) == record[r] \in {"deleting", "cleaned"}

Skipped(r) == record[r] = "cleaned"

LoadRun(p) ==
  LET r == run[p] IN
  /\ pc[p] = "load"
  /\ \/ record[r] = None /\ Exit(p, FALSE)
     \/ Skipped(r) /\ Exit(p, TRUE)
     \/ /\ record[r] # None /\ ~Skipped(r) /\ Stays
        /\ IF mode[r] = "local" THEN Set(p, "cleaned") ELSE Goto(p, "exists")
  /\ UNCHANGED <<fileVars, azureVars>>

AskExists(p) ==
  /\ pc[p] = "exists"
  /\ IF Exists(run[p]) THEN Goto(p, "show") ELSE Set(p, "cleaned")
  /\ Stays /\ UNCHANGED <<fileVars, azureVars>>

\* Mutant: the tags are not looked at.
AnybodysGroup(r) == Exists(r)

IsOwn(r) == group[r] \in {"ours", "going"}

\* Mutant: the group is deleted before the record says so.
DeleteFirst(p) == Goto(p, "delete")

\* Mutant: a status that no script knows.
MarkUnknown(p) == Set(p, "removing")

MarkFirst(p) == Set(p, "deleting")

\* group show and the ownership check on its answer.
CheckOwner(p) ==
  /\ pc[p] = "show"
  /\ IF IsOwn(run[p]) THEN MarkFirst(p) /\ Stays ELSE Exit(p, FALSE)
  /\ UNCHANGED <<fileVars, azureVars>>

DeleteGroup(p) ==
  /\ pc[p] = "delete"
  /\ IF Exists(run[p])
       THEN /\ group' = [group EXCEPT ![run[p]] = "going"]
            /\ Goto(p, "await") /\ Stays
       ELSE Exit(p, FALSE) /\ UNCHANGED group
  /\ UNCHANGED <<fileVars, writer, seeded>>

\* Mutant: the script does not wait for the deletion to complete.
Accepted(r) == TRUE

Deleted(r) == ~Exists(r)

GroupDeleted(p) ==
  /\ pc[p] = "await" /\ Deleted(run[p])
  /\ Set(p, "cleaned") /\ Stays
  /\ UNCHANGED <<fileVars, azureVars>>

-----------------------------------------------------------------------------
(* Azure and its other users.                                              *)

\* The group goes with all that is in it, and with what was granted on it.
GroupGone(r) ==
  /\ group[r] = "going"
  /\ group' = [group EXCEPT ![r] = "absent"]
  /\ writer' = [writer EXCEPT ![r] = FALSE]
  /\ seeded' = [seeded EXCEPT ![r] = FALSE]
  /\ UNCHANGED <<procVars, fileVars>>

\* Somebody takes the group over, while no script works on it.
Retag(r) ==
  /\ group[r] = "ours" /\ \A p \in Proc : run[p] # r
  /\ group' = [group EXCEPT ![r] = "foreign"]
  /\ UNCHANGED <<procVars, fileVars, writer, seeded>>

-----------------------------------------------------------------------------
ScriptStep(p) ==
  \/ Written(p) \/ Renamed(p) \/ RenameFails(p)
  \/ NoCollision(p) \/ CreateGroup(p) \/ Deploy(p) \/ Grant(p) \/ Seed(p) \/ Revoke(p)
  \/ SweepNext(p) \/ SweepEnds(p)
  \/ LoadRun(p) \/ AskExists(p) \/ CheckOwner(p) \/ DeleteGroup(p) \/ GroupDeleted(p)

Start(p) ==
  \/ \E r \in Run, m \in {"local", "azure"} : Bootstrap(p, r, m)
  \/ \E r \in Run : Cleanup(p, r)
  \/ CleanupAll(p)

Trouble == (\E p \in Proc : Fail(p) \/ Kill(p)) \/ \E r \in Run : Retag(r)

Next == (\E p \in Proc : Start(p) \/ ScriptStep(p)) \/ (\E r \in Run : GroupGone(r)) \/ Trouble

Spec == Init /\ [][Next]_vars

\* Scripts that run go on, and Azure completes the deletions it has accepted.
Fairness == /\ \A p \in Proc : WF_vars(ScriptStep(p))
            /\ \A r \in Run : WF_vars(GroupGone(r))
FairSpec == Spec /\ Fairness

-----------------------------------------------------------------------------
(* Properties.                                                             *)

Status == {"preparing", "ready", "deleting", "cleaned"}
Label == Booting \cup Cleaning \cup {"idle", "write", "rename", "next"}

\* Every variable has the type it has in the scripts, and the locals of a
\* script that has ended are reset.
TypeOK ==
  /\ pc \in [Proc -> Label]
  /\ run \in [Proc -> Run \cup {None}] /\ goal \in [Proc -> Status \cup {None}]
  /\ sweeping \in [Proc -> BOOLEAN] /\ refused \in [Proc -> BOOLEAN]
  /\ listed \in [Proc -> SUBSET dirs] /\ todo \in [Proc -> SUBSET dirs]
  /\ \A p \in Proc : run[p] = None <=> pc[p] \in {"idle", "next"}
  /\ \A p \in Proc : goal[p] # None <=> pc[p] \in {"write", "rename"}
  /\ dirs \subseteq Run
  /\ record \in [Run -> Status \cup {None}] /\ tmp \in [Run -> Status \cup {None}]
  /\ mode \in [Run -> {"local", "azure", None}]
  /\ group \in [Run -> {"absent", "ours", "foreign", "going"}]
  /\ writer \in [Run -> BOOLEAN] /\ seeded \in [Run -> BOOLEAN]

\* No resource group is left behind that cleanup would not find: as long as it
\* exists, its run has a readable record that is not marked cleaned, wherever
\* bootstrap or a cleanup was killed and however cleanups overlap.
GroupsAreRecorded ==
  \A r \in Run : group[r] # "absent" => record[r] \in Status \ {"cleaned"}

\* A run that server accepts has its group, with the values in it, and the
\* temporary right to write them has been taken back.
ReadyIsUsable ==
  \A r \in Run : record[r] = "ready" /\ mode[r] = "azure" =>
    group[r] \in {"ours", "foreign"} /\ seeded[r] /\ ~writer[r]

\* When cleanup-all is about to report that all runs are cleaned, none of them
\* has a group, in spite of other cleanups that run at the same time.
SweepReportsTruly ==
  \A p \in Proc : pc[p] = "next" /\ todo[p] = {} /\ ~refused[p] =>
    \A r \in listed[p] : group[r] = "absent"

\* A group that somebody else has taken over is never deleted.
ForeignIsSpared == [][\A r \in Run : group[r] = "foreign" => group'[r] = "foreign"]_vars

\* A command failed, or a script was killed: a step that is no step of a script.
CommandFails == \E p \in Proc : (Fail(p) \/ Kill(p)) /\ ~ScriptStep(p)
Sweeping(p) == pc[p] = "next" /\ todo[p] = listed[p]

\* If cleanup-all is run again and again while commands succeed, each run that
\* has a record is cleaned, whatever happened before.
RetriesClean ==
  (<>[][~CommandFails]_vars /\ \E p \in Proc : []<>Sweeping(p)) =>
    \A r \in Run : record[r] # None ~> (record[r] = "cleaned" \/ group[r] = "foreign")

\* A run marked cleaned has no group any more (tests/test_scripts.py,
\* test_cleanup_all_cleans_every_run_and_is_idempotent).
CleanedIsGone == \A r \in Run : record[r] = "cleaned" => group[r] = "absent"
=============================================================================
