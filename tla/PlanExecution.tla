---------------------------- MODULE PlanExecution ----------------------------
(***************************************************************************)
(* Execution of a prepared plan around boot environments:                  *)
(* ImageInterface.execute_plan() (client/api.py), BootEnv                  *)
(* (client/bootenv.py) and the operation history (client/history.py).      *)
(*                                                                         *)
(* A plan for the running system is executed either in the running boot    *)
(* environment, with a snapshot to return to, or in a clone that becomes   *)
(* active at the next boot; a plan for an alternate root is rolled back    *)
(* when it fails.  Every boot environment holds an image: the operations   *)
(* that were done in it, those that began and did not end, and its         *)
(* history.  The lock of an image follows the image's root: it moves to    *)
(* the clone and back.  A client may die at any step, and the machine may  *)
(* be rebooted.                                                            *)
(***************************************************************************)
EXTENDS Naturals, FiniteSets

CONSTANTS
    Client,     \* the clients; each plans and executes one operation
    None,       \* no client
    MaxBe,      \* bound: the boot environments are among 0 .. MaxBe
    Faults      \* the failures that are not excluded: see FaultNames

FaultNames == {"activate", "rollback", "children"}

ASSUME ClientAssumption == None \notin Client
ASSUME BoundAssumption == MaxBe \in Nat /\ MaxBe >= 1
ASSUME FaultsAssumption == Faults \subseteq FaultNames

VARIABLES
    be,         \* the image in every boot environment
    snap,       \* the snapshot a client has taken, a copy of an image
    running,    \* the boot environment mounted on /
    active,     \* the boot environment of the next boot
    lock,       \* the holder of the lock of every image
    pc, job,    \* where a client is, and its operation
    open,       \* the operations on the history stacks
    told        \* what the user was told at the end

envs == <<be, snap, running, active>>
vars == <<be, snap, running, active, lock, pc, job, open, told>>

Alternate == 1      \* the boot environment mounted at an alternate root
NoSnap == [none |-> TRUE]
NoJob == [mode |-> "none"]
Empty == [done |-> {}, half |-> {}, hist |-> {}]

Init ==
    /\ be = [b \in {0, Alternate} |-> Empty]
    /\ snap = [c \in Client |-> NoSnap]
    /\ running = 0 /\ active = 0
    /\ lock = [b \in 0 .. MaxBe |-> None]
    /\ pc = [c \in Client |-> "none"] /\ job = [c \in Client |-> NoJob]
    /\ open = {} /\ told = [c \in Client |-> "nothing"]

-----------------------------------------------------------------------------
(* libbe: a copy of an image becomes a new boot environment.               *)
Fresh == Cardinality(DOMAIN be)
Room == Fresh <= MaxBe
Copied(image) == [b \in DOMAIN be \cup {Fresh} |->
                      IF b = Fresh THEN image ELSE be[b]]

(* History.log_operation_end(): the result of the operation under way is   *)
(* written to the history of the image at b.  abort() does the same, and   *)
(* does nothing when no operation is under way.                            *)
Recorded(bes, b, c, result) ==
    IF c \in open THEN [bes EXCEPT ![b].hist = @ \cup {<<c, result>>}] ELSE bes

Live(c) == job[c].target = running
InBe(c) == job[c].env = "be"

Goto(c, s) == pc' = [pc EXCEPT ![c] = s]
Freed(c) == [b \in 0 .. MaxBe |-> IF lock[b] = c THEN None ELSE lock[b]]

(* execute_plan() returns or raises, and the client exits.                 *)
End(c, t) ==
    /\ Goto(c, "ended")
    /\ told' = [told EXCEPT ![c] = t]
    /\ open' = open \ {c}
    /\ lock' = Freed(c)
    /\ UNCHANGED <<running, job>>

(* A plan is made and prepared, under locks that are released again.  Only *)
(* a plan for the running system may ask for a new or a backup boot        *)
(* environment.                                                            *)
Plan(c) ==
    /\ pc[c] = "none"
    /\ \E b \in {running, Alternate}, m \in {"direct", "new"}, backup \in BOOLEAN :
           /\ lock[b] = None
           /\ m = "new" \/ backup => b = running
           /\ backup => m = "direct"
           /\ job' = [job EXCEPT ![c] = [mode |-> m, target |-> b, root |-> b,
                                         backup |-> backup, env |-> "none",
                                         plan |-> be[b].done]]
    /\ Goto(c, "planned")
    /\ open' = open \cup {c}
    /\ UNCHANGED <<envs, lock, told>>

(* Mutant: the image is used although another client has locked it.        *)
MutLockImage(c) ==
    /\ pc[c] = "planned"
    /\ lock' = [lock EXCEPT ![job[c].target] = c]
    /\ Goto(c, "locked")
    /\ UNCHANGED <<envs, job, open, told>>

LockImage(c) ==
    /\ pc[c] = "planned"
    /\ lock[job[c].target] = None
    /\ lock' = [lock EXCEPT ![job[c].target] = c]
    /\ Goto(c, "locked")
    /\ UNCHANGED <<envs, job, open, told>>

(* The lock is taken: the client aborts the operation, which records it.   *)
LockFails(c) ==
    /\ pc[c] = "planned"
    /\ lock[job[c].target] # None
    /\ be' = Recorded(be, job[c].target, c, "failed")
    /\ End(c, "locked")
    /\ UNCHANGED <<snap, active>>

(* BootEnv(): a snapshot is taken.  If there is no boot environment, or no *)
(* snapshot can be taken, BootEnvNull is used, which does nothing.         *)
MakeBootEnv(c) ==
    /\ pc[c] = "locked"
    /\ \E ok \in BOOLEAN :
           /\ snap' = [snap EXCEPT ![c] = IF ok THEN be[job[c].target] ELSE NoSnap]
           /\ job' = [job EXCEPT ![c].env = IF ok THEN "be" ELSE "null"]
    /\ Goto(c, "env")
    /\ UNCHANGED <<be, running, active, lock, open, told>>

-----------------------------------------------------------------------------
(* A plan that needs a reboot is refused on the running system; otherwise  *)
(* a backup is made if it was asked for.  Copying may fail, or renaming    *)
(* after the copy was made.                                                *)
CreateBackupBe(c) ==
    /\ pc[c] = "env" /\ job[c].mode = "direct"
    /\ \E copied, ok \in BOOLEAN :
           /\ copied => job[c].backup /\ InBe(c) /\ Room
           /\ ok => (copied <=> job[c].backup /\ InBe(c))
           /\ ~ok => Live(c)
           /\ LET bes == IF copied THEN Copied(be[job[c].target]) ELSE be
              IN  IF ok
                  THEN /\ be' = bes
                       /\ Goto(c, "ready")
                       /\ UNCHANGED <<running, lock, job, open, told>>
                  ELSE /\ be' = Recorded(bes, job[c].target, c, "failed")
                       /\ End(c, "failed")
    /\ UNCHANGED <<snap, active>>

(* Mutant: the clone is made, and the plan is executed in the original.    *)
MutFindRoot(c, b) ==
    /\ lock' = [lock EXCEPT ![job[c].root] = None, ![b] = c]
    /\ job' = job

(* Image.find_root(): the lock of the image moves with its root.           *)
FindRoot(c, b) ==
    /\ lock' = [lock EXCEPT ![job[c].root] = None, ![b] = c]
    /\ job' = [job EXCEPT ![c].root = b]

(* init_image_recovery(): the snapshot is destroyed, the running boot      *)
(* environment is cloned and the clone mounted where nobody else looks.    *)
(* Copying, renaming or mounting may fail; without boot environments the   *)
(* image is still the live one afterwards, which is an error too.          *)
InitImageRecovery(c) ==
    /\ pc[c] = "env" /\ job[c].mode = "new"
    /\ snap' = [snap EXCEPT ![c] = NoSnap]
    /\ \E copied, ok \in BOOLEAN :
           /\ copied => InBe(c) /\ Room
           /\ ok => copied
           /\ LET bes == IF copied THEN Copied(be[job[c].target]) ELSE be
              IN  IF ok
                  THEN /\ be' = bes
                       /\ FindRoot(c, Fresh)
                       /\ Goto(c, "ready")
                       /\ UNCHANGED <<running, open, told>>
                  ELSE /\ be' = Recorded(bes, job[c].target, c, "failed")
                       /\ End(c, "failed")
    /\ UNCHANGED active

-----------------------------------------------------------------------------
(* ImagePlan.execute(): the image must be as it was when the plan was      *)
(* made.                                                                   *)
Execute(c) ==
    /\ pc[c] = "ready"
    /\ be[job[c].root].done = job[c].plan
    /\ be' = [be EXCEPT ![job[c].root].half = @ \cup {c}]
    /\ Goto(c, "executing")
    /\ UNCHANGED <<snap, running, active, lock, job, open, told>>

(* The plan is no longer valid, a file cannot be read or space is short.   *)
ExecuteRefuses(c) ==
    /\ pc[c] = "ready"
    /\ Goto(c, "failing")
    /\ UNCHANGED <<envs, lock, job, open, told>>

(* Mutant: an execution that fails is not told from one that succeeds.     *)
MutActionFails(c) ==
    /\ pc[c] = "executing"
    /\ \E s \in {"executed", "failing"} : Goto(c, s)
    /\ UNCHANGED <<envs, lock, job, open, told>>

(* An action fails.                                                        *)
ActionFails(c) ==
    /\ pc[c] = "executing"
    /\ Goto(c, "failing")
    /\ UNCHANGED <<envs, lock, job, open, told>>

Done(c) == [be EXCEPT ![job[c].root].half = @ \ {c}, ![job[c].root].done = @ \cup {c}]

(* All actions are executed and the image's state is saved.  What follows  *)
(* may still fail: an actuator, the mediators, the linked image metadata.  *)
ActionsDone(c) ==
    /\ pc[c] = "executing"
    /\ be' = Done(c)
    /\ \E s \in {"executed", "failing"} : Goto(c, s)
    /\ UNCHANGED <<snap, running, active, lock, job, open, told>>

(* The search index is locked, may not be read or is not consistent, or in *)
(* place a mediator's target is missing: the operation ends there, and     *)
(* nothing is restored.                                                    *)
IndexFails(c) ==
    /\ pc[c] = "executing"
    /\ be' = Recorded(Done(c), job[c].root, c, "failed")
    /\ End(c, "failed")
    /\ UNCHANGED <<snap, active>>

-----------------------------------------------------------------------------
(* restore_image(): the image returns to its original root; the clone is   *)
(* left for inspection.  If another client has locked the original by now  *)
(* the error is another one, and the client records it by abort().         *)
RestoreImage(c) ==
    /\ pc[c] = "failing" /\ job[c].mode = "new"
    /\ be' = Recorded(be, job[c].target, c, "failed")
    /\ End(c, IF lock[job[c].target] = None THEN "unmodified" ELSE "failed")
    /\ UNCHANGED <<snap, active>>

(* restore_install_uninstall() on the running system: a boot environment   *)
(* is made of the snapshot, if that can be done.                           *)
RestoreLive(c) ==
    /\ pc[c] = "failing" /\ job[c].mode = "direct" /\ Live(c) /\ InBe(c)
    /\ \E copied \in BOOLEAN :
           /\ copied => Room
           /\ be' = Recorded(IF copied THEN Copied(snap[c]) ELSE be,
                             job[c].target, c, "failed")
    /\ End(c, "failed")
    /\ UNCHANGED <<snap, active>>

(* Mutant: the end of the operation is recorded before the rollback.       *)
MutRollback(c) ==
    /\ pc[c] = "failing" /\ job[c].mode = "direct" /\ ~Live(c) /\ InBe(c)
    /\ be' = [be EXCEPT ![job[c].target] = snap[c]]
    /\ snap' = [snap EXCEPT ![c] = NoSnap]
    /\ End(c, "restored")
    /\ UNCHANGED active

(* restore_install_uninstall() at an alternate root: the image is rolled   *)
(* back and the snapshot destroyed, and then the end is recorded.          *)
Rollback(c) ==
    /\ pc[c] = "failing" /\ job[c].mode = "direct" /\ ~Live(c) /\ InBe(c)
    /\ \E ok \in BOOLEAN :
           /\ ~ok => "rollback" \in Faults
           /\ be' = Recorded(IF ok THEN [be EXCEPT ![job[c].target] = snap[c]] ELSE be,
                             job[c].target, c, "failed")
    /\ snap' = [snap EXCEPT ![c] = NoSnap]
    /\ End(c, "restored")
    /\ UNCHANGED active

(* BootEnvNull restores nothing.                                           *)
RestoreNothing(c) ==
    /\ pc[c] = "failing" /\ ~InBe(c)
    /\ be' = Recorded(be, job[c].target, c, "failed")
    /\ End(c, "failed")
    /\ UNCHANGED <<snap, active>>

-----------------------------------------------------------------------------
(* api_recurse_execute(): the plans of the linked images are executed.  If *)
(* one of them fails nothing is restored and nothing recorded.             *)
Recurse(c) ==
    /\ pc[c] = "executed"
    /\ \E ok \in BOOLEAN :
           /\ ~ok => "children" \in Faults
           /\ IF ok
              THEN Goto(c, "finishing") /\ UNCHANGED <<running, lock, job, open, told>>
              ELSE End(c, "failed")
    /\ UNCHANGED <<be, snap, active>>

(* activate_install_uninstall(): the snapshot is destroyed and success is  *)
(* recorded; an error of the search index is raised only now.              *)
FinishDirect(c) ==
    /\ pc[c] = "finishing" /\ job[c].mode = "direct"
    /\ snap' = [snap EXCEPT ![c] = NoSnap]
    /\ be' = Recorded(be, job[c].root, c, "ok")
    /\ \E t \in {"ok", "failed"} : End(c, t)
    /\ UNCHANGED active

(* activate_image(): the lock would keep the clone from being unmounted.   *)
UnlockClone(c) ==
    /\ pc[c] = "finishing" /\ job[c].mode = "new"
    /\ lock' = Freed(c)
    /\ Goto(c, "activating")
    /\ UNCHANGED <<envs, job, open, told>>

(* Mutant: success is recorded in the original image.                      *)
MutActivate(c) ==
    /\ pc[c] = "activating"
    /\ \E set \in BOOLEAN : active' = IF set THEN job[c].root ELSE active
    /\ be' = Recorded(be, job[c].target, c, "ok")
    /\ open' = open \ {c}
    /\ job' = [job EXCEPT ![c].root = job[c].target]
    /\ Goto(c, "relocking")
    /\ UNCHANGED <<snap, running, lock, told>>

(* The clone is activated if that was asked for, and success is recorded   *)
(* in it.  If it cannot be activated nothing is recorded yet.  The image   *)
(* returns to its original root.                                           *)
Activate(c) ==
    /\ pc[c] = "activating"
    /\ \E set, ok \in BOOLEAN :
           /\ ~ok => set /\ "activate" \in Faults
           /\ active' = IF set /\ ok THEN job[c].root ELSE active
           /\ be' = IF ok THEN Recorded(be, job[c].root, c, "ok") ELSE be
           /\ open' = IF ok THEN open \ {c} ELSE open
    /\ job' = [job EXCEPT ![c].root = job[c].target]
    /\ Goto(c, "relocking")
    /\ UNCHANGED <<snap, running, lock, told>>

(* The history cannot be written, or after that the mount point cannot be  *)
(* removed: the saved history is restored, with the operation still open,  *)
(* and the client aborts it in the original image.                         *)
ActivateRaises(c) ==
    /\ pc[c] = "activating"
    /\ \E set, logged \in BOOLEAN :
           /\ active' = IF set THEN job[c].root ELSE active
           /\ be' = Recorded(IF logged THEN Recorded(be, job[c].root, c, "ok") ELSE be,
                             job[c].target, c, "failed")
    /\ End(c, "failed")
    /\ UNCHANGED snap

(* The original image is locked again and an operation that is still open  *)
(* is recorded as a success; if another client holds the lock the          *)
(* operation fails now.                                                    *)
Relock(c) ==
    /\ pc[c] = "relocking"
    /\ LET ok == lock[job[c].target] = None
       IN  /\ be' = Recorded(be, job[c].target, c, IF ok THEN "ok" ELSE "failed")
           /\ \E t \in {"ok", "failed"} : (t = "ok" => ok) /\ End(c, t)
    /\ UNCHANGED <<snap, active>>

-----------------------------------------------------------------------------
InProgress(c) == pc[c] \notin {"none", "ended", "dead"}

(* A client dies; the locks of files die with it.                          *)
Crash(c) ==
    /\ InProgress(c)
    /\ Goto(c, "dead")
    /\ lock' = Freed(c)
    /\ open' = open \ {c}
    /\ UNCHANGED <<envs, job, told>>

Reboot ==
    /\ active # running \/ \E c \in Client : InProgress(c)
    /\ running' = active
    /\ pc' = [c \in Client |-> IF InProgress(c) THEN "dead" ELSE pc[c]]
    /\ lock' = [b \in 0 .. MaxBe |-> None]
    /\ open' = {}
    /\ UNCHANGED <<be, snap, active, job, told>>

Next ==
    \/ \E c \in Client :
           \/ Plan(c) \/ LockImage(c) \/ LockFails(c) \/ MakeBootEnv(c)
           \/ CreateBackupBe(c) \/ InitImageRecovery(c)
           \/ Execute(c) \/ ExecuteRefuses(c) \/ ActionFails(c) \/ ActionsDone(c)
           \/ IndexFails(c)
           \/ RestoreImage(c) \/ RestoreLive(c) \/ Rollback(c) \/ RestoreNothing(c)
           \/ Recurse(c) \/ FinishDirect(c) \/ UnlockClone(c)
           \/ Activate(c) \/ ActivateRaises(c) \/ Relock(c)
           \/ Crash(c)
    \/ Reboot

Spec == Init /\ [][Next]_vars

-----------------------------------------------------------------------------
(* An operation that makes a new boot environment is all or nothing for    *)
(* the next boot: it never changes the boot environment it was started in, *)
(* and what is activated is never a clone it left half done.               *)
NewBeIsAllOrNothing ==
    \A c \in Client : job[c].mode = "new" =>
        /\ c \notin be[job[c].target].done \cup be[job[c].target].half
        /\ c \notin be[active].half

(* No boot environment, backup or restored snapshot is a copy of an image  *)
(* that another client is changing: while an operation executes it is half *)
(* done in its own image only.                                             *)
CopiesAreQuiet ==
    \A c \in Client : pc[c] = "executing" =>
        \A b \in DOMAIN be : c \in be[b].half => b = job[c].root

(* A rollback undoes only the operation that failed: what another client   *)
(* has completed in an image stays there.                                  *)
CompletedIsKept ==
    [][\A b \in DOMAIN be, c \in Client :
           c \in be[b].done /\ pc[c] \in {"ended", "dead"} => c \in be'[b].done]_vars

(* An operation that got its lock and was not killed is recorded when it   *)
(* ends, in the image it was started in or in the clone that it made; the  *)
(* restoration of the image does not take the record away.                 *)
EndIsRecorded ==
    \A c \in Client : pc[c] = "ended" /\ told[c] # "locked" =>
        \E b \in DOMAIN be, r \in {"ok", "failed"} : <<c, r>> \in be[b].hist

(* What an image's history records as a success was done in that image.    *)
RecordIsTrue ==
    \A b \in DOMAIN be, c \in Client : <<c, "ok">> \in be[b].hist => c \in be[b].done

(* "A snapshot was taken before the failed attempt and has been restored   *)
(* so no changes have been made", and "The running system has not been     *)
(* modified": when the user is told so, it is so.                          *)
RestoredIsClean ==
    \A c \in Client : told[c] \in {"restored", "unmodified"} =>
        c \notin be[job[c].target].done \cup be[job[c].target].half

=============================================================================
