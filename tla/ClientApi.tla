----------------------------- MODULE ClientApi -----------------------------
(***************************************************************************)
(* The client API object (client/api.py, class ImageInterface) as several  *)
(* threads of a program use it: the activity lock that lets one call in at *)
(* a time, the image lock shared with other processes, the life of a plan  *)
(* from gen_plan_*() or load_plan() through prepare() and execute_plan(),  *)
(* and cancel(), which puts its caller to sleep until the canceled call    *)
(* has ended.                                                              *)
(*                                                                         *)
(* A call is cut where another thread or process can see it: after the     *)
(* activity lock, after the image lock, at the yields of a plan generator, *)
(* around downloads and around the change of the image.  A call that finds *)
(* the activity lock taken raises ImageLockedError (or, from the thread    *)
(* that owns it, NRLockException) and changes nothing: it is a stutter.    *)
(***************************************************************************)
CONSTANTS Thread,   \* the threads that share one ImageInterface object
          Other,    \* another process that locks the same image
          None      \* nobody

ASSUME OwnersApart == Other \notin Thread /\ None \notin Thread /\ Other # None

VARIABLES
  blocking,    \* __blocking_locks, set once before the calls
  activity,    \* owner of _activity_lock
  image,       \* owner of the image lock (thread lock and lock file)
  cancelable,  \* __can_be_canceled
  canceling,   \* __canceling
  pc,          \* where each thread is
  op,          \* the call that has, or had last, the activity lock
  api,         \* __plan_type is set, __planned_children, __prepared, __executed
  plan,        \* _img.imageplan
  leaked       \* history: threads that left a call without releasing its locks

vars == <<blocking, activity, image, cancelable, canceling, pc, op, api, plan, leaked>>
locks == <<activity, image>>
cancel == <<cancelable, canceling>>

\* The calls; "query" stands for every call under _LockedCancelable or
\* _LockedGenerator that leaves the image alone, "refresh" for every
\* uncancelable one that changes it without a plan.
Op == {"plan", "load", "prepare", "execute", "refresh", "query"}
Cancelable == {"plan", "load", "query"}       \* cancelable from the first step on
NoPlan == None
PlanState == {"evaluated", "preexecuted", "preerror", "executed", "exerror"}

\* fresh: the plan's _image_lm still is the image's last modified time;
\* got: its content was downloaded; left: it still has its actions, which
\* execute() discards as it runs them; ran: they ran, in whole or in part, in
\* the image and were not undone.
Plans == [state : PlanState, fresh : BOOLEAN, got : BOOLEAN, left : BOOLEAN, ran : BOOLEAN]
Evaluated ==
  [state |-> "evaluated", fresh |-> TRUE, got |-> FALSE, left |-> TRUE, ran |-> FALSE]
NewApi == [type |-> FALSE, children |-> FALSE, prepared |-> FALSE, executed |-> FALSE]

\* Type invariant of the state of the API object and of its threads.
TypeOK ==
  /\ blocking \in BOOLEAN /\ cancelable \in BOOLEAN /\ canceling \in BOOLEAN
  /\ activity \in Thread \cup {None}
  /\ image \in Thread \cup {Other, None}
  /\ pc \in [Thread -> {"idle", "lock", "work", "unlock", "yielded", "resume",
                        "children", "reset", "download", "run", "asleep"}]
  /\ op \in Op \cup {None}
  /\ api \in [type : BOOLEAN, children : BOOLEAN, prepared : BOOLEAN, executed : BOOLEAN]
  /\ plan \in Plans \cup {NoPlan}
  /\ leaked \subseteq Thread

Init ==
  /\ blocking \in BOOLEAN
  /\ activity = None /\ image = None
  /\ cancelable = FALSE /\ canceling = FALSE
  /\ pc = [t \in Thread |-> "idle"] /\ op = None
  /\ api = NewApi /\ plan = NoPlan
  /\ leaked = {}

-----------------------------------------------------------------------------
(* Cancellation: the parts the calls are made of.                          *)

Goto(t, l) == pc' = [pc EXCEPT ![t] = l]

\* __cancel_cv.notify_all().
GotoAndWake(t, l) ==
  pc' = [u \in Thread |-> IF u = t THEN l ELSE IF pc[u] = "asleep" THEN "idle" ELSE pc[u]]

EnableCancel == cancelable' = TRUE /\ UNCHANGED canceling

\* _disable_cancel when it does not raise CanceledException.
DisableCancel == ~canceling /\ cancelable' = FALSE /\ UNCHANGED canceling

\* _cancel_done; it is only reached with a cancellation pending.
CancelDone(t, l) ==
  /\ canceling
  /\ canceling' = FALSE /\ UNCHANGED cancelable
  /\ GotoAndWake(t, l)

\* The canceler is woken but __canceling stays set.
MutCancelCleanup(t, l) ==
  /\ cancelable' = FALSE /\ UNCHANGED canceling
  /\ GotoAndWake(t, l)

\* _cancel_cleanup_exception.
CancelCleanup(t, l) ==
  /\ cancelable' = FALSE /\ canceling' = FALSE
  /\ GotoAndWake(t, l)

\* A cancelable call ends: by CanceledException, by another exception, or well
\* with a _disable_cancel that may find a cancellation and end it.
EndCancelable(t, l) == CancelDone(t, l) \/ CancelCleanup(t, l) \/ (DisableCancel /\ Goto(t, l))

\* image.unlock() and _activity_lock.release() at the end of a call.
Return == image' = None /\ activity' = None

\* cancel(): refused (FALSE, no change) unless the current call is cancelable.
Cancel(t) ==
  /\ pc[t] = "idle" /\ cancelable
  /\ cancelable' = FALSE /\ canceling' = TRUE
  /\ Goto(t, "asleep")
  /\ UNCHANGED <<blocking, locks, op, api, plan, leaked>>

-----------------------------------------------------------------------------
(* Entering a call.                                                        *)

\* The activity lock.  execute_plan and refresh also call _disable_cancel here,
\* which finds nothing to disable: see CancelHasAnOwner.
Call(t, o) ==
  /\ pc[t] = "idle" /\ activity = None
  /\ activity' = t
  /\ op' = o
  /\ IF o \in Cancelable THEN EnableCancel ELSE UNCHANGED cancel
  /\ Goto(t, IF o = "query" THEN "work" ELSE "lock")
  /\ UNCHANGED <<blocking, image, api, plan, leaked>>

PlanExists(t) == op \in {"plan", "load"} /\ api.type

\* Image.lock().
Lock(t) ==
  /\ pc[t] = "lock" /\ ~PlanExists(t) /\ image = None
  /\ image' = t
  /\ Goto(t, "work")
  /\ UNCHANGED <<blocking, activity, cancel, op, api, plan, leaked>>

\* Image.lock() that waits whatever blocking_locks says.
MutLockFails(t) ==
  /\ pc[t] = "lock"
  /\ PlanExists(t) \/ image = t
  /\ IF op \in Cancelable THEN CancelCleanup(t, "idle")
                          ELSE Goto(t, "idle") /\ UNCHANGED cancel
  /\ activity' = None
  /\ image' = IF op = "load" /\ image = t THEN None ELSE image
  /\ leaked' = IF op = "load" THEN leaked \ {t} ELSE leaked
  /\ UNCHANGED <<blocking, op, api, plan>>

\* PlanExistsException, ImageLockedError, or NRLockException in a thread that
\* has the image lock from an abandoned plan.  The wrapper of load_plan drops
\* such a lock (`if instance._img.locked').
LockFails(t) ==
  /\ pc[t] = "lock"
  /\ PlanExists(t) \/ image = t \/ (image # None /\ ~blocking)
  /\ IF op \in Cancelable THEN CancelCleanup(t, "idle")
                          ELSE Goto(t, "idle") /\ UNCHANGED cancel
  /\ activity' = None
  /\ image' = IF op = "load" /\ image = t THEN None ELSE image
  /\ leaked' = IF op = "load" THEN leaked \ {t} ELSE leaked
  /\ UNCHANGED <<blocking, op, api, plan>>

-----------------------------------------------------------------------------
(* gen_plan_*(): a generator that yields the plan and then plans children. *)

\* __plan_common_start: check_be_name raises and nothing is released.
BeNameRejected(t) ==
  /\ pc[t] = "work" /\ op = "plan"
  /\ leaked' = leaked \cup {t}
  /\ Goto(t, "idle")
  /\ UNCHANGED <<blocking, locks, cancel, op, api, plan>>

\* BENameGivenOnDeadBE: the activity lock is released before the image lock.
DeadBE(t) ==
  /\ pc[t] = "work" /\ op = "plan"
  /\ CancelCleanup(t, "unlock")
  /\ activity' = None
  /\ UNCHANGED <<blocking, image, op, api, plan, leaked>>

Unlock(t) ==
  /\ pc[t] = "unlock"
  /\ image' = None
  /\ Goto(t, "idle")
  /\ UNCHANGED <<blocking, activity, cancel, op, api, plan, leaked>>

\* A cancellation that came too late for a check is dropped and the plan shown.
MutPlanned(t, noexecute) ==
  /\ pc[t] = "work" /\ op = "plan"
  /\ CancelCleanup(t, "yielded")
  /\ plan' = Evaluated
  /\ api' = [api EXCEPT !.type = ~noexecute]
  /\ activity' = None
  /\ UNCHANGED <<blocking, image, op, leaked>>

\* The first yield: the image lock is kept, the activity lock is not.
\* __planned_children and __prepared keep the values an earlier plan left.
Planned(t, noexecute) ==
  /\ pc[t] = "work" /\ op = "plan"
  /\ DisableCancel
  /\ plan' = Evaluated
  /\ api' = [api EXCEPT !.type = ~noexecute]
  /\ activity' = None
  /\ Goto(t, "yielded")
  /\ UNCHANGED <<blocking, image, op, leaked>>

\* __plan_common_exception up to image.unlock(); a CanceledException wakes
\* the canceler here, before the API object is reset.
PlanFails(t) ==
  /\ \/ /\ pc[t] = "work" /\ op = "plan"
        /\ CancelDone(t, "reset") \/ (Goto(t, "reset") /\ UNCHANGED cancel)
     \/ pc[t] = "children" /\ Goto(t, "reset") /\ UNCHANGED cancel
  /\ image' = None
  /\ UNCHANGED <<blocking, activity, op, api, plan, leaked>>

\* The caller asks for more: `self._activity_lock.acquire()', always blocking.
GeneratorNext(t) ==
  /\ pc[t] = "yielded" /\ Goto(t, "resume")
  /\ UNCHANGED <<blocking, locks, cancel, op, api, plan, leaked>>

Resume(t) ==
  /\ pc[t] = "resume" /\ activity = None
  /\ activity' = t
  /\ Goto(t, "children")
  /\ UNCHANGED <<blocking, image, cancel, op, api, plan, leaked>>

\* Children are planned, one yield each; then __plan_common_finish.
ChildrenPlanned(t) ==
  /\ pc[t] = "children"
  /\ api' = [api EXCEPT !.children = TRUE]
  /\ Return
  /\ Goto(t, "idle")
  /\ UNCHANGED <<blocking, cancel, op, plan, leaked>>

\* The caller drops the generator at a yield: GeneratorExit is no Exception, so
\* the locks the generator holds are not released.
Abandon(t) ==
  /\ pc[t] \in {"yielded", "children"}
  /\ leaked' = leaked \cup {t}
  /\ Goto(t, "idle")
  /\ UNCHANGED <<blocking, locks, cancel, op, api, plan>>

\* __reset_unlock, at the end of a failed plan and in reset().  The image object
\* is made anew: with the old one goes the lock an abandoned plan kept.
Reset(t) ==
  /\ pc[t] = "reset"
  /\ api' = NewApi /\ plan' = NoPlan
  /\ CancelCleanup(t, "idle")
  /\ image' = IF image = Other THEN Other ELSE None
  /\ activity' = None
  /\ leaked' = {}
  /\ UNCHANGED <<blocking, op>>

\* reset(); no other thread has a generator waiting, or is on its way out of a
\* call with the image lock only.
CallReset(t) ==
  /\ pc[t] = "idle" /\ activity = None
  /\ \A u \in Thread : pc[u] \notin {"yielded", "resume", "unlock"}
  /\ activity' = t
  /\ Goto(t, "reset")
  /\ UNCHANGED <<blocking, image, cancel, op, api, plan, leaked>>

-----------------------------------------------------------------------------
(* load_plan(): the plan was made, and perhaps prepared, in another process.*)

\* A cancellation raises at the end, and the plan stays loaded.
LoadPlan(t, prepared, fresh) ==
  /\ pc[t] = "work" /\ op = "load"
  /\ api' = [api EXCEPT !.type = TRUE, !.children = TRUE, !.prepared = prepared]
  /\ plan' = [Evaluated EXCEPT !.state = IF prepared THEN "preexecuted" ELSE @,
                               !.fresh = fresh, !.got = prepared]
  /\ CancelDone(t, "idle") \/ (DisableCancel /\ Goto(t, "idle"))
  /\ Return
  /\ UNCHANGED <<blocking, op, leaked>>

\* A sanity check fails after the fields were set: the old imageplan stays.
LoadFails(t, prepared) ==
  /\ pc[t] = "work" /\ op = "load"
  /\ api' = [api EXCEPT !.type = TRUE, !.children = TRUE, !.prepared = prepared]
  /\ CancelCleanup(t, "idle")
  /\ Return
  /\ UNCHANGED <<blocking, op, plan, leaked>>

-----------------------------------------------------------------------------
(* prepare() and ImagePlan.preexecute().                                    *)

Prepares(t) == pc[t] = "work" /\ op = "prepare"

\* PlanMissing, AlreadyPrepared, or the assertion on the state of the plan.
PrepareRefused(t) ==
  /\ Prepares(t)
  /\ \/ plan = NoPlan
     \/ ~api.children \/ api.prepared
     \/ plan # NoPlan /\ plan.state # "evaluated"
  /\ CancelCleanup(t, "idle")
  /\ Return
  /\ UNCHANGED <<blocking, op, api, plan, leaked>>

MayPrepare == plan # NoPlan /\ api.children /\ ~api.prepared /\ plan.state = "evaluated"

\* InvalidPlanError: the image changed since the plan was made.
PrepareStale(t) ==
  /\ Prepares(t) /\ MayPrepare /\ ~plan.fresh
  /\ plan' = [plan EXCEPT !.state = "preerror"]
  /\ CancelCleanup(t, "idle")
  /\ Return
  /\ UNCHANGED <<blocking, op, api, leaked>>

PrepareStart(t) ==
  /\ Prepares(t) /\ MayPrepare /\ plan.fresh
  /\ EnableCancel
  /\ Goto(t, "download")
  /\ UNCHANGED <<blocking, locks, op, api, plan, leaked>>

\* A check before the downloads fails (disk space, image format): state kept.
\* A download fails, or sees that it is canceled: PREEXECUTED_ERROR.
PrepareFails(t) ==
  /\ pc[t] = "download"
  /\ \/ CancelCleanup(t, "idle") /\ UNCHANGED plan
     \/ /\ CancelCleanup(t, "idle") \/ CancelDone(t, "idle")
        /\ plan' = [plan EXCEPT !.state = "preerror"]
  /\ Return
  /\ UNCHANGED <<blocking, op, api, leaked>>

Prepared(t) ==
  /\ pc[t] = "download"
  /\ plan' = [plan EXCEPT !.state = "preexecuted", !.got = TRUE]
  /\ \/ CancelDone(t, "idle") /\ UNCHANGED api
     \/ DisableCancel /\ Goto(t, "idle") /\ api' = [api EXCEPT !.prepared = TRUE]
  /\ Return
  /\ UNCHANGED <<blocking, op, leaked>>

-----------------------------------------------------------------------------
(* execute_plan() and ImagePlan.execute().                                  *)

Executes(t) == pc[t] = "work" /\ op = "execute"
MayExecute ==
  plan # NoPlan /\ api.prepared /\ ~api.executed /\ plan.state = "preexecuted"

\* An early exit that forgets the image lock.
MutExecuteRefused(t) ==
  /\ Executes(t)
  /\ Goto(t, "idle")
  /\ activity' = None
  /\ UNCHANGED <<blocking, image, cancel, op, api, plan, leaked>>

\* PlanMissing, PrematureExecution, AlreadyExecuted, a boot environment that
\* cannot be made, the assertion on the state, or a failure before the image is
\* touched: nothing changes.
ExecuteRefused(t) ==
  /\ Executes(t)
  /\ Goto(t, "idle")
  /\ Return
  /\ UNCHANGED <<blocking, cancel, op, api, plan, leaked>>

ExecuteStale(t) ==
  /\ Executes(t) /\ MayExecute /\ ~plan.fresh
  /\ plan' = [plan EXCEPT !.state = "exerror"]
  /\ Goto(t, "idle")
  /\ Return
  /\ UNCHANGED <<blocking, cancel, op, api, leaked>>

\* The image is compared with the plan in prepare() only.
MutExecuteStart(t) ==
  /\ Executes(t) /\ MayExecute
  /\ Goto(t, "run")
  /\ UNCHANGED <<blocking, locks, cancel, op, api, plan, leaked>>

ExecuteStart(t) ==
  /\ Executes(t) /\ MayExecute /\ plan.fresh
  /\ Goto(t, "run")
  /\ UNCHANGED <<blocking, locks, cancel, op, api, plan, leaked>>

\* The handlers of execute_plan() restore the image (a clone is left for the
\* original, or the snapshot is rolled back), whose last modified time is the
\* plan's again; without boot environments, on a live one, or when that fails,
\* the image stays as execute() left it.
Restored == [plan EXCEPT !.left = FALSE]
NotRestored(fresh) == [plan EXCEPT !.left = FALSE, !.ran = plan.left, !.fresh = fresh]

\* An action or the saving of the state fails: before or after the image's
\* last modified time moved.
RunFails(t) ==
  /\ pc[t] = "run"
  /\ \E p \in {Restored} \cup {NotRestored(fresh) : fresh \in BOOLEAN} :
       plan' = [p EXCEPT !.state = "exerror"]
  /\ Goto(t, "idle")
  /\ Return
  /\ UNCHANGED <<blocking, cancel, op, api, leaked>>

\* The state is saved without moving the last modified time.
MutAfterRunFails(t) ==
  /\ pc[t] = "run"
  /\ plan' \in {Restored, NotRestored(TRUE)}
  /\ Goto(t, "idle")
  /\ Return
  /\ UNCHANGED <<blocking, cancel, op, api, leaked>>

\* update_pkg_installed_state moved the last modified time; the post-actuators
\* or the lookup database fail: the plan still says PREEXECUTED_OK.
AfterRunFails(t) ==
  /\ pc[t] = "run"
  /\ plan' \in {Restored, NotRestored(FALSE)}
  /\ Goto(t, "idle")
  /\ Return
  /\ UNCHANGED <<blocking, cancel, op, api, leaked>>

\* EXECUTED_OK, with nothing (left) to do or with a new last modified time;
\* __executed stays unset when linked images or the boot environment fail
\* afterwards, after which the image may be restored.
Executed(t) ==
  /\ pc[t] = "run"
  /\ \E fresh, done \in BOOLEAN :
       /\ \E p \in {NotRestored(fresh)} \cup (IF done THEN {} ELSE {Restored}) :
            plan' = [p EXCEPT !.state = "executed"]
       /\ api' = [api EXCEPT !.executed = done]
  /\ Goto(t, "idle")
  /\ Return
  /\ UNCHANGED <<blocking, cancel, op, leaked>>

-----------------------------------------------------------------------------
(* The other calls, and the other process.                                 *)

Touch == plan' \in {plan} \cup (IF plan = NoPlan THEN {} ELSE {[plan EXCEPT !.fresh = FALSE]})

\* refresh(): new catalogs move the last modified time, an unchanged one does not.
RefreshDone(t) ==
  /\ pc[t] = "work" /\ op = "refresh"
  /\ Touch
  /\ Goto(t, "idle")
  /\ Return
  /\ UNCHANGED <<blocking, cancel, op, api, leaked>>

\* `if instance._img.locked': an image lock this thread left behind goes, too.
QueryDone(t) ==
  /\ pc[t] = "work" /\ op = "query"
  /\ EndCancelable(t, "idle")
  /\ activity' = None
  /\ image' = IF image = t THEN None ELSE image
  /\ leaked' = leaked \ {t}
  /\ UNCHANGED <<blocking, op, api, plan>>

OtherLocks ==
  /\ image = None /\ image' = Other
  /\ UNCHANGED <<blocking, activity, cancel, pc, op, api, plan, leaked>>

OtherUnlocks ==
  /\ image = Other /\ image' = None
  /\ Touch
  /\ UNCHANGED <<blocking, activity, cancel, pc, op, api, leaked>>

-----------------------------------------------------------------------------
\* The steps of a call that is under way, as opposed to what callers decide.
Step(t) ==
  \/ Lock(t) \/ LockFails(t) \/ Unlock(t) \/ Resume(t) \/ Reset(t)
  \/ BeNameRejected(t) \/ DeadBE(t) \/ PlanFails(t)
  \/ \E b \in BOOLEAN : Planned(t, b) \/ LoadFails(t, b)
  \/ \E b, f \in BOOLEAN : LoadPlan(t, b, f)
  \/ PrepareRefused(t) \/ PrepareStale(t) \/ PrepareStart(t)
  \/ PrepareFails(t) \/ Prepared(t)
  \/ ExecuteRefused(t) \/ ExecuteStale(t) \/ ExecuteStart(t)
  \/ RunFails(t) \/ AfterRunFails(t) \/ Executed(t)
  \/ RefreshDone(t) \/ QueryDone(t)

Next ==
  \/ \E t \in Thread :
       \/ Cancel(t) \/ CallReset(t) \/ GeneratorNext(t) \/ ChildrenPlanned(t) \/ Abandon(t)
       \/ \E o \in Op : Call(t, o)
       \/ Step(t)
  \/ OtherLocks \/ OtherUnlocks

\* Threads run: a call under way takes its next step if it can go on taking it.
\* Nothing makes callers call, resume a generator or end another process's lock.
Spec == Init /\ [][Next]_vars /\ \A t \in Thread : WF_vars(Step(t))

-----------------------------------------------------------------------------
(* Properties                                                              *)

\* The call whose end will wake a sleeping canceler.
HandlesCancel(t) ==
  \/ pc[t] \in {"lock", "work"} /\ op \in Cancelable
  \/ pc[t] = "reset"
  \/ pc[t] = "download"

\* A cancellation is pending exactly while one thread sleeps in cancel(), and
\* whatever can be, or is being, canceled is a call under way that will answer
\* (or one that was left with its locks and never will): a finished call leaves
\* neither flag behind for the next, so the assertion `not self.__canceling' of
\* __set_can_be_canceled cannot fail.
CancelHasAnOwner ==
  /\ canceling <=> \E t \in Thread : pc[t] = "asleep"
  /\ \A t, u \in Thread : pc[t] = "asleep" /\ pc[u] = "asleep" => t = u
  /\ ~(cancelable /\ canceling)
  /\ cancelable \/ canceling =>
       /\ activity # None
       /\ \/ HandlesCancel(activity)
          \/ activity \in leaked /\ pc[activity] \in {"idle", "asleep"}

\* A thread outside the API holds no lock of it, on any of the ways out of a
\* call, except after a generator it abandoned or a boot environment name that
\* was refused; a plan shown to its caller keeps the image lock only.
LocksReleased ==
  \A t \in Thread :
    /\ pc[t] \in {"idle", "asleep"} /\ t \notin leaked => t \notin {activity, image}
    /\ pc[t] \in {"yielded", "resume"} => image = t /\ activity # t
    /\ pc[t] \in {"work", "download", "run", "children"} => activity = t

NoSuccessAfterCancel ==
  canceling => \A t \in Thread :
    /\ pc'[t] = "yielded" => pc[t] = "yielded"
    /\ pc[t] = "download" => api'.prepared = api.prepared

\* A canceled call does not succeed: once cancel() has been accepted, planning
\* does not go on to show a plan and prepare() does not mark it prepared.
CancelStopsTheCall == [][NoSuccessAfterCancel]_vars

\* While a plan changes the image, the image is locked and is the one the plan
\* was made for, and the content was downloaded, whatever calls, cancellations,
\* refreshes and other processes came between planning and execution.
PlanRunsOnItsImage ==
  \A t \in Thread : pc[t] = "run" =>
    /\ image = t /\ activity = t
    /\ plan # NoPlan /\ plan.fresh /\ plan.got

\* A plan is not executed in an image that has its actions already, all or some
\* of them: not after it failed half way, and not when it failed after the image
\* was saved, with the plan still marked as prepared.  (If the image was restored
\* the plan passes again, with no actions left.)
RunsAtMostOnce == \A t \in Thread : pc[t] = "run" => ~plan.ran

\* With locks that do not block, every call comes back, cancel() included,
\* unless a thread has left locks behind.  A generator that waits for the
\* activity lock to go on is excluded: that lock is not fair.
EveryCallReturns ==
  ~blocking => \A t \in Thread :
    pc[t] \notin {"idle", "yielded", "resume", "children"}
      ~> pc[t] \in {"idle", "yielded", "children"} \/ leaked # {}
=============================================================================
