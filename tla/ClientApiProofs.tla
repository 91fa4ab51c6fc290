--------------------------- MODULE ClientApiProofs ---------------------------
(***************************************************************************)
(* Proofs about ClientApi for any number of threads: types, who has which  *)
(* lock on every way out of a call, who answers a cancellation, and that a *)
(* plan runs only on the image it was made for.  EveryCallReturns, which   *)
(* needs fairness, stays with TLC.                                         *)
(***************************************************************************)
EXTENDS ClientApi, TLAPS

-----------------------------------------------------------------------------
(* The inductive invariant.                                                *)

\* Locations of a thread that has the activity lock.
InCall == {"lock", "work", "children", "reset", "download", "run"}

\* The thread is at a place where the code holds the image lock.
KeepsImage(t) ==
  \/ pc[t] \in {"yielded", "resume", "unlock", "children", "download", "run"}
  \/ pc[t] = "work" /\ op # "query"

\* Where a thread can be that still has the locks of a call it left: it takes
\* no step that needs the image lock, for Image.lock() refuses it.
MayHaveLeaked(t) ==
  pc[t] \in {"idle", "asleep", "lock", "reset"} \/ (pc[t] = "work" /\ op = "query")

\* The owner of a lock is a thread whose code holds it, or one that left it
\* behind; reset() starts, and stays, without an owner it would dispossess.
LocksInv ==
  \A t \in Thread :
    /\ pc[t] \in InCall => activity = t
    /\ activity = t => pc[t] \in InCall \/ t \in leaked
    /\ KeepsImage(t) => image = t
    /\ image = t => KeepsImage(t) \/ t \in leaked
    /\ t \in leaked => image = t /\ MayHaveLeaked(t)
    /\ pc[t] = "lock" => op # "query"
    /\ pc[t] = "reset" => \A u \in Thread : ~KeepsImage(u)

\* What the state of a plan says about it; a plan that ran and still says that
\* it is prepared is out of date.
PlanInv ==
  /\ plan # NoPlan =>
       /\ plan.state = "preexecuted" => plan.got
       /\ plan.state = "evaluated" => ~plan.ran
       /\ plan.state = "preexecuted" /\ plan.ran => ~plan.fresh
  /\ \A t \in Thread :
       /\ pc[t] = "download" => plan # NoPlan /\ plan.state = "evaluated"
       /\ pc[t] = "run" => plan # NoPlan /\ plan.state = "preexecuted" /\ plan.fresh

(* The types in three parts: what is true or false, who and where, the plan. *)
FlagsOK == blocking \in BOOLEAN /\ cancelable \in BOOLEAN /\ canceling \in BOOLEAN
ThreadsOK ==
  /\ activity \in Thread \cup {None} /\ image \in Thread \cup {Other, None}
  /\ pc \in [Thread -> {"idle", "lock", "work", "unlock", "yielded", "resume",
                        "children", "reset", "download", "run", "asleep"}]
  /\ op \in Op \cup {None} /\ leaked \subseteq Thread
PlansOK ==
  /\ api \in [type : BOOLEAN, children : BOOLEAN, prepared : BOOLEAN, executed : BOOLEAN]
  /\ plan \in Plans \cup {NoPlan}

(* Every step keeps the types; a plan that is prepared or runs is one. *)
LEMMA TypeStep == TypeOK /\ PlanInv /\ [Next]_vars => TypeOK'
<1> SUFFICES ASSUME TypeOK, PlanInv, [Next]_vars PROVE TypeOK'
    OBVIOUS
<1> USE DEF TypeOK, PlanInv, Plans, PlanState, NoPlan, locks, cancel, Goto,
        GotoAndWake, EnableCancel, DisableCancel, CancelDone, CancelCleanup,
        Return
<1>1. CASE UNCHANGED vars
    BY <1>1 DEF vars, locks, cancel
<1>2. ASSUME NEW t \in Thread, Step(t) PROVE TypeOK'
    <2>1. CASE Lock(t)
        BY <2>1 DEF Lock, PlanExists
    <2>2. CASE LockFails(t)
        <3>1. FlagsOK'
            BY <2>2, Zenon DEF FlagsOK, LockFails, PlanExists
        <3>2. ThreadsOK'
            BY <2>2 DEF ThreadsOK, LockFails, PlanExists
        <3>3. PlansOK'
            BY <2>2 DEF PlansOK, LockFails, PlanExists
        <3> QED
            BY <3>1, <3>2, <3>3 DEF TypeOK, FlagsOK, ThreadsOK, PlansOK
    <2>3. CASE Unlock(t)
        BY <2>3 DEF Unlock
    <2>4. CASE Resume(t)
        BY <2>4 DEF Resume
    <2>5. CASE Reset(t)
        BY <2>5 DEF Reset, NewApi
    <2>6. CASE BeNameRejected(t)
        BY <2>6 DEF BeNameRejected
    <2>7. CASE DeadBE(t)
        <3>1. FlagsOK'
            BY <2>7, Zenon DEF FlagsOK, DeadBE
        <3>2. ThreadsOK'
            BY <2>7 DEF ThreadsOK, DeadBE
        <3>3. PlansOK'
            BY <2>7 DEF PlansOK, DeadBE
        <3> QED
            BY <3>1, <3>2, <3>3 DEF TypeOK, FlagsOK, ThreadsOK, PlansOK
    <2>8. CASE PlanFails(t)
        <3>1. FlagsOK'
            BY <2>8, Zenon DEF FlagsOK, PlanFails
        <3>2. ThreadsOK'
            BY <2>8 DEF ThreadsOK, PlanFails
        <3>3. PlansOK'
            BY <2>8 DEF PlansOK, PlanFails
        <3> QED
            BY <3>1, <3>2, <3>3 DEF TypeOK, FlagsOK, ThreadsOK, PlansOK
    <2>9. CASE PrepareRefused(t)
        <3>1. FlagsOK'
            BY <2>9, Zenon DEF FlagsOK, PrepareRefused, Prepares
        <3>2. ThreadsOK'
            BY <2>9 DEF ThreadsOK, PrepareRefused, Prepares
        <3>3. PlansOK'
            BY <2>9 DEF PlansOK, PrepareRefused, Prepares
        <3> QED
            BY <3>1, <3>2, <3>3 DEF TypeOK, FlagsOK, ThreadsOK, PlansOK
    <2>10. CASE PrepareStale(t)
        BY <2>10 DEF PrepareStale, Prepares, MayPrepare
    <2>11. CASE PrepareStart(t)
        BY <2>11 DEF PrepareStart, Prepares, MayPrepare
    <2>12. CASE PrepareFails(t)
        <3>1. FlagsOK'
            BY <2>12, Zenon DEF FlagsOK, PrepareFails
        <3>2. ThreadsOK'
            BY <2>12 DEF ThreadsOK, PrepareFails
        <3>3. PlansOK'
            BY <2>12 DEF PlansOK, PrepareFails
        <3> QED
            BY <3>1, <3>2, <3>3 DEF TypeOK, FlagsOK, ThreadsOK, PlansOK
    <2>13. CASE Prepared(t)
        <3>1. FlagsOK'
            BY <2>13, Zenon DEF FlagsOK, Prepared
        <3>2. ThreadsOK'
            BY <2>13 DEF ThreadsOK, Prepared
        <3>3. PlansOK'
            BY <2>13 DEF PlansOK, Prepared
        <3> QED
            BY <3>1, <3>2, <3>3 DEF TypeOK, FlagsOK, ThreadsOK, PlansOK
    <2>14. CASE ExecuteRefused(t)
        BY <2>14 DEF ExecuteRefused, Executes
    <2>15. CASE ExecuteStale(t)
        BY <2>15 DEF ExecuteStale, Executes, MayExecute
    <2>16. CASE ExecuteStart(t)
        BY <2>16 DEF ExecuteStart, Executes, MayExecute
    <2>17. CASE RunFails(t)
        <3>1. FlagsOK'
            BY <2>17, Zenon DEF FlagsOK, RunFails
        <3>2. ThreadsOK'
            BY <2>17 DEF ThreadsOK, RunFails
        <3>3. PlansOK'
            <4>1. plan \in Plans
                BY <2>17 DEF RunFails
            <4>2. PICK p \in {Restored} \cup {NotRestored(fresh) : fresh \in BOOLEAN} :
                      plan' = [p EXCEPT !.state = "exerror"]
                BY <2>17 DEF RunFails
            <4>a. Restored \in Plans /\ \A fresh \in BOOLEAN : NotRestored(fresh) \in Plans
                BY <4>1 DEF Restored, NotRestored
            <4>3. p \in Plans
                BY <4>2, <4>a
            <4> QED
                BY <2>17, <4>2, <4>3 DEF PlansOK, RunFails
        <3> QED
            BY <3>1, <3>2, <3>3 DEF TypeOK, FlagsOK, ThreadsOK, PlansOK
    <2>18. CASE AfterRunFails(t)
        <3>1. FlagsOK'
            BY <2>18, Zenon DEF FlagsOK, AfterRunFails
        <3>2. ThreadsOK'
            BY <2>18 DEF ThreadsOK, AfterRunFails
        <3>3. PlansOK'
            BY <2>18 DEF PlansOK, AfterRunFails, Restored, NotRestored
        <3> QED
            BY <3>1, <3>2, <3>3 DEF TypeOK, FlagsOK, ThreadsOK, PlansOK
    <2>19. CASE Executed(t)
        <3>1. FlagsOK'
            BY <2>19, Zenon DEF FlagsOK, Executed
        <3>2. ThreadsOK'
            BY <2>19 DEF ThreadsOK, Executed
        <3>3. PlansOK'
            <4>1. plan \in Plans
                BY <2>19 DEF Executed
            <4>2. PICK fresh \in BOOLEAN, done \in BOOLEAN :
                      /\ \E p \in {NotRestored(fresh)} \cup (IF done THEN {} ELSE {Restored}) :
                             plan' = [p EXCEPT !.state = "executed"]
                      /\ api' = [api EXCEPT !.executed = done]
                BY <2>19 DEF Executed
            <4>3. Restored \in Plans /\ NotRestored(fresh) \in Plans
                BY <4>1, <4>2 DEF Restored, NotRestored
            <4>4. plan' \in Plans
                BY <4>2, <4>3
            <4> QED
                BY <4>2, <4>4 DEF PlansOK
        <3> QED
            BY <3>1, <3>2, <3>3 DEF TypeOK, FlagsOK, ThreadsOK, PlansOK
    <2>20. CASE RefreshDone(t)
        BY <2>20 DEF RefreshDone, Touch
    <2>21. CASE QueryDone(t)
        <3>1. FlagsOK'
            BY <2>21, Zenon DEF FlagsOK, QueryDone, EndCancelable
        <3>2. ThreadsOK'
            BY <2>21 DEF ThreadsOK, QueryDone, EndCancelable
        <3>3. PlansOK'
            BY <2>21 DEF PlansOK, QueryDone, EndCancelable
        <3> QED
            BY <3>1, <3>2, <3>3 DEF TypeOK, FlagsOK, ThreadsOK, PlansOK
    <2>22. ASSUME NEW b \in BOOLEAN, Planned(t, b) PROVE TypeOK'
        BY <2>22 DEF Planned, Evaluated
    <2>23. ASSUME NEW b \in BOOLEAN, LoadFails(t, b) PROVE TypeOK'
        BY <2>23 DEF LoadFails
    <2>24. ASSUME NEW b \in BOOLEAN, NEW f \in BOOLEAN, LoadPlan(t, b, f) PROVE TypeOK'
        BY <2>24 DEF LoadPlan, Evaluated
    <2> QED
        BY <1>2, <2>1, <2>2, <2>3, <2>4, <2>5, <2>6, <2>7, <2>8, <2>9, <2>10,
           <2>11, <2>12, <2>13, <2>14,
           <2>15, <2>16, <2>17, <2>18, <2>19, <2>20, <2>21, <2>22, <2>23,
              <2>24 DEF Step
<1>3. ASSUME NEW t \in Thread, Cancel(t) PROVE TypeOK'
    <2>1. FlagsOK'
        BY <1>3, Zenon DEF FlagsOK, Cancel
    <2>2. ThreadsOK'
        BY <1>3 DEF ThreadsOK, Cancel
    <2>3. PlansOK'
        BY <1>3 DEF PlansOK, Cancel
    <2> QED
        BY <2>1, <2>2, <2>3 DEF TypeOK, FlagsOK, ThreadsOK, PlansOK
<1>4. ASSUME NEW t \in Thread, CallReset(t) PROVE TypeOK'
    BY <1>4 DEF CallReset
<1>5. ASSUME NEW t \in Thread, GeneratorNext(t) PROVE TypeOK'
    BY <1>5 DEF GeneratorNext
<1>6. ASSUME NEW t \in Thread, ChildrenPlanned(t) PROVE TypeOK'
    BY <1>6 DEF ChildrenPlanned
<1>7. ASSUME NEW t \in Thread, Abandon(t) PROVE TypeOK'
    BY <1>7 DEF Abandon
<1>8. ASSUME NEW t \in Thread, NEW o \in Op, Call(t, o) PROVE TypeOK'
    <2>1. FlagsOK'
        BY <1>8, Zenon DEF FlagsOK, Call, Op, Cancelable
    <2>2. ThreadsOK'
        BY <1>8 DEF ThreadsOK, Call, Op, Cancelable
    <2>3. PlansOK'
        BY <1>8 DEF PlansOK, Call, Op, Cancelable
    <2> QED
        BY <2>1, <2>2, <2>3 DEF TypeOK, FlagsOK, ThreadsOK, PlansOK
<1>9. CASE OtherLocks
    BY <1>9 DEF OtherLocks
<1>10. CASE OtherUnlocks
    <2>1. FlagsOK'
        BY <1>10, Zenon DEF FlagsOK, OtherUnlocks, Touch
    <2>2. ThreadsOK'
        BY <1>10 DEF ThreadsOK, OtherUnlocks, Touch
    <2>3. PlansOK'
        BY <1>10 DEF PlansOK, OtherUnlocks, Touch
    <2> QED
        BY <2>1, <2>2, <2>3 DEF TypeOK, FlagsOK, ThreadsOK, PlansOK
<1> QED
    BY <1>1, <1>2, <1>3, <1>4, <1>5, <1>6, <1>7, <1>8, <1>9, <1>10 DEF Next

(* Every step keeps the owners of the two locks. *)
LEMMA LocksStep == TypeOK /\ LocksInv /\ [Next]_vars => LocksInv'
<1> SUFFICES ASSUME TypeOK, LocksInv, [Next]_vars PROVE LocksInv'
    OBVIOUS
<1> USE OwnersApart DEF TypeOK, LocksInv, InCall, KeepsImage, MayHaveLeaked,
        locks, cancel, Goto, GotoAndWake, EnableCancel, DisableCancel,
        CancelDone, CancelCleanup, Return
<1>1. CASE UNCHANGED vars
    BY <1>1 DEF vars, locks, cancel
<1>2. ASSUME NEW t \in Thread, Step(t) PROVE LocksInv'
    <2>1. CASE Lock(t)
        BY <2>1 DEF Lock, PlanExists
    <2>2. CASE LockFails(t)
        BY <2>2 DEF LockFails, PlanExists
    <2>3. CASE Unlock(t)
        BY <2>3 DEF Unlock
    <2>4. CASE Resume(t)
        BY <2>4 DEF Resume
    <2>5. CASE Reset(t)
        BY <2>5 DEF Reset, NewApi
    <2>6. CASE BeNameRejected(t)
        BY <2>6 DEF BeNameRejected
    <2>7. CASE DeadBE(t)
        BY <2>7 DEF DeadBE
    <2>8. CASE PlanFails(t)
        BY <2>8 DEF PlanFails
    <2>9. CASE PrepareRefused(t)
        BY <2>9 DEF PrepareRefused, Prepares
    <2>10. CASE PrepareStale(t)
        BY <2>10 DEF PrepareStale, Prepares, MayPrepare
    <2>11. CASE PrepareStart(t)
        BY <2>11 DEF PrepareStart, Prepares, MayPrepare
    <2>12. CASE PrepareFails(t)
        BY <2>12 DEF PrepareFails
    <2>13. CASE Prepared(t)
        BY <2>13 DEF Prepared
    <2>14. CASE ExecuteRefused(t)
        BY <2>14 DEF ExecuteRefused, Executes
    <2>15. CASE ExecuteStale(t)
        BY <2>15 DEF ExecuteStale, Executes, MayExecute
    <2>16. CASE ExecuteStart(t)
        BY <2>16 DEF ExecuteStart, Executes, MayExecute
    <2>17. CASE RunFails(t)
        BY <2>17 DEF RunFails
    <2>18. CASE AfterRunFails(t)
        BY <2>18 DEF AfterRunFails, Restored, NotRestored
    <2>19. CASE Executed(t)
        BY <2>19 DEF Executed
    <2>20. CASE RefreshDone(t)
        BY <2>20 DEF RefreshDone, Touch
    <2>21. CASE QueryDone(t)
        BY <2>21 DEF QueryDone, EndCancelable
    <2>22. ASSUME NEW b \in BOOLEAN, Planned(t, b) PROVE LocksInv'
        BY <2>22 DEF Planned, Evaluated
    <2>23. ASSUME NEW b \in BOOLEAN, LoadFails(t, b) PROVE LocksInv'
        BY <2>23 DEF LoadFails
    <2>24. ASSUME NEW b \in BOOLEAN, NEW f \in BOOLEAN, LoadPlan(t, b, f) PROVE LocksInv'
        BY <2>24 DEF LoadPlan, Evaluated
    <2> QED
        BY <1>2, <2>1, <2>2, <2>3, <2>4, <2>5, <2>6, <2>7, <2>8, <2>9, <2>10,
           <2>11, <2>12, <2>13, <2>14,
           <2>15, <2>16, <2>17, <2>18, <2>19, <2>20, <2>21, <2>22, <2>23,
              <2>24 DEF Step
<1>3. ASSUME NEW t \in Thread, Cancel(t) PROVE LocksInv'
    BY <1>3 DEF Cancel
<1>4. ASSUME NEW t \in Thread, CallReset(t) PROVE LocksInv'
    BY <1>4 DEF CallReset
<1>5. ASSUME NEW t \in Thread, GeneratorNext(t) PROVE LocksInv'
    BY <1>5 DEF GeneratorNext
<1>6. ASSUME NEW t \in Thread, ChildrenPlanned(t) PROVE LocksInv'
    BY <1>6 DEF ChildrenPlanned
<1>7. ASSUME NEW t \in Thread, Abandon(t) PROVE LocksInv'
    BY <1>7 DEF Abandon
<1>8. ASSUME NEW t \in Thread, NEW o \in Op, Call(t, o) PROVE LocksInv'
    BY <1>8 DEF Call, Op, Cancelable
<1>9. CASE OtherLocks
    BY <1>9 DEF OtherLocks
<1>10. CASE OtherUnlocks
    BY <1>10 DEF OtherUnlocks, Touch
<1> QED
    BY <1>1, <1>2, <1>3, <1>4, <1>5, <1>6, <1>7, <1>8, <1>9, <1>10 DEF Next

(* Every step keeps what the state of a plan says about it. *)
LEMMA PlanStep == TypeOK /\ LocksInv /\ PlanInv /\ [Next]_vars => PlanInv'
<1> SUFFICES ASSUME TypeOK, LocksInv, PlanInv, [Next]_vars PROVE PlanInv'
    OBVIOUS
<1> USE OwnersApart DEF TypeOK, LocksInv, PlanInv, InCall, KeepsImage, Plans,
        PlanState, locks, cancel, Goto, GotoAndWake, EnableCancel,
        DisableCancel, CancelDone, CancelCleanup, Return
<1>1. CASE UNCHANGED vars
    BY <1>1 DEF vars, locks, cancel
<1>2. ASSUME NEW t \in Thread, Step(t) PROVE PlanInv'
    <2>1. CASE Lock(t)
        BY <2>1 DEF Lock, PlanExists
    <2>2. CASE LockFails(t)
        BY <2>2 DEF LockFails, PlanExists
    <2>3. CASE Unlock(t)
        BY <2>3 DEF Unlock
    <2>4. CASE Resume(t)
        BY <2>4 DEF Resume
    <2>5. CASE Reset(t)
        BY <2>5 DEF Reset, NewApi
    <2>6. CASE BeNameRejected(t)
        BY <2>6 DEF BeNameRejected
    <2>7. CASE DeadBE(t)
        BY <2>7 DEF DeadBE
    <2>8. CASE PlanFails(t)
        BY <2>8 DEF PlanFails
    <2>9. CASE PrepareRefused(t)
        BY <2>9 DEF PrepareRefused, Prepares
    <2>10. CASE PrepareStale(t)
        BY <2>10 DEF PrepareStale, Prepares, MayPrepare
    <2>11. CASE PrepareStart(t)
        BY <2>11 DEF PrepareStart, Prepares, MayPrepare
    <2>12. CASE PrepareFails(t)
        BY <2>12 DEF PrepareFails
    <2>13. CASE Prepared(t)
        BY <2>13 DEF Prepared
    <2>14. CASE ExecuteRefused(t)
        BY <2>14 DEF ExecuteRefused, Executes
    <2>15. CASE ExecuteStale(t)
        BY <2>15 DEF ExecuteStale, Executes, MayExecute
    <2>16. CASE ExecuteStart(t)
        BY <2>16 DEF ExecuteStart, Executes, MayExecute
    <2>17. CASE RunFails(t)
        BY <2>17 DEF RunFails
    <2>18. CASE AfterRunFails(t)
        BY <2>18 DEF AfterRunFails, Restored, NotRestored
    <2>19. CASE Executed(t)
        BY <2>19 DEF Executed
    <2>20. CASE RefreshDone(t)
        BY <2>20 DEF RefreshDone, Touch
    <2>21. CASE QueryDone(t)
        BY <2>21 DEF QueryDone, EndCancelable
    <2>22. ASSUME NEW b \in BOOLEAN, Planned(t, b) PROVE PlanInv'
        BY <2>22 DEF Planned, Evaluated
    <2>23. ASSUME NEW b \in BOOLEAN, LoadFails(t, b) PROVE PlanInv'
        BY <2>23 DEF LoadFails
    <2>24. ASSUME NEW b \in BOOLEAN, NEW f \in BOOLEAN, LoadPlan(t, b, f) PROVE PlanInv'
        BY <2>24 DEF LoadPlan, Evaluated
    <2> QED
        BY <1>2, <2>1, <2>2, <2>3, <2>4, <2>5, <2>6, <2>7, <2>8, <2>9, <2>10,
           <2>11, <2>12, <2>13, <2>14,
           <2>15, <2>16, <2>17, <2>18, <2>19, <2>20, <2>21, <2>22, <2>23,
              <2>24 DEF Step
<1>3. ASSUME NEW t \in Thread, Cancel(t) PROVE PlanInv'
    BY <1>3 DEF Cancel
<1>4. ASSUME NEW t \in Thread, CallReset(t) PROVE PlanInv'
    BY <1>4 DEF CallReset
<1>5. ASSUME NEW t \in Thread, GeneratorNext(t) PROVE PlanInv'
    BY <1>5 DEF GeneratorNext
<1>6. ASSUME NEW t \in Thread, ChildrenPlanned(t) PROVE PlanInv'
    BY <1>6 DEF ChildrenPlanned
<1>7. ASSUME NEW t \in Thread, Abandon(t) PROVE PlanInv'
    BY <1>7 DEF Abandon
<1>8. ASSUME NEW t \in Thread, NEW o \in Op, Call(t, o) PROVE PlanInv'
    BY <1>8 DEF Call, Op, Cancelable
<1>9. CASE OtherLocks
    BY <1>9 DEF OtherLocks
<1>10. CASE OtherUnlocks
    BY <1>10 DEF OtherUnlocks, Touch
<1> QED
    BY <1>1, <1>2, <1>3, <1>4, <1>5, <1>6, <1>7, <1>8, <1>9, <1>10 DEF Next

-----------------------------------------------------------------------------
IInv == TypeOK /\ LocksInv /\ PlanInv

(* The initial state of the API object: no call, no plan, no lock taken.   *)
LEMMA InitInv == Init => IInv
<1> SUFFICES ASSUME Init PROVE IInv
    OBVIOUS
<1>1. TypeOK
    <2>1. FlagsOK
        BY Zenon DEF Init, FlagsOK
    <2>2. ThreadsOK
        BY DEF Init, ThreadsOK
    <2>3. PlansOK
        BY DEF Init, PlansOK, NewApi
    <2> QED
        BY <2>1, <2>2, <2>3 DEF TypeOK, FlagsOK, ThreadsOK, PlansOK
<1>2. LocksInv
    BY OwnersApart DEF Init, LocksInv, InCall, KeepsImage
<1>3. PlanInv
    BY DEF Init, PlanInv
<1> QED
    BY <1>1, <1>2, <1>3 DEF IInv

(* The three parts together are inductive: the types need that a plan under *)
(* way exists, and that needs that only the owner of the locks changes it.  *)
LEMMA Invariance == Spec => []IInv
<1>1. IInv /\ [Next]_vars => IInv'
    BY TypeStep, LocksStep, PlanStep DEF IInv
<1> QED
    BY InitInv, <1>1, PTL DEF Spec

(* The type invariant holds in every state the threads of a program reach. *)
THEOREM Typing == Spec => []TypeOK
BY Invariance, PTL DEF IInv

(* LocksReleased: on every way out of a call, and with any calls of other  *)
(* threads and processes between, both locks are given back.               *)
THEOREM CallsReleaseTheirLocks == Spec => []LocksReleased
<1>1. IInv => LocksReleased
    BY OwnersApart DEF IInv, TypeOK, LocksInv, LocksReleased, InCall, KeepsImage,
       MayHaveLeaked
<1> QED
    BY <1>1, Invariance, PTL

(* PlanRunsOnItsImage: a plan changes the locked image that it was made    *)
(* for, with its content downloaded, whatever came between.                *)
THEOREM PlansRunOnTheirImage == Spec => []PlanRunsOnItsImage
<1>1. IInv => PlanRunsOnItsImage
    BY DEF IInv, TypeOK, LocksInv, PlanInv, PlanRunsOnItsImage, InCall,
       KeepsImage, Plans
<1> QED
    BY <1>1, Invariance, PTL

(* RunsAtMostOnce: execute_plan never starts a plan in an image that has   *)
(* its actions: one that ran there and still says it is prepared is stale, *)
(* and one that is not stale was undone.                                   *)
THEOREM PlansRunOnce == Spec => []RunsAtMostOnce
<1>1. IInv => RunsAtMostOnce
    BY DEF IInv, TypeOK, PlanInv, RunsAtMostOnce, Plans
<1> QED
    BY <1>1, Invariance, PTL

-----------------------------------------------------------------------------
(* Every step keeps the owner of a cancellation. *)
LEMMA CancelStep ==
    TypeOK /\ LocksInv /\ CancelHasAnOwner /\ [Next]_vars => CancelHasAnOwner'
<1> SUFFICES ASSUME TypeOK, LocksInv, CancelHasAnOwner, [Next]_vars PROVE CancelHasAnOwner'
    OBVIOUS
<1> USE OwnersApart DEF TypeOK, LocksInv, CancelHasAnOwner, HandlesCancel,
        Cancelable, InCall, KeepsImage, MayHaveLeaked, locks, cancel, Goto,
        GotoAndWake, EnableCancel, DisableCancel, CancelDone, CancelCleanup,
        Return
<1>1. CASE UNCHANGED vars
    BY <1>1 DEF vars, locks, cancel
<1>2. ASSUME NEW t \in Thread, Step(t) PROVE CancelHasAnOwner'
    <2>1. CASE Lock(t)
        BY <2>1 DEF Lock, PlanExists
    <2>2. CASE LockFails(t)
        BY <2>2 DEF LockFails, PlanExists
    <2>3. CASE Unlock(t)
        BY <2>3 DEF Unlock
    <2>4. CASE Resume(t)
        BY <2>4 DEF Resume
    <2>5. CASE Reset(t)
        BY <2>5 DEF Reset, NewApi
    <2>6. CASE BeNameRejected(t)
        BY <2>6 DEF BeNameRejected
    <2>7. CASE DeadBE(t)
        BY <2>7 DEF DeadBE
    <2>8. CASE PlanFails(t)
        BY <2>8 DEF PlanFails
    <2>9. CASE PrepareRefused(t)
        BY <2>9 DEF PrepareRefused, Prepares
    <2>10. CASE PrepareStale(t)
        BY <2>10 DEF PrepareStale, Prepares, MayPrepare
    <2>11. CASE PrepareStart(t)
        BY <2>11 DEF PrepareStart, Prepares, MayPrepare
    <2>12. CASE PrepareFails(t)
        BY <2>12 DEF PrepareFails
    <2>13. CASE Prepared(t)
        BY <2>13 DEF Prepared
    <2>14. CASE ExecuteRefused(t)
        BY <2>14 DEF ExecuteRefused, Executes
    <2>15. CASE ExecuteStale(t)
        BY <2>15 DEF ExecuteStale, Executes, MayExecute
    <2>16. CASE ExecuteStart(t)
        BY <2>16 DEF ExecuteStart, Executes, MayExecute
    <2>17. CASE RunFails(t)
        BY <2>17 DEF RunFails
    <2>18. CASE AfterRunFails(t)
        BY <2>18 DEF AfterRunFails, Restored, NotRestored
    <2>19. CASE Executed(t)
        BY <2>19 DEF Executed
    <2>20. CASE RefreshDone(t)
        BY <2>20 DEF RefreshDone, Touch
    <2>21. CASE QueryDone(t)
        BY <2>21 DEF QueryDone, EndCancelable
    <2>22. ASSUME NEW b \in BOOLEAN, Planned(t, b) PROVE CancelHasAnOwner'
        BY <2>22 DEF Planned, Evaluated
    <2>23. ASSUME NEW b \in BOOLEAN, LoadFails(t, b) PROVE CancelHasAnOwner'
        BY <2>23 DEF LoadFails
    <2>24. ASSUME NEW b \in BOOLEAN, NEW f \in BOOLEAN, LoadPlan(t, b, f) PROVE CancelHasAnOwner'
        BY <2>24 DEF LoadPlan, Evaluated
    <2> QED
        BY <1>2, <2>1, <2>2, <2>3, <2>4, <2>5, <2>6, <2>7, <2>8, <2>9, <2>10,
           <2>11, <2>12, <2>13, <2>14,
           <2>15, <2>16, <2>17, <2>18, <2>19, <2>20, <2>21, <2>22, <2>23,
              <2>24 DEF Step
<1>3. ASSUME NEW t \in Thread, Cancel(t) PROVE CancelHasAnOwner'
    BY <1>3 DEF Cancel
<1>4. ASSUME NEW t \in Thread, CallReset(t) PROVE CancelHasAnOwner'
    BY <1>4 DEF CallReset
<1>5. ASSUME NEW t \in Thread, GeneratorNext(t) PROVE CancelHasAnOwner'
    BY <1>5 DEF GeneratorNext
<1>6. ASSUME NEW t \in Thread, ChildrenPlanned(t) PROVE CancelHasAnOwner'
    BY <1>6 DEF ChildrenPlanned
<1>7. ASSUME NEW t \in Thread, Abandon(t) PROVE CancelHasAnOwner'
    BY <1>7 DEF Abandon
<1>8. ASSUME NEW t \in Thread, NEW o \in Op, Call(t, o) PROVE CancelHasAnOwner'
    BY <1>8 DEF Call, Op, Cancelable
<1>9. CASE OtherLocks
    BY <1>9 DEF OtherLocks
<1>10. CASE OtherUnlocks
    BY <1>10 DEF OtherUnlocks, Touch
<1> QED
    BY <1>1, <1>2, <1>3, <1>4, <1>5, <1>6, <1>7, <1>8, <1>9, <1>10 DEF Next

(* CancelHasAnOwner: whoever sleeps in cancel() is answered by a call that *)
(* is under way, and no flag of a canceled call outlives it.               *)
THEOREM CancelIsOwned == Spec => []CancelHasAnOwner
<1>1. Init => CancelHasAnOwner
    BY DEF Init, CancelHasAnOwner
<1>2. IInv /\ CancelHasAnOwner /\ [Next]_vars => CancelHasAnOwner'
    BY CancelStep DEF IInv
<1> QED
    BY <1>1, <1>2, Invariance, PTL DEF Spec

(* CancelStopsTheCall: once cancel() was accepted, no step shows a plan and *)
(* none marks the plan in preparation as prepared.                         *)
THEOREM CanceledCallsStop == Spec => CancelStopsTheCall
<1>1. IInv /\ [Next]_vars => [NoSuccessAfterCancel]_vars
    <2> SUFFICES ASSUME TypeOK, LocksInv, Next, canceling, NEW u \in Thread
                 PROVE  /\ pc'[u] = "yielded" => pc[u] = "yielded"
                        /\ pc[u] = "download" => api'.prepared = api.prepared
        BY DEF IInv, NoSuccessAfterCancel
    <2> USE DEF Goto, GotoAndWake, DisableCancel, CancelDone, CancelCleanup
    <2>1. pc'[u] = "yielded" => pc[u] = "yielded"
        BY ZenonT(60) DEF TypeOK, Next, Step, Cancel, CallReset, GeneratorNext,
           ChildrenPlanned, Abandon,
           Call, OtherLocks, OtherUnlocks, EndCancelable,
           Lock, LockFails, Unlock, Resume, Reset, BeNameRejected, DeadBE, PlanFails,
           PrepareRefused, PrepareStale, PrepareStart, PrepareFails, Prepared,
           ExecuteRefused, ExecuteStale, ExecuteStart, RunFails, AfterRunFails, Executed,
           RefreshDone, QueryDone, Planned, LoadFails, LoadPlan
    <2>2. ASSUME pc[u] = "download" PROVE api'.prepared = api.prepared
        <3>1. activity = u
            BY <2>2 DEF LocksInv, InCall
        <3>2. UNCHANGED api \/ \E t \in Thread : ChildrenPlanned(t) \/ Step(t)
            BY DEF Next, Cancel, CallReset, GeneratorNext, Abandon, Call,
               OtherLocks, OtherUnlocks
        <3> QED
            BY <2>2, <3>1, <3>2 DEF LocksInv, InCall, ChildrenPlanned, Step,
           Lock, LockFails, Unlock, Resume, Reset, BeNameRejected, DeadBE, PlanFails,
           PrepareRefused, PrepareStale, PrepareStart, PrepareFails, Prepared,
           ExecuteRefused, ExecuteStale, ExecuteStart, RunFails, AfterRunFails, Executed,
           RefreshDone, QueryDone, Planned, LoadFails, LoadPlan, Prepares, Executes
    <2> QED
        BY <2>1, <2>2
<1> QED
    BY <1>1, Invariance, PTL DEF Spec, CancelStopsTheCall
=============================================================================
