------------------------- MODULE PlanExecutionProofs -------------------------
(***************************************************************************)
(* Proofs about PlanExecution for any number of clients and of boot        *)
(* environments: what an operation leaves in the boot environments, in     *)
(* which images it is recorded, and what it tells the user.                *)
(***************************************************************************)
EXTENDS PlanExecution, FiniteSetTheorems, TLAPS

-----------------------------------------------------------------------------
(* The inductive invariant.                                                *)

Images == [done : SUBSET Client, half : SUBSET Client,
           hist : SUBSET (Client \X {"ok", "failed"})]
Jobs == [mode : {"direct", "new"}, target : Nat, root : Nat, backup : BOOLEAN,
         env : {"none", "be", "null"}, plan : SUBSET Client]
Locations == {"none", "planned", "locked", "env", "ready", "executing", "failing",
              "executed", "finishing", "activating", "relocking", "ended", "dead"}
Answers == {"nothing", "locked", "failed", "ok", "restored", "unmodified"}

\* Where a client holds the lock of the image it works on, where it may have
\* a snapshot to return to, and where it works in the root it was given.
Holds == {"locked", "env", "ready", "executing", "executed", "finishing", "failing"}
Guarded == Holds \ {"locked"}
AtRoot == {"ready", "executing", "executed", "finishing", "failing", "activating"}
Before == {"none", "planned", "locked", "env", "ready"}

\* The boot environments are numbered from 0 without a gap.
BesInv == /\ Fresh \in 2 .. MaxBe + 1
          /\ DOMAIN be = 0 .. Fresh - 1

EnvsOK ==
    /\ be \in [DOMAIN be -> Images]
    /\ running \in DOMAIN be /\ active \in DOMAIN be
    /\ snap \in [Client -> Images \cup {NoSnap}]
ClientsOK ==
    /\ lock \in [0 .. MaxBe -> Client \cup {None}]
    /\ pc \in [Client -> Locations] /\ told \in [Client -> Answers]
    /\ open \subseteq Client
    /\ job \in [Client -> Jobs \cup {NoJob}]
\* The client has a snapshot that it would return to.
HasSnap(c) == pc[c] \in Guarded /\ job[c].mode = "direct" /\ job[c].env = "be"
JobsOK ==
    \A c \in Client :
        /\ HasSnap(c) => snap[c] \in Images
        /\ pc[c] = "none" => job[c] = NoJob
        /\ pc[c] # "none" => /\ job[c] \in Jobs
                             /\ job[c].target \in DOMAIN be /\ job[c].root \in DOMAIN be

TypeInv == BesInv /\ EnvsOK /\ ClientsOK /\ JobsOK

\* A client works on the image it has locked.
LockInv == \A c \in Client : pc[c] \in Holds => lock[job[c].root] = c

\* Only a plan for a new boot environment leaves the root it was made for.
RootInv == \A c \in Client :
    /\ pc[c] # "none" /\ job[c].mode = "direct" => job[c].root = job[c].target
    /\ pc[c] \in {"planned", "locked", "env", "relocking"} => job[c].root = job[c].target
    /\ pc[c] \in {"activating", "relocking"} => job[c].mode = "new"

\* The running system and the next one are never the alternate root, which is
\* the only image that can be rolled back.
TargetInv ==
    /\ running # Alternate /\ active # Alternate
    /\ \A c \in Client : InProgress(c) =>
           /\ job[c].target \in {running, Alternate}
           /\ job[c].mode = "new" => job[c].target = running

\* Nobody but its maker knows a clone before it is activated.
CloneInv == \A c \in Client :
    pc[c] \in AtRoot /\ job[c].mode = "new" =>
        /\ job[c].root \notin {running, active, Alternate}
        /\ \A d \in Client : pc[d] # "none" =>
               /\ job[d].target # job[c].root
               /\ d # c => job[d].root # job[c].root

\* Work that has not begun is nowhere; there is no snapshot before one is taken.
BeforeInv == \A c \in Client :
    /\ pc[c] \in Before =>
         /\ \A b \in DOMAIN be : c \notin be[b].done /\ c \notin be[b].half
         /\ \A d \in Client : snap[d] \in Images => c \notin snap[d].done /\ c \notin snap[d].half
    /\ pc[c] \in {"none", "planned", "locked"} => snap[c] = NoSnap

\* An operation for a new boot environment leaves its target alone.
NewInv == \A c \in Client : pc[c] # "none" /\ job[c].mode = "new" =>
    /\ c \notin be[job[c].target].done /\ c \notin be[job[c].target].half
    /\ \A d \in Client : snap[d] \in Images /\ job[d].target = job[c].target =>
           c \notin snap[d].done /\ c \notin snap[d].half

\* A clone that is half done is reached by nobody.
HiddenInv == \A c \in Client : pc[c] # "none" /\ job[c].mode = "new" =>
    /\ \A b \in DOMAIN be : c \in be[b].half =>
           /\ b \notin {running, active, Alternate}
           /\ \A d \in Client : pc[d] # "none" =>
                  /\ job[d].target # b
                  /\ d # c => job[d].root # b
           /\ pc[c] \in {"executed", "finishing", "activating"} => job[c].root # b
    /\ \A d \in Client : snap[d] \in Images => c \notin snap[d].half

\* While an operation executes it is half done in its own image only.
QuietInv == \A c \in Client : pc[c] = "executing" =>
    /\ \A b \in DOMAIN be : c \in be[b].half => b = job[c].root
    /\ \A d \in Client : snap[d] \in Images => c \notin snap[d].half

\* A snapshot that may be rolled back to has all that others have completed.
SnapInv == \A d \in Client :
    /\ HasSnap(d) =>
         \A c \in Client \ {d} :
             c \in be[job[d].target].done => c \in snap[d].done
    /\ snap[d] \in Images => d \notin snap[d].done /\ d \notin snap[d].half

\* ... and all that others have recorded, but for those refused the lock.
SnapHistInv == \A d \in Client : HasSnap(d) /\ job[d].target # running =>
    \A c \in Client \ {d}, r \in {"ok", "failed"} :
        <<c, r>> \in be[job[d].target].hist /\ told[c] # "locked" => <<c, r>> \in snap[d].hist

\* Only a client that has ended has told the user something; one that was
\* rolled back is in no snapshot of its image.
ToldInv == \A c \in Client :
    /\ told[c] # "nothing" => pc[c] = "ended"
    /\ told[c] = "unmodified" => job[c].mode = "new"
CleanInv == \A c \in Client : told[c] = "restored" =>
    /\ c \notin be[job[c].target].done /\ c \notin be[job[c].target].half
    /\ \A d \in Client : HasSnap(d) /\ job[d].target = job[c].target =>
           c \notin snap[d].done /\ c \notin snap[d].half

\* An operation is on the history stack until its end is recorded.
IsRecorded(c) == \E b \in DOMAIN be, r \in {"ok", "failed"} : <<c, r>> \in be[b].hist
OpenInv == \A c \in Client :
    /\ InProgress(c) /\ pc[c] # "relocking" => c \in open
    /\ pc[c] = "relocking" => c \in open \/ IsRecorded(c)
    /\ pc[c] = "relocking" /\ "activate" \notin Faults => c \notin open

\* What is about to be recorded as a success is done.
DoneInv == \A c \in Client :
    pc[c] \in {"executed", "finishing", "activating"} => c \in be[job[c].root].done
TrueInv == 
    /\ \A b \in DOMAIN be, c \in Client : <<c, "ok">> \in be[b].hist => c \in be[b].done
    /\ \A d, c \in Client : snap[d] \in Images /\ <<c, "ok">> \in snap[d].hist => c \in snap[d].done
-----------------------------------------------------------------------------
(* What the helpers of the model do to the boot environments.              *)

(* A snapshot that was not taken is no image.                              *)
LEMMA NoSnapIsNone == NoSnap \notin Images
    BY DEF NoSnap, Images

(* The next boot environment has a number of its own, and a lock if there  *)
(* is room for it.                                                         *)
LEMMA FreshFacts ==
    ASSUME BesInv
    PROVE  /\ Fresh \in Nat /\ Fresh \notin DOMAIN be
           /\ 0 \in DOMAIN be /\ Alternate \in DOMAIN be /\ Fresh # Alternate
           /\ DOMAIN be \subseteq Nat /\ DOMAIN be \subseteq 0 .. MaxBe
           /\ Room => Fresh \in 0 .. MaxBe
    BY BoundAssumption DEF BesInv, Room, Alternate

(* A copy that becomes a boot environment keeps their numbers without gap. *)
LEMMA BesStep ==
    ASSUME BesInv,
           DOMAIN be' = DOMAIN be \/ (Room /\ DOMAIN be' = DOMAIN be \cup {Fresh})
    PROVE  BesInv'
<1>1. CASE DOMAIN be' = DOMAIN be
    <2>1. Fresh' = Fresh
        BY <1>1 DEF Fresh
    <2> QED
        BY <1>1, <2>1 DEF BesInv
<1>2. CASE Room /\ DOMAIN be' = DOMAIN be \cup {Fresh}
    <2>1. Fresh \in 2 .. MaxBe /\ MaxBe \in Nat
        BY <1>2, BoundAssumption DEF BesInv, Room
    <2>2. DOMAIN be' = 0 .. Fresh
        BY <1>2, <2>1 DEF BesInv
    <2>3. Cardinality(0 .. Fresh) = Fresh + 1
        BY <2>1, FS_Interval
    <2>4. Fresh' = Fresh + 1
        BY <2>1, <2>2, <2>3 DEF Fresh
    <2> QED
        BY <2>1, <2>2, <2>4 DEF BesInv
<1> QED
    BY <1>1, <1>2

(* libbe: the copy is the image, and the others are as they were.          *)
LEMMA CopiedFacts ==
    ASSUME BesInv, EnvsOK, NEW image \in Images
    PROVE  /\ DOMAIN Copied(image) = DOMAIN be \cup {Fresh}
           /\ Copied(image) \in [DOMAIN be \cup {Fresh} -> Images]
           /\ Copied(image)[Fresh] = image
           /\ \A b \in DOMAIN be : Copied(image)[b] = be[b]
    BY FreshFacts DEF Copied, EnvsOK

(* The history of one image grows by the end of an operation under way;    *)
(* what was done in the images stays.                                      *)
RecordsEnd(old, new, b, c, r) ==
    /\ new \in [DOMAIN old -> Images]
    /\ \A x \in DOMAIN old :
           /\ new[x].done = old[x].done /\ new[x].half = old[x].half
           /\ x # b => new[x].hist = old[x].hist
    /\ new[b].hist = IF c \in open THEN old[b].hist \cup {<<c, r>>} ELSE old[b].hist

(* Recorded() is such a record.                                            *)
LEMMA RecordedFacts ==
    ASSUME NEW bes, bes \in [DOMAIN bes -> Images], NEW b \in DOMAIN bes,
           NEW c \in Client, NEW r \in {"ok", "failed"}
    PROVE  RecordsEnd(bes, Recorded(bes, b, c, r), b, c, r)
<1> USE DEF RecordsEnd
<1> DEFINE D == DOMAIN bes
<1>1. CASE c \notin open
    BY <1>1 DEF Recorded
<1>2. CASE c \in open
    <2> DEFINE new == [bes EXCEPT ![b].hist = @ \cup {<<c, r>>}]
    <2>1. Recorded(bes, b, c, r) = new
        BY <1>2 DEF Recorded
    <2>2. /\ bes[b] \in Images
          /\ bes[b].hist \cup {<<c, r>>} \in SUBSET (Client \X {"ok", "failed"})
        BY DEF Images
    <2>3. [bes[b] EXCEPT !.hist = @ \cup {<<c, r>>}] \in Images
        BY <2>2 DEF Images
    <2>4. new \in [DOMAIN bes -> Images]
        BY <2>3
    <2>5. \A x \in D \ {b} : new[x] = bes[x]
        OBVIOUS
    <2>6. /\ new[b].done = bes[b].done /\ new[b].half = bes[b].half
          /\ new[b].hist = bes[b].hist \cup {<<c, r>>}
        BY <2>2 DEF Images
    <2> QED
        BY <1>2, <2>1, <2>4, <2>5, <2>6
<1> QED
    BY <1>1, <1>2

-----------------------------------------------------------------------------
(* What a step does to the work in the boot environments.                  *)
SameWork(b) == be'[b].done = be[b].done /\ be'[b].half = be[b].half
KeepsWork == DOMAIN be' = DOMAIN be /\ \A b \in DOMAIN be : SameWork(b)
CopiesWork(image) ==
    /\ Room /\ DOMAIN be' = DOMAIN be \cup {Fresh}
    /\ \A b \in DOMAIN be : SameWork(b)
    /\ be'[Fresh].done = image.done /\ be'[Fresh].half = image.half
    /\ be'[Fresh].hist = image.hist
BeginsWork(c) ==
    /\ DOMAIN be' = DOMAIN be
    /\ \A b \in DOMAIN be \ {job[c].root} : SameWork(b)
    /\ be'[job[c].root].done = be[job[c].root].done
    /\ be'[job[c].root].half = be[job[c].root].half \cup {c}
DoesWork(c) ==
    /\ DOMAIN be' = DOMAIN be
    /\ \A b \in DOMAIN be \ {job[c].root} : SameWork(b)
    /\ be'[job[c].root].done = be[job[c].root].done \cup {c}
    /\ be'[job[c].root].half = be[job[c].root].half \ {c}
RestoresWork(c) ==
    /\ DOMAIN be' = DOMAIN be
    /\ \A b \in DOMAIN be \ {job[c].target} : SameWork(b)
    /\ be'[job[c].target].done = snap[c].done
    /\ be'[job[c].target].half = snap[c].half
ImagesOK == be' \in [DOMAIN be' -> Images]

(* ... and to their histories.                                             *)
KeepsHist == \A b \in DOMAIN be : be'[b].hist = be[b].hist
RecordsAt(b, c, r) ==
    /\ \A x \in DOMAIN be \ {b} : be'[x].hist = be[x].hist
    /\ be'[b].hist = IF c \in open THEN be[b].hist \cup {<<c, r>>} ELSE be[b].hist
RestoresHist(c) ==
    /\ \A x \in DOMAIN be \ {job[c].target} : be'[x].hist = be[x].hist
    /\ be'[job[c].target].hist = IF c \in open THEN snap[c].hist \cup {<<c, "failed">>}
                                 ELSE snap[c].hist

(* Steps that record something at most.                                    *)
LEMMA RecordsOnly ==
    ASSUME TypeInv, NEW c \in Client,
           \/ Plan(c) \/ LockImage(c) \/ LockFails(c) \/ MakeBootEnv(c)
           \/ ExecuteRefuses(c) \/ ActionFails(c) \/ RestoreImage(c) \/ RestoreNothing(c)
           \/ Recurse(c) \/ FinishDirect(c) \/ UnlockClone(c) \/ Activate(c)
           \/ ActivateRaises(c) \/ Relock(c) \/ Crash(c) \/ Reboot
    PROVE  KeepsWork /\ ImagesOK
<1> USE DEF KeepsWork, SameWork, ImagesOK
<1>0. be \in [DOMAIN be -> Images]
    BY DEF TypeInv, EnvsOK
<1>1. CASE be' = be
    BY <1>0, <1>1
<1>2. CASE /\ pc[c] # "none"
           /\ \E b \in {job[c].target, job[c].root}, r \in {"ok", "failed"} :
                  be' = Recorded(be, b, c, r)
    <2>1. job[c].target \in DOMAIN be /\ job[c].root \in DOMAIN be
        BY <1>2 DEF TypeInv, JobsOK
    <2>2. PICK b \in DOMAIN be, r \in {"ok", "failed"} : be' = Recorded(be, b, c, r)
        BY <1>2, <2>1
    <2>3. RecordsEnd(be, be', b, c, r)
        BY <1>0, <2>2, RecordedFacts, Zenon
    <2> QED
        BY <2>3 DEF RecordsEnd
<1>3. CASE ActivateRaises(c)
    <2>1. pc[c] # "none"
        BY <1>3 DEF ActivateRaises
    <2>2. job[c].target \in DOMAIN be /\ job[c].root \in DOMAIN be
        BY <2>1 DEF TypeInv, JobsOK
    <2>3. PICK mid : /\ mid = be \/ mid = Recorded(be, job[c].root, c, "ok")
                     /\ be' = Recorded(mid, job[c].target, c, "failed")
        BY <1>3 DEF ActivateRaises
    <2>4. mid = be \/ RecordsEnd(be, mid, job[c].root, c, "ok")
        BY <1>0, <2>2, <2>3, RecordedFacts, Zenon
    <2>5. /\ mid \in [DOMAIN be -> Images] /\ DOMAIN mid = DOMAIN be
          /\ \A b \in DOMAIN be : mid[b].done = be[b].done /\ mid[b].half = be[b].half
        BY <1>0, <2>4 DEF RecordsEnd
    <2>6. RecordsEnd(mid, be', job[c].target, c, "failed")
        BY <2>2, <2>3, <2>5, RecordedFacts, Zenon
    <2> QED
        BY <2>5, <2>6 DEF RecordsEnd
<1>4. Activate(c) => be' = be \/ be' = Recorded(be, job[c].root, c, "ok")
    BY DEF Activate
<1>5. CASE \/ Plan(c) \/ LockImage(c) \/ MakeBootEnv(c) \/ ExecuteRefuses(c)
           \/ ActionFails(c) \/ Recurse(c) \/ UnlockClone(c) \/ Crash(c) \/ Reboot
    BY <1>1, <1>5 DEF Plan, LockImage, MakeBootEnv, ExecuteRefuses, ActionFails,
       Recurse, UnlockClone, Crash, Reboot, envs
<1>6. CASE \/ LockFails(c) \/ RestoreImage(c) \/ RestoreNothing(c) \/ FinishDirect(c)
           \/ Relock(c)
    BY <1>2, <1>6 DEF LockFails, RestoreImage, RestoreNothing, FinishDirect, Relock
<1>7. CASE Activate(c)
    BY <1>1, <1>2, <1>4, <1>7 DEF Activate
<1> QED
    BY <1>3, <1>5, <1>6, <1>7

(* Steps that may add a copy of an image.                                  *)
LEMMA CopyStep ==
    ASSUME TypeInv, NEW c \in Client, pc[c] # "none", NEW image \in Images,
           NEW bes, bes = be \/ (Room /\ bes = Copied(image)),
           be' = bes \/ be' = Recorded(bes, job[c].target, c, "failed")
    PROVE  /\ ImagesOK /\ (KeepsWork \/ CopiesWork(image))
           /\ be' = bes => KeepsHist
           /\ be' = Recorded(bes, job[c].target, c, "failed")
                => RecordsAt(job[c].target, c, "failed")
<1>1. job[c].target \in DOMAIN be /\ be \in [DOMAIN be -> Images] /\ Fresh \notin DOMAIN be
    BY FreshFacts DEF TypeInv, JobsOK, EnvsOK
<1>2. /\ bes \in [DOMAIN bes -> Images] /\ job[c].target \in DOMAIN bes
      /\ \A b \in DOMAIN be : bes[b] = be[b]
      /\ \/ DOMAIN bes = DOMAIN be
         \/ Room /\ DOMAIN bes = DOMAIN be \cup {Fresh} /\ bes[Fresh] = image
    <2>1. CASE bes = be
        BY <1>1, <2>1
    <2>2. CASE Room /\ bes = Copied(image)
        BY <1>1, <2>2, CopiedFacts DEF TypeInv
    <2> QED
        BY <2>1, <2>2
<1>3. /\ be' = bes \/ RecordsEnd(bes, be', job[c].target, c, "failed")
      /\ be' = Recorded(bes, job[c].target, c, "failed")
           => RecordsEnd(bes, be', job[c].target, c, "failed")
    BY <1>2, RecordedFacts, Zenon
<1>4. /\ DOMAIN be' = DOMAIN bes /\ be' \in [DOMAIN be' -> Images]
      /\ \A b \in DOMAIN bes :
             /\ be'[b].done = bes[b].done /\ be'[b].half = bes[b].half
             /\ b # job[c].target => be'[b].hist = bes[b].hist
    BY <1>2, <1>3 DEF RecordsEnd
<1>5. ImagesOK /\ (KeepsWork \/ CopiesWork(image))
    BY <1>1, <1>2, <1>4 DEF ImagesOK, KeepsWork, CopiesWork, SameWork
<1>6. RecordsEnd(bes, be', job[c].target, c, "failed") => RecordsAt(job[c].target, c, "failed")
    BY <1>1, <1>2 DEF RecordsEnd, RecordsAt
<1>7. be' = bes => KeepsHist
    BY <1>2 DEF KeepsHist
<1> QED
    BY <1>3, <1>5, <1>6, <1>7

(* The backup is a copy of the target; the end is recorded if it fails.    *)
LEMMA CreateBackupBeWork ==
    ASSUME TypeInv, NEW c \in Client, CreateBackupBe(c)
    PROVE  /\ ImagesOK /\ (KeepsWork \/ CopiesWork(be[job[c].target]))
           /\ \/ KeepsHist /\ Goto(c, "ready") /\ UNCHANGED <<job, open, told>>
              \/ RecordsAt(job[c].target, c, "failed") /\ End(c, "failed")
<1>1. pc[c] # "none" /\ be[job[c].target] \in Images
    BY DEF CreateBackupBe, TypeInv, JobsOK, EnvsOK
<1>2. PICK copied \in BOOLEAN, ok \in BOOLEAN :
          /\ copied => Room
          /\ LET bes == IF copied THEN Copied(be[job[c].target]) ELSE be
             IN  IF ok
                 THEN /\ be' = bes
                      /\ Goto(c, "ready")
                      /\ UNCHANGED <<running, lock, job, open, told>>
                 ELSE /\ be' = Recorded(bes, job[c].target, c, "failed")
                      /\ End(c, "failed")
    BY DEF CreateBackupBe
<1> DEFINE bes == IF copied THEN Copied(be[job[c].target]) ELSE be
<1>3. /\ bes = be \/ (Room /\ bes = Copied(be[job[c].target]))
      /\ ok => be' = bes /\ Goto(c, "ready") /\ UNCHANGED <<job, open, told>>
      /\ ~ok => be' = Recorded(bes, job[c].target, c, "failed") /\ End(c, "failed")
    BY <1>2
<1> HIDE DEF bes
<1>4. /\ ImagesOK /\ (KeepsWork \/ CopiesWork(be[job[c].target]))
      /\ be' = bes => KeepsHist
      /\ be' = Recorded(bes, job[c].target, c, "failed")
           => RecordsAt(job[c].target, c, "failed")
    BY <1>1, <1>3, CopyStep
<1> QED
    BY <1>3, <1>4

(* The clone is a copy of the target, and it is there if the client goes on. *)
LEMMA InitImageRecoveryWork ==
    ASSUME TypeInv, NEW c \in Client, InitImageRecovery(c)
    PROVE  /\ ImagesOK /\ (KeepsWork \/ CopiesWork(be[job[c].target]))
           /\ pc'[c] = "ready" => CopiesWork(be[job[c].target]) /\ KeepsHist
           /\ pc'[c] # "ready" => RecordsAt(job[c].target, c, "failed")
<1>1. pc[c] # "none" /\ be[job[c].target] \in Images
    BY DEF InitImageRecovery, TypeInv, JobsOK, EnvsOK
<1>2. PICK bes : /\ bes = be \/ (Room /\ bes = Copied(be[job[c].target]))
                 /\ be' = bes \/ be' = Recorded(bes, job[c].target, c, "failed")
                 /\ pc'[c] # "ready" => be' = Recorded(bes, job[c].target, c, "failed")
    BY DEF InitImageRecovery, Goto, TypeInv, ClientsOK
<1>3. /\ ImagesOK /\ (KeepsWork \/ CopiesWork(be[job[c].target]))
      /\ pc'[c] # "ready" => RecordsAt(job[c].target, c, "failed")
    BY <1>1, <1>2, CopyStep
<1>4. ASSUME pc'[c] = "ready" PROVE be' = Copied(be[job[c].target])
    BY <1>4 DEF InitImageRecovery, End, Goto, TypeInv, ClientsOK
<1>5. pc'[c] = "ready" => ~KeepsWork
    BY <1>1, <1>4, CopiedFacts, FreshFacts DEF TypeInv, KeepsWork
<1>6. pc'[c] = "ready" => KeepsHist
    BY <1>1, <1>4, CopiedFacts DEF TypeInv, KeepsHist
<1> QED
    BY <1>3, <1>5, <1>6

(* A boot environment is made of the snapshot, or none is.                 *)
LEMMA RestoreLiveWork ==
    ASSUME TypeInv, NEW c \in Client, RestoreLive(c)
    PROVE  /\ ImagesOK /\ (KeepsWork \/ CopiesWork(snap[c]))
           /\ RecordsAt(job[c].target, c, "failed")
<1>1. pc[c] # "none" /\ snap[c] \in Images
    BY DEF RestoreLive, TypeInv, JobsOK, HasSnap, Guarded, Holds, InBe
<1>2. PICK bes : /\ bes = be \/ (Room /\ bes = Copied(snap[c]))
                 /\ be' = Recorded(bes, job[c].target, c, "failed")
    BY DEF RestoreLive
<1> QED
    BY <1>1, <1>2, CopyStep

(* Execution begins in the image at the root.                              *)
LEMMA ExecuteWork ==
    ASSUME TypeInv, NEW c \in Client, Execute(c)
    PROVE  ImagesOK /\ BeginsWork(c) /\ KeepsHist
<1>1. /\ job[c].root \in DOMAIN be /\ be \in [DOMAIN be -> Images]
      /\ be' = [be EXCEPT ![job[c].root].half = @ \cup {c}]
    BY DEF Execute, TypeInv, JobsOK, EnvsOK
<1>2. be[job[c].root] \in Images
    BY <1>1
<1>3. [be[job[c].root] EXCEPT !.half = @ \cup {c}] \in Images
    BY <1>2 DEF Images
<1>4. ImagesOK /\ DOMAIN be' = DOMAIN be
    BY <1>1, <1>3 DEF ImagesOK
<1> QED
    BY <1>1, <1>2, <1>4 DEF BeginsWork, SameWork, Images, KeepsHist

(* What was half done in the image at the root is done.                    *)
LEMMA DoneFacts ==
    ASSUME TypeInv, NEW c \in Client, pc[c] # "none"
    PROVE  /\ Done(c) \in [DOMAIN be -> Images] /\ DOMAIN Done(c) = DOMAIN be
           /\ \A b \in DOMAIN be \ {job[c].root} : Done(c)[b] = be[b]
           /\ Done(c)[job[c].root].done = be[job[c].root].done \cup {c}
           /\ Done(c)[job[c].root].half = be[job[c].root].half \ {c}
           /\ Done(c)[job[c].root].hist = be[job[c].root].hist
<1>1. job[c].root \in DOMAIN be /\ be \in [DOMAIN be -> Images]
    BY DEF TypeInv, JobsOK, EnvsOK
<1> DEFINE i == be[job[c].root]
           j == [i EXCEPT !.half = @ \ {c}, !.done = @ \cup {c}]
<1>2. i \in Images
    BY <1>1
<1>3. j \in Images
    BY <1>2 DEF Images
<1>4. Done(c) = [be EXCEPT ![job[c].root] = j]
    BY <1>1, <1>2 DEF Done, Images
<1>5. j.done = i.done \cup {c} /\ j.half = i.half \ {c} /\ j.hist = i.hist
    BY <1>2 DEF Images
<1> HIDE DEF i, j
<1>6. /\ Done(c) \in [DOMAIN be -> Images] /\ DOMAIN Done(c) = DOMAIN be
      /\ \A b \in DOMAIN be \ {job[c].root} : Done(c)[b] = be[b]
      /\ Done(c)[job[c].root] = j
    BY <1>1, <1>3, <1>4
<1> QED
    BY <1>5, <1>6 DEF i

(* The actions end in the image at the root.                               *)
LEMMA ExecutionEndsWork ==
    ASSUME TypeInv, NEW c \in Client, ActionsDone(c) \/ IndexFails(c)
    PROVE  /\ ImagesOK /\ DoesWork(c)
           /\ ActionsDone(c) => KeepsHist
           /\ IndexFails(c) => RecordsAt(job[c].root, c, "failed")
<1>1. pc[c] # "none"
    BY DEF ActionsDone, IndexFails
<1>2. /\ job[c].root \in DOMAIN Done(c) /\ Done(c) \in [DOMAIN Done(c) -> Images]
      /\ DOMAIN Done(c) = DOMAIN be
    BY <1>1, DoneFacts DEF TypeInv, JobsOK
<1>3. /\ ActionsDone(c) => be' = Done(c)
      /\ IndexFails(c) => RecordsEnd(Done(c), be', job[c].root, c, "failed")
    BY <1>2, RecordedFacts, Zenon DEF ActionsDone, IndexFails
<1>4. /\ DOMAIN be' = DOMAIN be /\ be' \in [DOMAIN be' -> Images]
      /\ \A b \in DOMAIN be : be'[b].done = Done(c)[b].done /\ be'[b].half = Done(c)[b].half
    BY <1>2, <1>3 DEF RecordsEnd
<1>5. \A b \in DOMAIN be : Done(c)[b].hist = be[b].hist
    BY <1>1, <1>2, DoneFacts
<1>6. /\ ActionsDone(c) => KeepsHist
      /\ IndexFails(c) => RecordsAt(job[c].root, c, "failed")
    BY <1>2, <1>3, <1>5 DEF RecordsEnd, KeepsHist, RecordsAt
<1> QED
    BY <1>1, <1>2, <1>4, <1>6, DoneFacts DEF ImagesOK, DoesWork, SameWork

(* The target becomes what the snapshot is, or stays.                      *)
LEMMA RollbackWork ==
    ASSUME TypeInv, NEW c \in Client, Rollback(c)
    PROVE  /\ ImagesOK /\ (KeepsWork \/ RestoresWork(c))
           /\ "rollback" \notin Faults => RestoresWork(c)
           /\ \/ /\ KeepsWork /\ RecordsAt(job[c].target, c, "failed")
                 /\ "rollback" \in Faults
              \/ RestoresWork(c) /\ RestoresHist(c)
<1>1. pc[c] # "none" /\ snap[c] \in Images
    BY DEF Rollback, TypeInv, JobsOK, HasSnap, Guarded, Holds, InBe
<1>2. job[c].target \in DOMAIN be /\ be \in [DOMAIN be -> Images]
    BY <1>1 DEF TypeInv, JobsOK, EnvsOK
<1>3. PICK bes : /\ \/ bes = be /\ "rollback" \in Faults
                    \/ bes = [be EXCEPT ![job[c].target] = snap[c]]
                 /\ be' = Recorded(bes, job[c].target, c, "failed")
    BY DEF Rollback
<1>4. /\ bes \in [DOMAIN bes -> Images] /\ DOMAIN bes = DOMAIN be
      /\ \A b \in DOMAIN be \ {job[c].target} : bes[b] = be[b]
      /\ \/ bes = be /\ "rollback" \in Faults
         \/ bes[job[c].target] = snap[c]
    BY <1>1, <1>2, <1>3
<1>5. RecordsEnd(bes, be', job[c].target, c, "failed")
    BY <1>2, <1>3, <1>4, RecordedFacts, Zenon
<1>6. /\ DOMAIN be' = DOMAIN be /\ be' \in [DOMAIN be' -> Images]
      /\ \A b \in DOMAIN be : be'[b].done = bes[b].done /\ be'[b].half = bes[b].half
    BY <1>4, <1>5 DEF RecordsEnd
<1>7. bes = be => KeepsWork /\ RecordsAt(job[c].target, c, "failed")
    BY <1>2, <1>5, <1>6 DEF RecordsEnd, RecordsAt, KeepsWork, SameWork
<1>8. bes[job[c].target] = snap[c] => RestoresWork(c) /\ RestoresHist(c)
    BY <1>2, <1>4, <1>5, <1>6 DEF RecordsEnd, RestoresHist, RestoresWork, SameWork
<1> QED
    BY <1>2, <1>4, <1>6, <1>7, <1>8 DEF ImagesOK

(* Boot environments come and never go, and hold images.                   *)
LEMMA ShapeStep ==
    ASSUME TypeInv, [Next]_vars
    PROVE  BesInv' /\ ImagesOK /\ DOMAIN be \subseteq DOMAIN be'
<1> SUFFICES /\ ImagesOK
             /\ \/ DOMAIN be' = DOMAIN be
                \/ Room /\ DOMAIN be' = DOMAIN be \cup {Fresh}
    BY BesStep DEF TypeInv
<1> USE DEF KeepsWork, CopiesWork, BeginsWork, DoesWork, RestoresWork
<1>1. CASE UNCHANGED vars
    BY <1>1 DEF vars, TypeInv, EnvsOK, ImagesOK
<1>2. ASSUME NEW c \in Client,
             \/ Plan(c) \/ LockImage(c) \/ LockFails(c) \/ MakeBootEnv(c)
             \/ ExecuteRefuses(c) \/ ActionFails(c) \/ RestoreImage(c) \/ RestoreNothing(c)
             \/ Recurse(c) \/ FinishDirect(c) \/ UnlockClone(c) \/ Activate(c)
             \/ ActivateRaises(c) \/ Relock(c) \/ Crash(c)
      PROVE  ImagesOK /\ DOMAIN be' = DOMAIN be
    BY <1>2, RecordsOnly
<1>3. ASSUME NEW c \in Client, CreateBackupBe(c)
      PROVE  ImagesOK /\ (DOMAIN be' = DOMAIN be \/ (Room /\ DOMAIN be' = DOMAIN be \cup {Fresh}))
    BY <1>3, CreateBackupBeWork
<1>4. ASSUME NEW c \in Client, InitImageRecovery(c)
      PROVE  ImagesOK /\ (DOMAIN be' = DOMAIN be \/ (Room /\ DOMAIN be' = DOMAIN be \cup {Fresh}))
    BY <1>4, InitImageRecoveryWork
<1>5. ASSUME NEW c \in Client, RestoreLive(c)
      PROVE  ImagesOK /\ (DOMAIN be' = DOMAIN be \/ (Room /\ DOMAIN be' = DOMAIN be \cup {Fresh}))
    BY <1>5, RestoreLiveWork
<1>6. ASSUME NEW c \in Client, Execute(c)
      PROVE  ImagesOK /\ DOMAIN be' = DOMAIN be
    BY <1>6, ExecuteWork
<1>7. ASSUME NEW c \in Client, ActionsDone(c) \/ IndexFails(c)
      PROVE  ImagesOK /\ DOMAIN be' = DOMAIN be
    BY <1>7, ExecutionEndsWork
<1>8. ASSUME NEW c \in Client, Rollback(c)
      PROVE  ImagesOK /\ DOMAIN be' = DOMAIN be
    BY <1>8, RollbackWork
<1>9. CASE Reboot
    BY <1>9 DEF Reboot, TypeInv, EnvsOK, ImagesOK
<1> QED
    BY <1>1, <1>2, <1>3, <1>4, <1>5, <1>6, <1>7, <1>8, <1>9 DEF Next

(* A job with another environment or another root is the same job else.    *)
LEMMA JobEnv ==
    ASSUME NEW t \in Jobs, NEW e \in {"be", "null"}
    PROVE  /\ [t EXCEPT !.env = e] \in Jobs
           /\ [t EXCEPT !.env = e].target = t.target
           /\ [t EXCEPT !.env = e].root = t.root
           /\ [t EXCEPT !.env = e].mode = t.mode /\ [t EXCEPT !.env = e].env = e
    BY DEF Jobs

(* A job with another root.                                                *)
LEMMA JobRoot ==
    ASSUME NEW t \in Jobs, NEW n \in Nat
    PROVE  /\ [t EXCEPT !.root = n] \in Jobs
           /\ [t EXCEPT !.root = n].target = t.target
           /\ [t EXCEPT !.root = n].root = n
           /\ [t EXCEPT !.root = n].mode = t.mode /\ [t EXCEPT !.root = n].env = t.env
    BY DEF Jobs

(* A plan is for the running system or the alternate root, and has its     *)
(* root there.                                                             *)
PlansFor(c, t) ==
    /\ job' = [job EXCEPT ![c] = t]
    /\ t.target \in {running, Alternate} /\ t.root = t.target
    /\ t.mode = "new" => t.target = running
    /\ t.env = "none"

(* Plan() makes such a job.                                                *)
LEMMA PlanJob ==
    ASSUME TypeInv, NEW c \in Client, Plan(c)
    PROVE  \E t \in Jobs : PlansFor(c, t)
<1>1. PICK b \in {running, Alternate}, m \in {"direct", "new"}, backup \in BOOLEAN :
          /\ m = "new" => b = running
          /\ job' = [job EXCEPT ![c] = [mode |-> m, target |-> b, root |-> b,
                                        backup |-> backup, env |-> "none",
                                        plan |-> be[b].done]]
    BY DEF Plan
<1>2. b \in Nat /\ be[b].done \subseteq Client
    BY FreshFacts DEF TypeInv, EnvsOK, Images
<1> DEFINE t == [mode |-> m, target |-> b, root |-> b, backup |-> backup,
                 env |-> "none", plan |-> be[b].done]
<1>3. t \in Jobs
    BY <1>2 DEF Jobs
<1>4. /\ t.mode = m /\ t.target = b /\ t.root = b /\ t.env = "none"
      /\ job' = [job EXCEPT ![c] = t]
    BY <1>1
<1> HIDE DEF t
<1> QED
    BY <1>1, <1>3, <1>4 DEF PlansFor

(* The only thing a job learns from BootEnv() is whether it has a snapshot. *)
GivesEnv(c, t) ==
    /\ job' = [job EXCEPT ![c] = t]
    /\ t.target = job[c].target /\ t.root = job[c].root /\ t.mode = job[c].mode
    /\ \/ t.env = "be" /\ snap' = [snap EXCEPT ![c] = be[job[c].target]]
       \/ t.env = "null" /\ snap' = [snap EXCEPT ![c] = NoSnap]

(* MakeBootEnv() changes nothing else in the job.                          *)
LEMMA MakeBootEnvJob ==
    ASSUME TypeInv, NEW c \in Client, MakeBootEnv(c)
    PROVE  \E t \in Jobs : GivesEnv(c, t)
<1>1. PICK e \in {"be", "null"} :
          /\ job' = [job EXCEPT ![c] = [job[c] EXCEPT !.env = e]]
          /\ snap' = [snap EXCEPT ![c] = IF e = "be" THEN be[job[c].target] ELSE NoSnap]
    BY DEF MakeBootEnv
<1>2. job[c] \in Jobs
    BY DEF MakeBootEnv, TypeInv, JobsOK
<1> DEFINE t == [job[c] EXCEPT !.env = e]
<1>3. /\ t \in Jobs /\ t.target = job[c].target /\ t.root = job[c].root
      /\ t.mode = job[c].mode /\ t.env = e
    BY <1>2, JobEnv
<1> HIDE DEF t
<1>4. job' = [job EXCEPT ![c] = t]
    BY <1>1 DEF t
<1> QED
    BY <1>1, <1>3, <1>4 DEF GivesEnv

(* A job moves to another root: a new clone, or back.                      *)
MovesTo(c, t, b) ==
    /\ job' = [job EXCEPT ![c] = t]
    /\ t.target = job[c].target /\ t.root = b /\ t.mode = job[c].mode /\ t.env = job[c].env

(* init_image_recovery() moves to the clone, or the operation ends.        *)
LEMMA InitImageRecoveryJob ==
    ASSUME TypeInv, NEW c \in Client, InitImageRecovery(c)
    PROVE  \/ End(c, "failed")
           \/ /\ CopiesWork(be[job[c].target]) /\ UNCHANGED <<running, open, told>>
              /\ pc' = [pc EXCEPT ![c] = "ready"]
              /\ lock' = [lock EXCEPT ![job[c].root] = None, ![Fresh] = c]
              /\ \E t \in Jobs : MovesTo(c, t, Fresh)
<1> SUFFICES ASSUME FindRoot(c, Fresh), pc' = [pc EXCEPT ![c] = "ready"],
                    UNCHANGED <<running, open, told>>
             PROVE  CopiesWork(be[job[c].target]) /\ \E t \in Jobs : MovesTo(c, t, Fresh)
    BY DEF InitImageRecovery, FindRoot, Goto
<1>1. CopiesWork(be[job[c].target])
    BY InitImageRecoveryWork DEF TypeInv, ClientsOK
<1>2. job[c] \in Jobs /\ Fresh \in Nat
    BY FreshFacts DEF InitImageRecovery, TypeInv, JobsOK
<1> DEFINE t == [job[c] EXCEPT !.root = Fresh]
<1>3. /\ t \in Jobs /\ t.target = job[c].target /\ t.root = Fresh
      /\ t.mode = job[c].mode /\ t.env = job[c].env
    BY <1>2, JobRoot
<1> HIDE DEF t
<1>4. job' = [job EXCEPT ![c] = t]
    BY DEF t, FindRoot
<1> QED
    BY <1>1, <1>3, <1>4 DEF MovesTo

(* activate_image() moves the job back to its target.                      *)
LEMMA ActivateJob ==
    ASSUME TypeInv, NEW c \in Client, Activate(c)
    PROVE  \E t \in Jobs : MovesTo(c, t, job[c].target)
<1>1. job[c] \in Jobs /\ job[c].target \in Nat
    BY FreshFacts DEF Activate, TypeInv, JobsOK
<1> DEFINE t == [job[c] EXCEPT !.root = job[c].target]
<1>2. /\ t \in Jobs /\ t.target = job[c].target /\ t.root = job[c].target
      /\ t.mode = job[c].mode /\ t.env = job[c].env
    BY <1>1, JobRoot
<1> HIDE DEF t
<1>3. job' = [job EXCEPT ![c] = t]
    BY DEF t, Activate
<1> QED
    BY <1>2, <1>3 DEF MovesTo

(* A client that ends keeps the types of what clients have.                *)
LEMMA EndTypes ==
    ASSUME ClientsOK, NEW c \in Client, NEW t \in Answers, End(c, t)
    PROVE  ClientsOK' /\ job' = job
    BY DEF ClientsOK, End, Goto, Freed, Locations

(* Every step keeps the types.                                             *)
LEMMA TypeStep == TypeInv /\ [Next]_vars => TypeInv'
<1> SUFFICES ASSUME TypeInv, [Next]_vars PROVE EnvsOK' /\ ClientsOK' /\ JobsOK'
    BY ShapeStep DEF TypeInv
<1> USE DEF Goto
<1>a. BesInv' /\ be' \in [DOMAIN be' -> Images] /\ DOMAIN be \subseteq DOMAIN be'
    BY ShapeStep DEF ImagesOK
<1>b. /\ BesInv /\ EnvsOK /\ ClientsOK /\ JobsOK
      /\ Alternate \in DOMAIN be /\ DOMAIN be \subseteq Nat /\ DOMAIN be \subseteq 0 .. MaxBe
      /\ Room => Fresh \in 0 .. MaxBe
    BY FreshFacts DEF TypeInv
<1>0. CASE UNCHANGED vars
    BY <1>0, <1>b DEF vars, EnvsOK, ClientsOK, JobsOK, HasSnap
<1>1. ASSUME NEW c \in Client, Plan(c) PROVE EnvsOK' /\ ClientsOK' /\ JobsOK'
  <2>1. EnvsOK'
    BY <1>a, <1>b, <1>1 DEF EnvsOK, JobsOK, Plan, envs
  <2>2. PICK t \in Jobs : PlansFor(c, t)
    BY <1>1, PlanJob
  <2>3. t.target \in DOMAIN be /\ t.root \in DOMAIN be
    BY <1>b, <2>2 DEF PlansFor, EnvsOK
  <2>4. ClientsOK'
    BY <1>b, <1>1, <2>2 DEF ClientsOK, Locations, Plan, PlansFor
  <2>5. JobsOK'
    BY <1>a, <1>b, <1>1, <2>2, <2>3
       DEF ClientsOK, JobsOK, HasSnap, Guarded, Holds, Plan, envs, PlansFor
  <2> QED
    BY <2>1, <2>4, <2>5
<1>2. ASSUME NEW c \in Client, LockImage(c) PROVE EnvsOK' /\ ClientsOK' /\ JobsOK'
  <2>1. EnvsOK'
    BY <1>a, <1>b, <1>2 DEF EnvsOK, JobsOK, LockImage, envs
  <2>2. ClientsOK'
    BY <1>a, <1>b, <1>2 DEF ClientsOK, JobsOK, EnvsOK, Locations, Answers, Jobs, NoJob, LockImage, envs
  <2>3. JobsOK'
    BY <1>a, <1>b, <1>2 DEF EnvsOK, ClientsOK, JobsOK, HasSnap, Guarded, Holds, Jobs, LockImage, envs
  <2> QED
    BY <2>1, <2>2, <2>3
<1>3. ASSUME NEW c \in Client, LockFails(c) PROVE EnvsOK' /\ ClientsOK' /\ JobsOK'
  <2>1. EnvsOK'
    BY <1>a, <1>b, <1>3 DEF EnvsOK, JobsOK, LockFails, End, Freed
  <2>2. ClientsOK'
    BY <1>a, <1>b, <1>3 DEF ClientsOK, JobsOK, EnvsOK, Locations, Answers, Jobs, NoJob, LockFails, End, Freed
  <2>3. JobsOK'
    BY <1>a, <1>b, <1>3 DEF EnvsOK, ClientsOK, JobsOK, HasSnap, Guarded, Holds, Jobs, LockFails, End, Freed
  <2> QED
    BY <2>1, <2>2, <2>3
<1>4. ASSUME NEW c \in Client, MakeBootEnv(c) PROVE EnvsOK' /\ ClientsOK' /\ JobsOK'
  <2>1. EnvsOK'
    BY <1>a, <1>b, <1>4 DEF EnvsOK, JobsOK, MakeBootEnv
  <2>2. PICK t \in Jobs : GivesEnv(c, t)
    BY <1>4, MakeBootEnvJob
  <2>3. pc[c] = "locked" /\ be[job[c].target] \in Images
    BY <1>b, <1>4 DEF MakeBootEnv, JobsOK, EnvsOK
  <2>4. ClientsOK'
    BY <1>b, <1>4, <2>2 DEF ClientsOK, Locations, MakeBootEnv, GivesEnv
  <2>5. JobsOK'
    BY <1>a, <1>b, <1>4, <2>2, <2>3
       DEF ClientsOK, EnvsOK, JobsOK, HasSnap, Guarded, Holds, MakeBootEnv, GivesEnv
  <2> QED
    BY <2>1, <2>4, <2>5
<1>5. ASSUME NEW c \in Client, CreateBackupBe(c) PROVE EnvsOK' /\ ClientsOK' /\ JobsOK'
  <2>1. EnvsOK'
    BY <1>a, <1>b, <1>5 DEF EnvsOK, JobsOK, CreateBackupBe, End, Freed, Live, InBe
  <2>2. ClientsOK'
    <3>1. CASE pc' = [pc EXCEPT ![c] = "ready"] /\ UNCHANGED <<lock, job, open, told>>
      BY <1>b, <3>1 DEF ClientsOK, Locations
    <3>2. CASE End(c, "failed")
      BY <1>b, <3>2, EndTypes DEF Answers
    <3> QED
      BY <1>5, <3>1, <3>2 DEF CreateBackupBe
  <2>3. JobsOK'
    BY <1>a, <1>b, <1>5 DEF EnvsOK, ClientsOK, JobsOK, HasSnap, Guarded, Holds, Jobs, CreateBackupBe, End, Freed, Live, InBe
  <2> QED
    BY <2>1, <2>2, <2>3
<1>6. ASSUME NEW c \in Client, InitImageRecovery(c) PROVE EnvsOK' /\ ClientsOK' /\ JobsOK'
  <2>1. EnvsOK'
    BY <1>a, <1>b, <1>6 DEF EnvsOK, JobsOK, InitImageRecovery, End, Freed, FindRoot, InBe
  <2>2. CASE End(c, "failed")
    <3>1. ClientsOK' /\ job' = job
      BY <1>b, <2>2, EndTypes DEF Answers
    <3>2. JobsOK'
      BY <1>a, <1>b, <1>6, <2>2, <3>1
         DEF End, ClientsOK, JobsOK, HasSnap, Guarded, Holds, InitImageRecovery
    <3> QED
      BY <2>1, <3>1, <3>2
  <2>3. CASE /\ CopiesWork(be[job[c].target]) /\ UNCHANGED <<open, told>>
             /\ pc' = [pc EXCEPT ![c] = "ready"]
             /\ lock' = [lock EXCEPT ![job[c].root] = None, ![Fresh] = c]
             /\ \E t \in Jobs : MovesTo(c, t, Fresh)
    <3>1. PICK t \in Jobs : MovesTo(c, t, Fresh)
      BY <2>3
    <3>2. Fresh \in DOMAIN be' /\ Fresh \in Nat /\ Fresh \in 0 .. MaxBe
      BY <1>b, <2>3, FreshFacts DEF CopiesWork
    <3>3. pc[c] = "env" /\ job[c].mode = "new" /\ job[c].target \in DOMAIN be
      BY <1>b, <1>6 DEF InitImageRecovery, JobsOK
    <3>4. ClientsOK'
      BY <1>b, <2>3, <3>1, <3>2 DEF ClientsOK, Locations, MovesTo
    <3>5. JobsOK'
      BY <1>a, <1>b, <1>6, <2>3, <3>1, <3>2, <3>3
         DEF ClientsOK, JobsOK, HasSnap, Guarded, Holds, InitImageRecovery, MovesTo
    <3> QED
      BY <2>1, <3>4, <3>5
  <2> QED
    BY <1>6, <2>2, <2>3, InitImageRecoveryJob
<1>7. ASSUME NEW c \in Client, Execute(c) PROVE EnvsOK' /\ ClientsOK' /\ JobsOK'
  <2>1. EnvsOK'
    BY <1>a, <1>b, <1>7 DEF EnvsOK, JobsOK, Execute
  <2>2. ClientsOK'
    BY <1>a, <1>b, <1>7 DEF ClientsOK, JobsOK, EnvsOK, Locations, Answers, Jobs, NoJob, Execute
  <2>3. JobsOK'
    BY <1>a, <1>b, <1>7 DEF EnvsOK, ClientsOK, JobsOK, HasSnap, Guarded, Holds, Jobs, Execute
  <2> QED
    BY <2>1, <2>2, <2>3
<1>8. ASSUME NEW c \in Client, ExecuteRefuses(c) PROVE EnvsOK' /\ ClientsOK' /\ JobsOK'
  <2>1. EnvsOK'
    BY <1>a, <1>b, <1>8 DEF EnvsOK, JobsOK, ExecuteRefuses, envs
  <2>2. ClientsOK'
    BY <1>a, <1>b, <1>8 DEF ClientsOK, JobsOK, EnvsOK, Locations, Answers, Jobs, NoJob, ExecuteRefuses, envs
  <2>3. JobsOK'
    BY <1>a, <1>b, <1>8 DEF EnvsOK, ClientsOK, JobsOK, HasSnap, Guarded, Holds, Jobs, ExecuteRefuses, envs
  <2> QED
    BY <2>1, <2>2, <2>3
<1>9. ASSUME NEW c \in Client, ActionFails(c) PROVE EnvsOK' /\ ClientsOK' /\ JobsOK'
  <2>1. EnvsOK'
    BY <1>a, <1>b, <1>9 DEF EnvsOK, JobsOK, ActionFails, envs
  <2>2. ClientsOK'
    BY <1>a, <1>b, <1>9 DEF ClientsOK, JobsOK, EnvsOK, Locations, Answers, Jobs, NoJob, ActionFails, envs
  <2>3. JobsOK'
    BY <1>a, <1>b, <1>9 DEF EnvsOK, ClientsOK, JobsOK, HasSnap, Guarded, Holds, Jobs, ActionFails, envs
  <2> QED
    BY <2>1, <2>2, <2>3
<1>10. ASSUME NEW c \in Client, ActionsDone(c) PROVE EnvsOK' /\ ClientsOK' /\ JobsOK'
  <2>1. EnvsOK'
    BY <1>a, <1>b, <1>10 DEF EnvsOK, JobsOK, ActionsDone
  <2>2. ClientsOK'
    BY <1>a, <1>b, <1>10 DEF ClientsOK, JobsOK, EnvsOK, Locations, Answers, Jobs, NoJob, ActionsDone
  <2>3. JobsOK'
    BY <1>a, <1>b, <1>10 DEF EnvsOK, ClientsOK, JobsOK, HasSnap, Guarded, Holds, Jobs, ActionsDone
  <2> QED
    BY <2>1, <2>2, <2>3
<1>11. ASSUME NEW c \in Client, IndexFails(c) PROVE EnvsOK' /\ ClientsOK' /\ JobsOK'
  <2>1. EnvsOK'
    BY <1>a, <1>b, <1>11 DEF EnvsOK, JobsOK, IndexFails, End, Freed
  <2>2. ClientsOK'
    BY <1>a, <1>b, <1>11 DEF ClientsOK, JobsOK, EnvsOK, Locations, Answers, Jobs, NoJob, IndexFails, End, Freed
  <2>3. JobsOK'
    BY <1>a, <1>b, <1>11 DEF EnvsOK, ClientsOK, JobsOK, HasSnap, Guarded, Holds, Jobs, IndexFails, End, Freed
  <2> QED
    BY <2>1, <2>2, <2>3
<1>12. ASSUME NEW c \in Client, RestoreImage(c) PROVE EnvsOK' /\ ClientsOK' /\ JobsOK'
  <2>1. EnvsOK'
    BY <1>a, <1>b, <1>12 DEF EnvsOK, JobsOK, RestoreImage, End, Freed
  <2>2. ClientsOK'
    BY <1>a, <1>b, <1>12 DEF ClientsOK, JobsOK, EnvsOK, Locations, Answers, Jobs, NoJob, RestoreImage, End, Freed
  <2>3. JobsOK'
    BY <1>a, <1>b, <1>12 DEF EnvsOK, ClientsOK, JobsOK, HasSnap, Guarded, Holds, Jobs, RestoreImage, End, Freed
  <2> QED
    BY <2>1, <2>2, <2>3
<1>13. ASSUME NEW c \in Client, RestoreLive(c) PROVE EnvsOK' /\ ClientsOK' /\ JobsOK'
  <2>1. EnvsOK'
    BY <1>a, <1>b, <1>13 DEF EnvsOK, JobsOK, RestoreLive, End, Freed, Live, InBe
  <2>2. ClientsOK'
    BY <1>a, <1>b, <1>13 DEF ClientsOK, JobsOK, EnvsOK, Locations, Answers, Jobs, NoJob, RestoreLive, End, Freed, Live, InBe
  <2>3. JobsOK'
    BY <1>a, <1>b, <1>13 DEF EnvsOK, ClientsOK, JobsOK, HasSnap, Guarded, Holds, Jobs, RestoreLive, End, Freed, Live, InBe
  <2> QED
    BY <2>1, <2>2, <2>3
<1>14. ASSUME NEW c \in Client, Rollback(c) PROVE EnvsOK' /\ ClientsOK' /\ JobsOK'
  <2>1. EnvsOK'
    BY <1>a, <1>b, <1>14 DEF EnvsOK, JobsOK, Rollback, End, Freed, Live, InBe
  <2>2. ClientsOK'
    BY <1>a, <1>b, <1>14 DEF ClientsOK, JobsOK, EnvsOK, Locations, Answers, Jobs, NoJob, Rollback, End, Freed, Live, InBe
  <2>3. JobsOK'
    BY <1>a, <1>b, <1>14 DEF EnvsOK, ClientsOK, JobsOK, HasSnap, Guarded, Holds, Jobs, Rollback, End, Freed, Live, InBe
  <2> QED
    BY <2>1, <2>2, <2>3
<1>15. ASSUME NEW c \in Client, RestoreNothing(c) PROVE EnvsOK' /\ ClientsOK' /\ JobsOK'
  <2>1. EnvsOK'
    BY <1>a, <1>b, <1>15 DEF EnvsOK, JobsOK, RestoreNothing, End, Freed, InBe
  <2>2. ClientsOK'
    BY <1>a, <1>b, <1>15 DEF ClientsOK, JobsOK, EnvsOK, Locations, Answers, Jobs, NoJob, RestoreNothing, End, Freed, InBe
  <2>3. JobsOK'
    BY <1>a, <1>b, <1>15 DEF EnvsOK, ClientsOK, JobsOK, HasSnap, Guarded, Holds, Jobs, RestoreNothing, End, Freed, InBe
  <2> QED
    BY <2>1, <2>2, <2>3
<1>16. ASSUME NEW c \in Client, Recurse(c) PROVE EnvsOK' /\ ClientsOK' /\ JobsOK'
  <2>1. EnvsOK'
    BY <1>a, <1>b, <1>16 DEF EnvsOK, JobsOK, Recurse, End, Freed
  <2>2. ClientsOK'
    <3>1. CASE pc' = [pc EXCEPT ![c] = "finishing"] /\ UNCHANGED <<lock, job, open, told>>
      BY <1>b, <3>1 DEF ClientsOK, Locations
    <3>2. CASE End(c, "failed")
      BY <1>b, <3>2, EndTypes DEF Answers
    <3> QED
      BY <1>16, <3>1, <3>2 DEF Recurse
  <2>3. JobsOK'
    BY <1>a, <1>b, <1>16 DEF EnvsOK, ClientsOK, JobsOK, HasSnap, Guarded, Holds, Jobs, Recurse, End, Freed
  <2> QED
    BY <2>1, <2>2, <2>3
<1>17. ASSUME NEW c \in Client, FinishDirect(c) PROVE EnvsOK' /\ ClientsOK' /\ JobsOK'
  <2>1. EnvsOK'
    BY <1>a, <1>b, <1>17 DEF EnvsOK, JobsOK, FinishDirect, End, Freed
  <2>2. ClientsOK'
    BY <1>a, <1>b, <1>17 DEF ClientsOK, JobsOK, EnvsOK, Locations, Answers, Jobs, NoJob, FinishDirect, End, Freed
  <2>3. JobsOK'
    BY <1>a, <1>b, <1>17 DEF EnvsOK, ClientsOK, JobsOK, HasSnap, Guarded, Holds, Jobs, FinishDirect, End, Freed
  <2> QED
    BY <2>1, <2>2, <2>3
<1>18. ASSUME NEW c \in Client, UnlockClone(c) PROVE EnvsOK' /\ ClientsOK' /\ JobsOK'
  <2>1. EnvsOK'
    BY <1>a, <1>b, <1>18 DEF EnvsOK, JobsOK, UnlockClone, Freed, envs
  <2>2. ClientsOK'
    BY <1>a, <1>b, <1>18 DEF ClientsOK, JobsOK, EnvsOK, Locations, Answers, Jobs, NoJob, UnlockClone, Freed, envs
  <2>3. JobsOK'
    BY <1>a, <1>b, <1>18 DEF EnvsOK, ClientsOK, JobsOK, HasSnap, Guarded, Holds, Jobs, UnlockClone, Freed, envs
  <2> QED
    BY <2>1, <2>2, <2>3
<1>19. ASSUME NEW c \in Client, Activate(c) PROVE EnvsOK' /\ ClientsOK' /\ JobsOK'
  <2>0. PICK t \in Jobs : MovesTo(c, t, job[c].target)
    BY <1>19, ActivateJob
  <2>1. EnvsOK'
    BY <1>a, <1>b, <1>19 DEF EnvsOK, JobsOK, Activate
  <2>2. /\ pc[c] = "activating" /\ pc' = [pc EXCEPT ![c] = "relocking"]
        /\ open' \subseteq open /\ UNCHANGED <<snap, lock, told>>
    BY <1>19 DEF Activate
  <2>3. ClientsOK'
    BY <1>b, <2>0, <2>2 DEF ClientsOK, Locations, MovesTo
  <2>4. JobsOK'
    BY <1>a, <1>b, <2>0, <2>2 DEF ClientsOK, JobsOK, HasSnap, Guarded, Holds, MovesTo
  <2> QED
    BY <2>1, <2>3, <2>4
<1>20. ASSUME NEW c \in Client, ActivateRaises(c) PROVE EnvsOK' /\ ClientsOK' /\ JobsOK'
  <2>1. EnvsOK'
    BY <1>a, <1>b, <1>20 DEF EnvsOK, JobsOK, ActivateRaises, End, Freed
  <2>2. ClientsOK'
    BY <1>a, <1>b, <1>20 DEF ClientsOK, JobsOK, EnvsOK, Locations, Answers, Jobs, NoJob, ActivateRaises, End, Freed
  <2>3. JobsOK'
    BY <1>a, <1>b, <1>20 DEF EnvsOK, ClientsOK, JobsOK, HasSnap, Guarded, Holds, Jobs, ActivateRaises, End, Freed
  <2> QED
    BY <2>1, <2>2, <2>3
<1>21. ASSUME NEW c \in Client, Relock(c) PROVE EnvsOK' /\ ClientsOK' /\ JobsOK'
  <2>1. EnvsOK'
    BY <1>a, <1>b, <1>21 DEF EnvsOK, JobsOK, Relock, End, Freed
  <2>2. ClientsOK'
    BY <1>a, <1>b, <1>21 DEF ClientsOK, JobsOK, EnvsOK, Locations, Answers, Jobs, NoJob, Relock, End, Freed
  <2>3. JobsOK'
    BY <1>a, <1>b, <1>21 DEF EnvsOK, ClientsOK, JobsOK, HasSnap, Guarded, Holds, Jobs, Relock, End, Freed
  <2> QED
    BY <2>1, <2>2, <2>3
<1>22. ASSUME NEW c \in Client, Crash(c) PROVE EnvsOK' /\ ClientsOK' /\ JobsOK'
  <2>1. EnvsOK'
    BY <1>a, <1>b, <1>22 DEF EnvsOK, JobsOK, Crash, Freed, envs, InProgress
  <2>2. ClientsOK'
    BY <1>a, <1>b, <1>22 DEF ClientsOK, JobsOK, EnvsOK, Locations, Answers, Jobs, NoJob, Crash, Freed, envs, InProgress
  <2>3. JobsOK'
    BY <1>a, <1>b, <1>22 DEF EnvsOK, ClientsOK, JobsOK, HasSnap, Guarded, Holds, Jobs, Crash, Freed, envs, InProgress
  <2> QED
    BY <2>1, <2>2, <2>3
<1>23. CASE Reboot
  <2>1. EnvsOK'
    BY <1>a, <1>b, <1>23 DEF EnvsOK, JobsOK, Reboot, InProgress
  <2>2. ClientsOK'
    BY <1>a, <1>b, <1>23 DEF ClientsOK, JobsOK, EnvsOK, Locations, Answers, Jobs, NoJob, Reboot, InProgress
  <2>3. JobsOK'
    BY <1>a, <1>b, <1>23 DEF EnvsOK, ClientsOK, JobsOK, HasSnap, Guarded, Holds, Jobs, Reboot, InProgress
  <2> QED
    BY <2>1, <2>2, <2>3
<1> QED
    BY <1>0, <1>1, <1>2, <1>3, <1>4, <1>5, <1>6, <1>7, <1>8, <1>9, <1>10,
       <1>11, <1>12, <1>13, <1>14, <1>15, <1>16, <1>17, <1>18, <1>19, <1>20,
       <1>21, <1>22, <1>23 DEF Next

-----------------------------------------------------------------------------
(* Who works where.                                                        *)
ControlInv == LockInv /\ RootInv /\ TargetInv /\ CloneInv

(* A client that ends releases its own locks and nobody else's.            *)
LEMMA EndKeepsLocks ==
    ASSUME TypeInv, LockInv, NEW c \in Client, NEW t, End(c, t)
    PROVE  LockInv'
    BY ClientAssumption, FreshFacts
       DEF TypeInv, ClientsOK, JobsOK, LockInv, End, Goto, Freed, Holds

(* Every step keeps the locks with their owners, and the clones apart.     *)
LEMMA ControlStep == TypeInv /\ ControlInv /\ [Next]_vars => ControlInv'
<1> SUFFICES ASSUME TypeInv, ControlInv, [Next]_vars PROVE ControlInv'
    OBVIOUS
<1> USE ClientAssumption DEF Goto, Holds, AtRoot, InProgress
<1>b. /\ ClientsOK /\ JobsOK /\ running \in DOMAIN be /\ active \in DOMAIN be
      /\ Alternate \in DOMAIN be /\ DOMAIN be \subseteq 0 .. MaxBe
      /\ Fresh \notin DOMAIN be
    BY FreshFacts DEF TypeInv, EnvsOK
<1>0. CASE UNCHANGED vars
    BY <1>0 DEF vars, ControlInv, LockInv, RootInv, TargetInv, CloneInv
<1>1. ASSUME NEW c \in Client, Plan(c) PROVE ControlInv'
  <2>0. PICK t \in Jobs : PlansFor(c, t)
    BY <1>1, PlanJob
  <2>1. LockInv'
    BY <1>b, <1>1, <2>0 DEF ControlInv, ClientsOK, JobsOK, LockInv, Plan, envs, PlansFor
  <2>2. RootInv'
    BY <1>b, <1>1, <2>0 DEF ControlInv, ClientsOK, JobsOK, RootInv, Plan, envs, PlansFor
  <2>3. TargetInv'
    BY <1>b, <1>1, <2>0 DEF ControlInv, ClientsOK, JobsOK, TargetInv, Plan, envs, PlansFor
  <2>4. CloneInv'
    BY <1>b, <1>1, <2>0 DEF ControlInv, ClientsOK, JobsOK, RootInv, TargetInv, CloneInv, Plan, envs, PlansFor
  <2> QED
    BY <2>1, <2>2, <2>3, <2>4 DEF ControlInv
<1>2. ASSUME NEW c \in Client, LockImage(c) PROVE ControlInv'
  <2>1. LockInv'
    BY <1>b, <1>2 DEF ControlInv, ClientsOK, JobsOK, LockInv, RootInv, LockImage, envs
  <2>2. RootInv'
    BY <1>b, <1>2 DEF ControlInv, ClientsOK, JobsOK, RootInv, LockImage, envs
  <2>3. TargetInv'
    BY <1>b, <1>2 DEF ControlInv, ClientsOK, JobsOK, TargetInv, LockImage, envs
  <2>4. CloneInv'
    BY <1>b, <1>2 DEF ControlInv, ClientsOK, JobsOK, RootInv, TargetInv, CloneInv, LockImage, envs
  <2> QED
    BY <2>1, <2>2, <2>3, <2>4 DEF ControlInv
<1>3. ASSUME NEW c \in Client, LockFails(c) PROVE ControlInv'
  <2>1. LockInv'
    BY <1>b, <1>3 DEF ControlInv, ClientsOK, JobsOK, LockInv, LockFails, End, Freed
  <2>2. RootInv'
    BY <1>b, <1>3 DEF ControlInv, ClientsOK, JobsOK, RootInv, LockFails, End, Freed
  <2>3. TargetInv'
    BY <1>b, <1>3 DEF ControlInv, ClientsOK, JobsOK, TargetInv, LockFails, End, Freed
  <2>4. CloneInv'
    BY <1>b, <1>3 DEF ControlInv, ClientsOK, JobsOK, RootInv, TargetInv, CloneInv, LockFails, End, Freed
  <2> QED
    BY <2>1, <2>2, <2>3, <2>4 DEF ControlInv
<1>4. ASSUME NEW c \in Client, MakeBootEnv(c) PROVE ControlInv'
  <2>0. PICK t \in Jobs : GivesEnv(c, t)
    BY <1>4, MakeBootEnvJob
  <2>1. LockInv'
    BY <1>b, <1>4, <2>0 DEF ControlInv, ClientsOK, JobsOK, LockInv, MakeBootEnv, GivesEnv
  <2>2. RootInv'
    BY <1>b, <1>4, <2>0 DEF ControlInv, ClientsOK, JobsOK, RootInv, MakeBootEnv, GivesEnv
  <2>3. TargetInv'
    BY <1>b, <1>4, <2>0 DEF ControlInv, ClientsOK, JobsOK, TargetInv, MakeBootEnv, GivesEnv
  <2>4. CloneInv'
    BY <1>b, <1>4, <2>0 DEF ControlInv, ClientsOK, JobsOK, RootInv, TargetInv, CloneInv, MakeBootEnv, GivesEnv
  <2> QED
    BY <2>1, <2>2, <2>3, <2>4 DEF ControlInv
<1>5. ASSUME NEW c \in Client, CreateBackupBe(c) PROVE ControlInv'
  <2>1. LockInv'
    <3>1. CASE pc' = [pc EXCEPT ![c] = "ready"] /\ UNCHANGED <<lock, job>>
      BY <1>b, <1>5, <3>1 DEF ControlInv, ClientsOK, LockInv, CreateBackupBe
    <3>2. CASE End(c, "failed")
      BY <3>2, EndKeepsLocks DEF ControlInv
    <3> QED
      BY <1>5, <3>1, <3>2 DEF CreateBackupBe
  <2>2. RootInv'
    BY <1>b, <1>5 DEF ControlInv, ClientsOK, JobsOK, RootInv, CreateBackupBe, End, Freed, Live, InBe
  <2>3. TargetInv'
    BY <1>b, <1>5 DEF ControlInv, ClientsOK, JobsOK, TargetInv, CreateBackupBe, End, Freed, Live, InBe
  <2>4. CloneInv'
    BY <1>b, <1>5 DEF ControlInv, ClientsOK, JobsOK, RootInv, TargetInv, CloneInv, CreateBackupBe, End, Freed, Live, InBe
  <2> QED
    BY <2>1, <2>2, <2>3, <2>4 DEF ControlInv
<1>6. ASSUME NEW c \in Client, InitImageRecovery(c) PROVE ControlInv'
  <2>1. CASE End(c, "failed")
    <3>1. LockInv'
      BY <2>1, EndKeepsLocks DEF ControlInv
    <3>2. RootInv' /\ TargetInv' /\ CloneInv'
      BY <1>b, <1>6, <2>1 DEF ControlInv, ClientsOK, RootInv, TargetInv, CloneInv,
         InitImageRecovery, End
    <3> QED
      BY <3>1, <3>2 DEF ControlInv
  <2>2. CASE /\ UNCHANGED running
             /\ pc' = [pc EXCEPT ![c] = "ready"]
             /\ lock' = [lock EXCEPT ![job[c].root] = None, ![Fresh] = c]
             /\ \E t \in Jobs : MovesTo(c, t, Fresh)
    <3>1. PICK t \in Jobs : MovesTo(c, t, Fresh)
      BY <2>2
    <3>2. pc[c] = "env" /\ job[c].mode = "new" /\ UNCHANGED active
      BY <1>6 DEF InitImageRecovery
    <3>3. Fresh \in 0 .. MaxBe
      BY <1>6, <2>2, InitImageRecoveryWork, FreshFacts DEF CopiesWork, TypeInv, ClientsOK
    <3>4. LockInv'
      BY <1>b, <2>2, <3>1, <3>2, <3>3 DEF ControlInv, ClientsOK, JobsOK, LockInv, MovesTo
    <3>5. RootInv'
      BY <1>b, <2>2, <3>1, <3>2 DEF ControlInv, ClientsOK, JobsOK, RootInv, MovesTo
    <3>6. TargetInv'
      BY <1>b, <2>2, <3>1, <3>2 DEF ControlInv, ClientsOK, JobsOK, TargetInv, MovesTo
    <3>7. CloneInv'
      BY <1>b, <2>2, <3>1, <3>2 DEF ControlInv, ClientsOK, JobsOK, CloneInv, MovesTo
    <3> QED
      BY <3>4, <3>5, <3>6, <3>7 DEF ControlInv
  <2> QED
    BY <1>6, <2>1, <2>2, InitImageRecoveryJob
<1>7. ASSUME NEW c \in Client, Execute(c) PROVE ControlInv'
  <2>1. LockInv'
    BY <1>b, <1>7 DEF ControlInv, ClientsOK, JobsOK, LockInv, Execute
  <2>2. RootInv'
    BY <1>b, <1>7 DEF ControlInv, ClientsOK, JobsOK, RootInv, Execute
  <2>3. TargetInv'
    BY <1>b, <1>7 DEF ControlInv, ClientsOK, JobsOK, TargetInv, Execute
  <2>4. CloneInv'
    BY <1>b, <1>7 DEF ControlInv, ClientsOK, JobsOK, RootInv, TargetInv, CloneInv, Execute
  <2> QED
    BY <2>1, <2>2, <2>3, <2>4 DEF ControlInv
<1>8. ASSUME NEW c \in Client, ExecuteRefuses(c) PROVE ControlInv'
  <2>1. LockInv'
    BY <1>b, <1>8 DEF ControlInv, ClientsOK, JobsOK, LockInv, ExecuteRefuses, envs
  <2>2. RootInv'
    BY <1>b, <1>8 DEF ControlInv, ClientsOK, JobsOK, RootInv, ExecuteRefuses, envs
  <2>3. TargetInv'
    BY <1>b, <1>8 DEF ControlInv, ClientsOK, JobsOK, TargetInv, ExecuteRefuses, envs
  <2>4. CloneInv'
    BY <1>b, <1>8 DEF ControlInv, ClientsOK, JobsOK, RootInv, TargetInv, CloneInv, ExecuteRefuses, envs
  <2> QED
    BY <2>1, <2>2, <2>3, <2>4 DEF ControlInv
<1>9. ASSUME NEW c \in Client, ActionFails(c) PROVE ControlInv'
  <2>1. LockInv'
    BY <1>b, <1>9 DEF ControlInv, ClientsOK, JobsOK, LockInv, ActionFails, envs
  <2>2. RootInv'
    BY <1>b, <1>9 DEF ControlInv, ClientsOK, JobsOK, RootInv, ActionFails, envs
  <2>3. TargetInv'
    BY <1>b, <1>9 DEF ControlInv, ClientsOK, JobsOK, TargetInv, ActionFails, envs
  <2>4. CloneInv'
    BY <1>b, <1>9 DEF ControlInv, ClientsOK, JobsOK, RootInv, TargetInv, CloneInv, ActionFails, envs
  <2> QED
    BY <2>1, <2>2, <2>3, <2>4 DEF ControlInv
<1>10. ASSUME NEW c \in Client, ActionsDone(c) PROVE ControlInv'
  <2>1. LockInv'
    BY <1>b, <1>10 DEF ControlInv, ClientsOK, JobsOK, LockInv, ActionsDone
  <2>2. RootInv'
    BY <1>b, <1>10 DEF ControlInv, ClientsOK, JobsOK, RootInv, ActionsDone
  <2>3. TargetInv'
    BY <1>b, <1>10 DEF ControlInv, ClientsOK, JobsOK, TargetInv, ActionsDone
  <2>4. CloneInv'
    BY <1>b, <1>10 DEF ControlInv, ClientsOK, JobsOK, RootInv, TargetInv, CloneInv, ActionsDone
  <2> QED
    BY <2>1, <2>2, <2>3, <2>4 DEF ControlInv
<1>11. ASSUME NEW c \in Client, IndexFails(c) PROVE ControlInv'
  <2>1. LockInv'
    BY <1>b, <1>11 DEF ControlInv, ClientsOK, JobsOK, LockInv, IndexFails, End, Freed
  <2>2. RootInv'
    BY <1>b, <1>11 DEF ControlInv, ClientsOK, JobsOK, RootInv, IndexFails, End, Freed
  <2>3. TargetInv'
    BY <1>b, <1>11 DEF ControlInv, ClientsOK, JobsOK, TargetInv, IndexFails, End, Freed
  <2>4. CloneInv'
    BY <1>b, <1>11 DEF ControlInv, ClientsOK, JobsOK, RootInv, TargetInv, CloneInv, IndexFails, End, Freed
  <2> QED
    BY <2>1, <2>2, <2>3, <2>4 DEF ControlInv
<1>12. ASSUME NEW c \in Client, RestoreImage(c) PROVE ControlInv'
  <2>1. LockInv'
    BY <1>b, <1>12 DEF ControlInv, ClientsOK, JobsOK, LockInv, RestoreImage, End, Freed
  <2>2. RootInv'
    BY <1>b, <1>12 DEF ControlInv, ClientsOK, JobsOK, RootInv, RestoreImage, End, Freed
  <2>3. TargetInv'
    BY <1>b, <1>12 DEF ControlInv, ClientsOK, JobsOK, TargetInv, RestoreImage, End, Freed
  <2>4. CloneInv'
    BY <1>b, <1>12 DEF ControlInv, ClientsOK, JobsOK, RootInv, TargetInv, CloneInv, RestoreImage, End, Freed
  <2> QED
    BY <2>1, <2>2, <2>3, <2>4 DEF ControlInv
<1>13. ASSUME NEW c \in Client, RestoreLive(c) PROVE ControlInv'
  <2>1. LockInv'
    BY <1>b, <1>13 DEF ControlInv, ClientsOK, JobsOK, LockInv, RestoreLive, End, Freed, Live, InBe
  <2>2. RootInv'
    BY <1>b, <1>13 DEF ControlInv, ClientsOK, JobsOK, RootInv, RestoreLive, End, Freed, Live, InBe
  <2>3. TargetInv'
    BY <1>b, <1>13 DEF ControlInv, ClientsOK, JobsOK, TargetInv, RestoreLive, End, Freed, Live, InBe
  <2>4. CloneInv'
    BY <1>b, <1>13 DEF ControlInv, ClientsOK, JobsOK, RootInv, TargetInv, CloneInv, RestoreLive, End, Freed, Live, InBe
  <2> QED
    BY <2>1, <2>2, <2>3, <2>4 DEF ControlInv
<1>14. ASSUME NEW c \in Client, Rollback(c) PROVE ControlInv'
  <2>1. LockInv'
    BY <1>b, <1>14 DEF ControlInv, ClientsOK, JobsOK, LockInv, Rollback, End, Freed, Live, InBe
  <2>2. RootInv'
    BY <1>b, <1>14 DEF ControlInv, ClientsOK, JobsOK, RootInv, Rollback, End, Freed, Live, InBe
  <2>3. TargetInv'
    BY <1>b, <1>14 DEF ControlInv, ClientsOK, JobsOK, TargetInv, Rollback, End, Freed, Live, InBe
  <2>4. CloneInv'
    BY <1>b, <1>14 DEF ControlInv, ClientsOK, JobsOK, RootInv, TargetInv, CloneInv, Rollback, End, Freed, Live, InBe
  <2> QED
    BY <2>1, <2>2, <2>3, <2>4 DEF ControlInv
<1>15. ASSUME NEW c \in Client, RestoreNothing(c) PROVE ControlInv'
  <2>1. LockInv'
    BY <1>b, <1>15 DEF ControlInv, ClientsOK, JobsOK, LockInv, RestoreNothing, End, Freed, InBe
  <2>2. RootInv'
    BY <1>b, <1>15 DEF ControlInv, ClientsOK, JobsOK, RootInv, RestoreNothing, End, Freed, InBe
  <2>3. TargetInv'
    BY <1>b, <1>15 DEF ControlInv, ClientsOK, JobsOK, TargetInv, RestoreNothing, End, Freed, InBe
  <2>4. CloneInv'
    BY <1>b, <1>15 DEF ControlInv, ClientsOK, JobsOK, RootInv, TargetInv, CloneInv, RestoreNothing, End, Freed, InBe
  <2> QED
    BY <2>1, <2>2, <2>3, <2>4 DEF ControlInv
<1>16. ASSUME NEW c \in Client, Recurse(c) PROVE ControlInv'
  <2>1. LockInv'
    <3>1. CASE pc' = [pc EXCEPT ![c] = "finishing"] /\ UNCHANGED <<lock, job>>
      BY <1>b, <1>16, <3>1 DEF ControlInv, ClientsOK, LockInv, Recurse
    <3>2. CASE End(c, "failed")
      BY <3>2, EndKeepsLocks DEF ControlInv
    <3> QED
      BY <1>16, <3>1, <3>2 DEF Recurse
  <2>2. RootInv'
    BY <1>b, <1>16 DEF ControlInv, ClientsOK, JobsOK, RootInv, Recurse, End, Freed
  <2>3. TargetInv'
    BY <1>b, <1>16 DEF ControlInv, ClientsOK, JobsOK, TargetInv, Recurse, End, Freed
  <2>4. CloneInv'
    BY <1>b, <1>16 DEF ControlInv, ClientsOK, JobsOK, RootInv, TargetInv, CloneInv, Recurse, End, Freed
  <2> QED
    BY <2>1, <2>2, <2>3, <2>4 DEF ControlInv
<1>17. ASSUME NEW c \in Client, FinishDirect(c) PROVE ControlInv'
  <2>1. LockInv'
    BY <1>b, <1>17 DEF ControlInv, ClientsOK, JobsOK, LockInv, FinishDirect, End, Freed
  <2>2. RootInv'
    BY <1>b, <1>17 DEF ControlInv, ClientsOK, JobsOK, RootInv, FinishDirect, End, Freed
  <2>3. TargetInv'
    BY <1>b, <1>17 DEF ControlInv, ClientsOK, JobsOK, TargetInv, FinishDirect, End, Freed
  <2>4. CloneInv'
    BY <1>b, <1>17 DEF ControlInv, ClientsOK, JobsOK, RootInv, TargetInv, CloneInv, FinishDirect, End, Freed
  <2> QED
    BY <2>1, <2>2, <2>3, <2>4 DEF ControlInv
<1>18. ASSUME NEW c \in Client, UnlockClone(c) PROVE ControlInv'
  <2>1. LockInv'
    BY <1>b, <1>18 DEF ControlInv, ClientsOK, JobsOK, LockInv, UnlockClone, Freed, envs
  <2>2. RootInv'
    BY <1>b, <1>18 DEF ControlInv, ClientsOK, JobsOK, RootInv, UnlockClone, Freed, envs
  <2>3. TargetInv'
    BY <1>b, <1>18 DEF ControlInv, ClientsOK, JobsOK, TargetInv, UnlockClone, Freed, envs
  <2>4. CloneInv'
    BY <1>b, <1>18 DEF ControlInv, ClientsOK, JobsOK, RootInv, TargetInv, CloneInv, UnlockClone, Freed, envs
  <2> QED
    BY <2>1, <2>2, <2>3, <2>4 DEF ControlInv
<1>19. ASSUME NEW c \in Client, Activate(c) PROVE ControlInv'
  <2>0. PICK t \in Jobs : MovesTo(c, t, job[c].target)
    BY <1>19, ActivateJob
  <2>1. LockInv'
    BY <1>b, <1>19, <2>0 DEF ControlInv, ClientsOK, JobsOK, LockInv, Activate, MovesTo
  <2>2. RootInv'
    BY <1>b, <1>19, <2>0 DEF ControlInv, ClientsOK, JobsOK, RootInv, Activate, MovesTo
  <2>3. TargetInv'
    BY <1>b, <1>19, <2>0 DEF ControlInv, ClientsOK, JobsOK, TargetInv, CloneInv, RootInv, Activate, MovesTo
  <2>4. CloneInv'
    BY <1>b, <1>19, <2>0 DEF ControlInv, ClientsOK, JobsOK, RootInv, TargetInv, CloneInv, Activate, MovesTo
  <2> QED
    BY <2>1, <2>2, <2>3, <2>4 DEF ControlInv
<1>20. ASSUME NEW c \in Client, ActivateRaises(c) PROVE ControlInv'
  <2>1. LockInv'
    BY <1>b, <1>20 DEF ControlInv, ClientsOK, JobsOK, LockInv, ActivateRaises, End, Freed
  <2>2. RootInv'
    BY <1>b, <1>20 DEF ControlInv, ClientsOK, JobsOK, RootInv, ActivateRaises, End, Freed
  <2>3. TargetInv'
    BY <1>b, <1>20 DEF ControlInv, ClientsOK, JobsOK, TargetInv, CloneInv, RootInv, ActivateRaises, End, Freed
  <2>4. CloneInv'
    BY <1>b, <1>20 DEF ControlInv, ClientsOK, JobsOK, RootInv, TargetInv, CloneInv, ActivateRaises, End, Freed
  <2> QED
    BY <2>1, <2>2, <2>3, <2>4 DEF ControlInv
<1>21. ASSUME NEW c \in Client, Relock(c) PROVE ControlInv'
  <2>1. LockInv'
    BY <1>b, <1>21 DEF ControlInv, ClientsOK, JobsOK, LockInv, Relock, End, Freed
  <2>2. RootInv'
    BY <1>b, <1>21 DEF ControlInv, ClientsOK, JobsOK, RootInv, Relock, End, Freed
  <2>3. TargetInv'
    BY <1>b, <1>21 DEF ControlInv, ClientsOK, JobsOK, TargetInv, Relock, End, Freed
  <2>4. CloneInv'
    BY <1>b, <1>21 DEF ControlInv, ClientsOK, JobsOK, RootInv, TargetInv, CloneInv, Relock, End, Freed
  <2> QED
    BY <2>1, <2>2, <2>3, <2>4 DEF ControlInv
<1>22. ASSUME NEW c \in Client, Crash(c) PROVE ControlInv'
  <2>1. LockInv'
    BY <1>b, <1>22 DEF ControlInv, ClientsOK, JobsOK, LockInv, Crash, Freed, envs
  <2>2. RootInv'
    BY <1>b, <1>22 DEF ControlInv, ClientsOK, JobsOK, RootInv, Crash, Freed, envs
  <2>3. TargetInv'
    BY <1>b, <1>22 DEF ControlInv, ClientsOK, JobsOK, TargetInv, Crash, Freed, envs
  <2>4. CloneInv'
    BY <1>b, <1>22 DEF ControlInv, ClientsOK, JobsOK, RootInv, TargetInv, CloneInv, Crash, Freed, envs
  <2> QED
    BY <2>1, <2>2, <2>3, <2>4 DEF ControlInv
<1>23. CASE Reboot
  <2>1. LockInv'
    BY <1>b, <1>23 DEF ControlInv, ClientsOK, JobsOK, LockInv, Reboot
  <2>2. RootInv'
    BY <1>b, <1>23 DEF ControlInv, ClientsOK, JobsOK, RootInv, Reboot
  <2>3. TargetInv'
    BY <1>b, <1>23 DEF ControlInv, ClientsOK, JobsOK, TargetInv, Reboot
  <2>4. CloneInv'
    BY <1>b, <1>23 DEF ControlInv, ClientsOK, JobsOK, RootInv, TargetInv, CloneInv, Reboot
  <2> QED
    BY <2>1, <2>2, <2>3, <2>4 DEF ControlInv
<1> QED
    BY <1>0, <1>1, <1>2, <1>3, <1>4, <1>5, <1>6, <1>7, <1>8, <1>9, <1>10,
       <1>11, <1>12, <1>13, <1>14, <1>15, <1>16, <1>17, <1>18, <1>19, <1>20,
       <1>21, <1>22, <1>23 DEF Next

-----------------------------------------------------------------------------
(* What is done in which boot environment.                                 *)
WorkInv == BeforeInv /\ NewInv /\ HiddenInv /\ QuietInv /\ SnapInv /\ DoneInv

(* Every step leaves the work where it belongs.                            *)
LEMMA WorkStep == TypeInv /\ ControlInv /\ WorkInv /\ [Next]_vars => WorkInv'
<1> SUFFICES ASSUME TypeInv, ControlInv, WorkInv, [Next]_vars PROVE WorkInv'
    OBVIOUS
<1> USE NoSnapIsNone DEF Goto, Holds, Guarded, AtRoot, Before, HasSnap
<1>b. /\ EnvsOK /\ ClientsOK /\ JobsOK /\ Alternate \in DOMAIN be
      /\ Fresh \notin DOMAIN be
    BY FreshFacts DEF TypeInv
<1>c. BeforeInv /\ NewInv /\ HiddenInv /\ QuietInv /\ SnapInv /\ DoneInv
    BY DEF WorkInv
<1>d. LockInv /\ RootInv /\ TargetInv /\ CloneInv
    BY DEF ControlInv
<1>0. CASE UNCHANGED vars
    BY <1>0, <1>c DEF vars, WorkInv, BeforeInv, NewInv, HiddenInv, QuietInv, SnapInv, DoneInv
<1>1. ASSUME NEW c \in Client, Plan(c) PROVE WorkInv'
  <2>1. KeepsWork
    BY <1>1, RecordsOnly
  <2>2. PICK t \in Jobs : PlansFor(c, t)
    BY <1>1, PlanJob
  <2>3. BeforeInv'
    BY <1>b, <1>c, <1>d, <1>1, <2>1, <2>2 DEF EnvsOK, ClientsOK, JobsOK,
       BeforeInv, Plan, envs, KeepsWork, SameWork, PlansFor
  <2>4. NewInv'
    BY <1>b, <1>c, <1>d, <1>1, <2>1, <2>2 DEF EnvsOK, ClientsOK, JobsOK,
       NewInv, BeforeInv, CloneInv, RootInv, Plan, envs, KeepsWork, SameWork,
       PlansFor
  <2>5. HiddenInv'
    BY <1>b, <1>c, <1>d, <1>1, <2>1, <2>2 DEF EnvsOK, ClientsOK, JobsOK,
       HiddenInv, BeforeInv, CloneInv, RootInv, QuietInv, Plan, envs,
       KeepsWork, SameWork, PlansFor
  <2>6. QuietInv'
    BY <1>b, <1>c, <1>d, <1>1, <2>1, <2>2 DEF EnvsOK, ClientsOK, JobsOK,
       QuietInv, BeforeInv, LockInv, RootInv, Plan, envs, KeepsWork,
       SameWork, PlansFor
  <2>7. SnapInv'
    BY <1>b, <1>c, <1>d, <1>1, <2>1, <2>2 DEF EnvsOK, ClientsOK, JobsOK,
       SnapInv, BeforeInv, LockInv, RootInv, Plan, envs, KeepsWork, SameWork,
       PlansFor
  <2>8. DoneInv'
    BY <1>b, <1>c, <1>d, <1>1, <2>1, <2>2 DEF EnvsOK, ClientsOK, JobsOK,
       DoneInv, LockInv, RootInv, CloneInv, SnapInv, Plan, envs, KeepsWork,
       SameWork, PlansFor
  <2> QED
    BY <2>3, <2>4, <2>5, <2>6, <2>7, <2>8 DEF WorkInv
<1>2. ASSUME NEW c \in Client, LockImage(c) PROVE WorkInv'
  <2>1. KeepsWork
    BY <1>2, RecordsOnly
  <2>3. BeforeInv'
    BY <1>b, <1>c, <1>d, <1>2, <2>1 DEF EnvsOK, ClientsOK, JobsOK, BeforeInv,
       LockImage, envs, KeepsWork, SameWork
  <2>4. NewInv'
    BY <1>b, <1>c, <1>d, <1>2, <2>1 DEF EnvsOK, ClientsOK, JobsOK, NewInv,
       BeforeInv, CloneInv, RootInv, LockImage, envs, KeepsWork, SameWork
  <2>5. HiddenInv'
    BY <1>b, <1>c, <1>d, <1>2, <2>1 DEF EnvsOK, ClientsOK, JobsOK, HiddenInv,
       BeforeInv, CloneInv, RootInv, QuietInv, LockImage, envs, KeepsWork,
       SameWork
  <2>6. QuietInv'
    BY <1>b, <1>c, <1>d, <1>2, <2>1 DEF EnvsOK, ClientsOK, JobsOK, QuietInv,
       BeforeInv, LockInv, RootInv, LockImage, envs, KeepsWork, SameWork
  <2>7. SnapInv'
    BY <1>b, <1>c, <1>d, <1>2, <2>1 DEF EnvsOK, ClientsOK, JobsOK, SnapInv,
       BeforeInv, LockInv, RootInv, LockImage, envs, KeepsWork, SameWork
  <2>8. DoneInv'
    BY <1>b, <1>c, <1>d, <1>2, <2>1 DEF EnvsOK, ClientsOK, JobsOK, DoneInv,
       LockInv, RootInv, CloneInv, SnapInv, LockImage, envs, KeepsWork,
       SameWork
  <2> QED
    BY <2>3, <2>4, <2>5, <2>6, <2>7, <2>8 DEF WorkInv
<1>3. ASSUME NEW c \in Client, LockFails(c) PROVE WorkInv'
  <2>1. KeepsWork
    BY <1>3, RecordsOnly
  <2>3. BeforeInv'
    BY <1>b, <1>c, <1>d, <1>3, <2>1 DEF EnvsOK, ClientsOK, JobsOK, BeforeInv,
       LockFails, End, KeepsWork, SameWork
  <2>4. NewInv'
    BY <1>b, <1>c, <1>d, <1>3, <2>1 DEF EnvsOK, ClientsOK, JobsOK, NewInv,
       BeforeInv, CloneInv, RootInv, LockFails, End, KeepsWork, SameWork
  <2>5. HiddenInv'
    BY <1>b, <1>c, <1>d, <1>3, <2>1 DEF EnvsOK, ClientsOK, JobsOK, HiddenInv,
       BeforeInv, CloneInv, RootInv, QuietInv, LockFails, End, KeepsWork,
       SameWork
  <2>6. QuietInv'
    BY <1>b, <1>c, <1>d, <1>3, <2>1 DEF EnvsOK, ClientsOK, JobsOK, QuietInv,
       BeforeInv, LockInv, RootInv, LockFails, End, KeepsWork, SameWork
  <2>7. SnapInv'
    BY <1>b, <1>c, <1>d, <1>3, <2>1 DEF EnvsOK, ClientsOK, JobsOK, SnapInv,
       BeforeInv, LockInv, RootInv, LockFails, End, KeepsWork, SameWork
  <2>8. DoneInv'
    BY <1>b, <1>c, <1>d, <1>3, <2>1 DEF EnvsOK, ClientsOK, JobsOK, DoneInv,
       LockInv, RootInv, CloneInv, SnapInv, LockFails, End, KeepsWork,
       SameWork
  <2> QED
    BY <2>3, <2>4, <2>5, <2>6, <2>7, <2>8 DEF WorkInv
<1>4. ASSUME NEW c \in Client, MakeBootEnv(c) PROVE WorkInv'
  <2>1. KeepsWork
    BY <1>4, RecordsOnly
  <2>2. PICK t \in Jobs : GivesEnv(c, t)
    BY <1>4, MakeBootEnvJob
  <2>3. BeforeInv'
    BY <1>b, <1>c, <1>d, <1>4, <2>1, <2>2 DEF EnvsOK, ClientsOK, JobsOK,
       BeforeInv, MakeBootEnv, KeepsWork, SameWork, GivesEnv
  <2>4. NewInv'
    BY <1>b, <1>c, <1>d, <1>4, <2>1, <2>2 DEF EnvsOK, ClientsOK, JobsOK,
       NewInv, BeforeInv, CloneInv, RootInv, MakeBootEnv, KeepsWork,
       SameWork, GivesEnv
  <2>5. HiddenInv'
    BY <1>b, <1>c, <1>d, <1>4, <2>1, <2>2 DEF EnvsOK, ClientsOK, JobsOK,
       HiddenInv, BeforeInv, CloneInv, RootInv, QuietInv, MakeBootEnv,
       KeepsWork, SameWork, GivesEnv
  <2>6. QuietInv'
    BY <1>b, <1>c, <1>d, <1>4, <2>1, <2>2 DEF EnvsOK, ClientsOK, JobsOK,
       QuietInv, BeforeInv, LockInv, RootInv, MakeBootEnv, KeepsWork,
       SameWork, GivesEnv
  <2>7. SnapInv'
    BY <1>b, <1>c, <1>d, <1>4, <2>1, <2>2 DEF EnvsOK, ClientsOK, JobsOK,
       SnapInv, BeforeInv, LockInv, RootInv, MakeBootEnv, KeepsWork,
       SameWork, GivesEnv
  <2>8. DoneInv'
    BY <1>b, <1>c, <1>d, <1>4, <2>1, <2>2 DEF EnvsOK, ClientsOK, JobsOK,
       DoneInv, LockInv, RootInv, CloneInv, SnapInv, MakeBootEnv, KeepsWork,
       SameWork, GivesEnv
  <2> QED
    BY <2>3, <2>4, <2>5, <2>6, <2>7, <2>8 DEF WorkInv
<1>5. ASSUME NEW c \in Client, CreateBackupBe(c) PROVE WorkInv'
  <2>1. KeepsWork \/ CopiesWork(be[job[c].target])
    BY <1>5, CreateBackupBeWork
  <2>2. /\ pc[c] = "env" /\ job[c].mode = "direct" /\ UNCHANGED <<running, active, snap, job>>
        /\ pc' = [pc EXCEPT ![c] = "ready"] \/ pc' = [pc EXCEPT ![c] = "ended"]
    BY <1>5 DEF CreateBackupBe, End
  <2>3. BeforeInv'
    BY <1>b, <1>c, <1>d, <2>1, <2>2 DEF EnvsOK, ClientsOK, JobsOK, BeforeInv,
       KeepsWork, CopiesWork, SameWork
  <2>4. NewInv'
    BY <1>b, <1>c, <1>d, <2>1, <2>2 DEF EnvsOK, ClientsOK, JobsOK, NewInv,
       BeforeInv, CloneInv, RootInv, KeepsWork, CopiesWork, SameWork
  <2>5. HiddenInv'
    BY <1>b, <1>c, <1>d, <2>1, <2>2 DEF EnvsOK, ClientsOK, JobsOK, HiddenInv,
       BeforeInv, CloneInv, RootInv, QuietInv, KeepsWork, CopiesWork, SameWork
  <2>6. QuietInv'
    BY <1>b, <1>c, <1>d, <2>1, <2>2 DEF EnvsOK, ClientsOK, JobsOK, QuietInv,
       BeforeInv, LockInv, RootInv, KeepsWork, CopiesWork, SameWork
  <2>7. SnapInv'
    BY <1>b, <1>c, <1>d, <2>1, <2>2 DEF EnvsOK, ClientsOK, JobsOK, SnapInv,
       BeforeInv, LockInv, RootInv, KeepsWork, CopiesWork, SameWork
  <2>8. DoneInv'
    BY <1>b, <1>c, <1>d, <2>1, <2>2 DEF EnvsOK, ClientsOK, JobsOK, DoneInv,
       LockInv, RootInv, CloneInv, SnapInv, KeepsWork, CopiesWork, SameWork
  <2> QED
    BY <2>3, <2>4, <2>5, <2>6, <2>7, <2>8 DEF WorkInv
<1>6. ASSUME NEW c \in Client, InitImageRecovery(c) PROVE WorkInv'
  <2>1. /\ pc[c] = "env" /\ job[c].mode = "new" /\ UNCHANGED <<running, active>>
        /\ snap' = [snap EXCEPT ![c] = NoSnap]
    BY <1>6 DEF InitImageRecovery, End
  <2>2. KeepsWork \/ CopiesWork(be[job[c].target])
    BY <1>6, InitImageRecoveryWork
  <2>3. CASE UNCHANGED job /\ pc' = [pc EXCEPT ![c] = "ended"]
    <3>1. BeforeInv'
      BY <1>b, <1>c, <1>d, <2>1, <2>2, <2>3 DEF EnvsOK, ClientsOK, JobsOK,
         BeforeInv, KeepsWork, CopiesWork, SameWork
    <3>2. NewInv'
      BY <1>b, <1>c, <1>d, <2>1, <2>2, <2>3 DEF EnvsOK, ClientsOK, JobsOK,
         NewInv, BeforeInv, KeepsWork, CopiesWork, SameWork
    <3>3. HiddenInv'
      BY <1>b, <1>c, <1>d, <2>1, <2>2, <2>3 DEF EnvsOK, ClientsOK, JobsOK,
         HiddenInv, BeforeInv, KeepsWork, CopiesWork, SameWork
    <3>4. QuietInv'
      BY <1>b, <1>c, <1>d, <2>1, <2>2, <2>3 DEF EnvsOK, ClientsOK, JobsOK,
         QuietInv, LockInv, RootInv, KeepsWork, CopiesWork, SameWork
    <3>5. SnapInv'
      BY <1>b, <1>c, <1>d, <2>1, <2>2, <2>3 DEF EnvsOK, ClientsOK, JobsOK,
         SnapInv, BeforeInv, LockInv, RootInv, KeepsWork, CopiesWork, SameWork
    <3>6. DoneInv'
      BY <1>b, <1>c, <1>d, <2>1, <2>2, <2>3 DEF EnvsOK, ClientsOK, JobsOK,
         DoneInv, LockInv, RootInv, CloneInv, KeepsWork, CopiesWork, SameWork
    <3> QED
      BY <3>1, <3>2, <3>3, <3>4, <3>5, <3>6 DEF WorkInv
  <2>4. CASE /\ pc' = [pc EXCEPT ![c] = "ready"]
             /\ \E t \in Jobs : MovesTo(c, t, Fresh)
    <3>0. PICK t \in Jobs : MovesTo(c, t, Fresh)
      BY <2>4
    <3>1. BeforeInv'
      BY <1>b, <1>c, <1>d, <2>1, <2>2, <2>4, <3>0 DEF EnvsOK, ClientsOK, JobsOK,
         BeforeInv, KeepsWork, CopiesWork, SameWork, MovesTo
    <3>2. NewInv'
      BY <1>b, <1>c, <1>d, <2>1, <2>2, <2>4, <3>0 DEF EnvsOK, ClientsOK, JobsOK,
         NewInv, BeforeInv, KeepsWork, CopiesWork, SameWork, MovesTo
    <3>3. HiddenInv'
      BY <1>b, <1>c, <1>d, <2>1, <2>2, <2>4, <3>0 DEF EnvsOK, ClientsOK, JobsOK,
         HiddenInv, BeforeInv, CloneInv, KeepsWork, CopiesWork, SameWork, MovesTo
    <3>4. QuietInv'
      BY <1>b, <1>c, <1>d, <2>1, <2>2, <2>4, <3>0 DEF EnvsOK, ClientsOK, JobsOK,
         QuietInv, LockInv, RootInv, KeepsWork, CopiesWork, SameWork, MovesTo
    <3>5. SnapInv'
      BY <1>b, <1>c, <1>d, <2>1, <2>2, <2>4, <3>0 DEF EnvsOK, ClientsOK, JobsOK,
         SnapInv, BeforeInv, LockInv, RootInv, KeepsWork, CopiesWork, SameWork, MovesTo
    <3>6. DoneInv'
      BY <1>b, <1>c, <1>d, <2>1, <2>2, <2>4, <3>0 DEF EnvsOK, ClientsOK, JobsOK,
         DoneInv, LockInv, RootInv, CloneInv, KeepsWork, CopiesWork, SameWork, MovesTo
    <3> QED
      BY <3>1, <3>2, <3>3, <3>4, <3>5, <3>6 DEF WorkInv
  <2> QED
    BY <1>6, <2>3, <2>4, InitImageRecoveryJob DEF End
<1>7. ASSUME NEW c \in Client, Execute(c) PROVE WorkInv'
  <2>1. BeginsWork(c)
    BY <1>7, ExecuteWork
  <2>3. BeforeInv'
    BY <1>b, <1>c, <1>d, <1>7, <2>1 DEF EnvsOK, ClientsOK, JobsOK, BeforeInv,
       Execute, BeginsWork, SameWork
  <2>4. NewInv'
    BY <1>b, <1>c, <1>d, <1>7, <2>1 DEF EnvsOK, ClientsOK, JobsOK, NewInv,
       BeforeInv, CloneInv, RootInv, Execute, BeginsWork, SameWork
  <2>5. HiddenInv'
    BY <1>b, <1>c, <1>d, <1>7, <2>1 DEF EnvsOK, ClientsOK, JobsOK, HiddenInv,
       BeforeInv, CloneInv, RootInv, QuietInv, Execute, BeginsWork, SameWork
  <2>6. QuietInv'
    BY <1>b, <1>c, <1>d, <1>7, <2>1 DEF EnvsOK, ClientsOK, JobsOK, QuietInv,
       BeforeInv, LockInv, RootInv, Execute, BeginsWork, SameWork
  <2>7. SnapInv'
    BY <1>b, <1>c, <1>d, <1>7, <2>1 DEF EnvsOK, ClientsOK, JobsOK, SnapInv,
       BeforeInv, LockInv, RootInv, Execute, BeginsWork, SameWork
  <2>8. DoneInv'
    BY <1>b, <1>c, <1>d, <1>7, <2>1 DEF EnvsOK, ClientsOK, JobsOK, DoneInv,
       LockInv, RootInv, CloneInv, SnapInv, Execute, BeginsWork, SameWork
  <2> QED
    BY <2>3, <2>4, <2>5, <2>6, <2>7, <2>8 DEF WorkInv
<1>8. ASSUME NEW c \in Client, ExecuteRefuses(c) PROVE WorkInv'
  <2>1. KeepsWork
    BY <1>8, RecordsOnly
  <2>3. BeforeInv'
    BY <1>b, <1>c, <1>d, <1>8, <2>1 DEF EnvsOK, ClientsOK, JobsOK, BeforeInv,
       ExecuteRefuses, envs, KeepsWork, SameWork
  <2>4. NewInv'
    BY <1>b, <1>c, <1>d, <1>8, <2>1 DEF EnvsOK, ClientsOK, JobsOK, NewInv,
       BeforeInv, CloneInv, RootInv, ExecuteRefuses, envs, KeepsWork, SameWork
  <2>5. HiddenInv'
    BY <1>b, <1>c, <1>d, <1>8, <2>1 DEF EnvsOK, ClientsOK, JobsOK, HiddenInv,
       BeforeInv, CloneInv, RootInv, QuietInv, ExecuteRefuses, envs,
       KeepsWork, SameWork
  <2>6. QuietInv'
    BY <1>b, <1>c, <1>d, <1>8, <2>1 DEF EnvsOK, ClientsOK, JobsOK, QuietInv,
       BeforeInv, LockInv, RootInv, ExecuteRefuses, envs, KeepsWork, SameWork
  <2>7. SnapInv'
    BY <1>b, <1>c, <1>d, <1>8, <2>1 DEF EnvsOK, ClientsOK, JobsOK, SnapInv,
       BeforeInv, LockInv, RootInv, ExecuteRefuses, envs, KeepsWork, SameWork
  <2>8. DoneInv'
    BY <1>b, <1>c, <1>d, <1>8, <2>1 DEF EnvsOK, ClientsOK, JobsOK, DoneInv,
       LockInv, RootInv, CloneInv, SnapInv, ExecuteRefuses, envs, KeepsWork,
       SameWork
  <2> QED
    BY <2>3, <2>4, <2>5, <2>6, <2>7, <2>8 DEF WorkInv
<1>9. ASSUME NEW c \in Client, ActionFails(c) PROVE WorkInv'
  <2>1. KeepsWork
    BY <1>9, RecordsOnly
  <2>3. BeforeInv'
    BY <1>b, <1>c, <1>d, <1>9, <2>1 DEF EnvsOK, ClientsOK, JobsOK, BeforeInv,
       ActionFails, envs, KeepsWork, SameWork
  <2>4. NewInv'
    BY <1>b, <1>c, <1>d, <1>9, <2>1 DEF EnvsOK, ClientsOK, JobsOK, NewInv,
       BeforeInv, CloneInv, RootInv, ActionFails, envs, KeepsWork, SameWork
  <2>5. HiddenInv'
    BY <1>b, <1>c, <1>d, <1>9, <2>1 DEF EnvsOK, ClientsOK, JobsOK, HiddenInv,
       BeforeInv, CloneInv, RootInv, QuietInv, ActionFails, envs, KeepsWork,
       SameWork
  <2>6. QuietInv'
    BY <1>b, <1>c, <1>d, <1>9, <2>1 DEF EnvsOK, ClientsOK, JobsOK, QuietInv,
       BeforeInv, LockInv, RootInv, ActionFails, envs, KeepsWork, SameWork
  <2>7. SnapInv'
    BY <1>b, <1>c, <1>d, <1>9, <2>1 DEF EnvsOK, ClientsOK, JobsOK, SnapInv,
       BeforeInv, LockInv, RootInv, ActionFails, envs, KeepsWork, SameWork
  <2>8. DoneInv'
    BY <1>b, <1>c, <1>d, <1>9, <2>1 DEF EnvsOK, ClientsOK, JobsOK, DoneInv,
       LockInv, RootInv, CloneInv, SnapInv, ActionFails, envs, KeepsWork,
       SameWork
  <2> QED
    BY <2>3, <2>4, <2>5, <2>6, <2>7, <2>8 DEF WorkInv
<1>10. ASSUME NEW c \in Client, ActionsDone(c) PROVE WorkInv'
  <2>1. DoesWork(c)
    BY <1>10, ExecutionEndsWork
  <2>3. BeforeInv'
    BY <1>b, <1>c, <1>d, <1>10, <2>1 DEF EnvsOK, ClientsOK, JobsOK,
       BeforeInv, ActionsDone, DoesWork, SameWork
  <2>4. NewInv'
    BY <1>b, <1>c, <1>d, <1>10, <2>1 DEF EnvsOK, ClientsOK, JobsOK, NewInv,
       BeforeInv, CloneInv, RootInv, ActionsDone, DoesWork, SameWork
  <2>5. HiddenInv'
    BY <1>b, <1>c, <1>d, <1>10, <2>1 DEF EnvsOK, ClientsOK, JobsOK,
       HiddenInv, BeforeInv, CloneInv, RootInv, QuietInv, ActionsDone,
       DoesWork, SameWork
  <2>6. QuietInv'
    BY <1>b, <1>c, <1>d, <1>10, <2>1 DEF EnvsOK, ClientsOK, JobsOK, QuietInv,
       BeforeInv, LockInv, RootInv, ActionsDone, DoesWork, SameWork
  <2>7. SnapInv'
    BY <1>b, <1>c, <1>d, <1>10, <2>1 DEF EnvsOK, ClientsOK, JobsOK, SnapInv,
       BeforeInv, LockInv, RootInv, ActionsDone, DoesWork, SameWork
  <2>8. DoneInv'
    BY <1>b, <1>c, <1>d, <1>10, <2>1 DEF EnvsOK, ClientsOK, JobsOK, DoneInv,
       LockInv, RootInv, CloneInv, SnapInv, ActionsDone, DoesWork, SameWork
  <2> QED
    BY <2>3, <2>4, <2>5, <2>6, <2>7, <2>8 DEF WorkInv
<1>11. ASSUME NEW c \in Client, IndexFails(c) PROVE WorkInv'
  <2>1. DoesWork(c)
    BY <1>11, ExecutionEndsWork
  <2>3. BeforeInv'
    BY <1>b, <1>c, <1>d, <1>11, <2>1 DEF EnvsOK, ClientsOK, JobsOK,
       BeforeInv, IndexFails, End, DoesWork, SameWork
  <2>4. NewInv'
    BY <1>b, <1>c, <1>d, <1>11, <2>1 DEF EnvsOK, ClientsOK, JobsOK, NewInv,
       BeforeInv, CloneInv, RootInv, IndexFails, End, DoesWork, SameWork
  <2>5. HiddenInv'
    BY <1>b, <1>c, <1>d, <1>11, <2>1 DEF EnvsOK, ClientsOK, JobsOK,
       HiddenInv, BeforeInv, CloneInv, RootInv, QuietInv, IndexFails, End,
       DoesWork, SameWork
  <2>6. QuietInv'
    BY <1>b, <1>c, <1>d, <1>11, <2>1 DEF EnvsOK, ClientsOK, JobsOK, QuietInv,
       BeforeInv, LockInv, RootInv, IndexFails, End, DoesWork, SameWork
  <2>7. SnapInv'
    BY <1>b, <1>c, <1>d, <1>11, <2>1 DEF EnvsOK, ClientsOK, JobsOK, SnapInv,
       BeforeInv, LockInv, RootInv, IndexFails, End, DoesWork, SameWork
  <2>8. DoneInv'
    BY <1>b, <1>c, <1>d, <1>11, <2>1 DEF EnvsOK, ClientsOK, JobsOK, DoneInv,
       LockInv, RootInv, CloneInv, SnapInv, IndexFails, End, DoesWork,
       SameWork
  <2> QED
    BY <2>3, <2>4, <2>5, <2>6, <2>7, <2>8 DEF WorkInv
<1>12. ASSUME NEW c \in Client, RestoreImage(c) PROVE WorkInv'
  <2>1. KeepsWork
    BY <1>12, RecordsOnly
  <2>3. BeforeInv'
    BY <1>b, <1>c, <1>d, <1>12, <2>1 DEF EnvsOK, ClientsOK, JobsOK,
       BeforeInv, RestoreImage, End, KeepsWork, SameWork
  <2>4. NewInv'
    BY <1>b, <1>c, <1>d, <1>12, <2>1 DEF EnvsOK, ClientsOK, JobsOK, NewInv,
       BeforeInv, CloneInv, RootInv, RestoreImage, End, KeepsWork, SameWork
  <2>5. HiddenInv'
    BY <1>b, <1>c, <1>d, <1>12, <2>1 DEF EnvsOK, ClientsOK, JobsOK,
       HiddenInv, BeforeInv, CloneInv, RootInv, QuietInv, RestoreImage, End,
       KeepsWork, SameWork
  <2>6. QuietInv'
    BY <1>b, <1>c, <1>d, <1>12, <2>1 DEF EnvsOK, ClientsOK, JobsOK, QuietInv,
       BeforeInv, LockInv, RootInv, RestoreImage, End, KeepsWork, SameWork
  <2>7. SnapInv'
    BY <1>b, <1>c, <1>d, <1>12, <2>1 DEF EnvsOK, ClientsOK, JobsOK, SnapInv,
       BeforeInv, LockInv, RootInv, RestoreImage, End, KeepsWork, SameWork
  <2>8. DoneInv'
    BY <1>b, <1>c, <1>d, <1>12, <2>1 DEF EnvsOK, ClientsOK, JobsOK, DoneInv,
       LockInv, RootInv, CloneInv, SnapInv, RestoreImage, End, KeepsWork,
       SameWork
  <2> QED
    BY <2>3, <2>4, <2>5, <2>6, <2>7, <2>8 DEF WorkInv
<1>13. ASSUME NEW c \in Client, RestoreLive(c) PROVE WorkInv'
  <2>1. /\ UNCHANGED <<job, snap, running, active>> /\ pc' = [pc EXCEPT ![c] = "ended"]
        /\ pc[c] = "failing" /\ job[c].mode = "direct" /\ job[c].env = "be"
    BY <1>13 DEF RestoreLive, End, InBe
  <2>2. snap[c] \in Images
    BY <1>b, <2>1 DEF JobsOK
  <2>3. KeepsWork \/ CopiesWork(snap[c])
    BY <1>13, RestoreLiveWork
  <2>4. BeforeInv'
    BY <1>b, <1>c, <1>d, <2>1, <2>2, <2>3 DEF EnvsOK, ClientsOK, JobsOK,
       BeforeInv, KeepsWork, CopiesWork, SameWork
  <2>5. NewInv'
    BY <1>b, <1>c, <1>d, <2>1, <2>2, <2>3 DEF EnvsOK, ClientsOK, JobsOK,
       NewInv, BeforeInv, KeepsWork, CopiesWork, SameWork
  <2>6. HiddenInv'
    BY <1>b, <1>c, <1>d, <2>1, <2>2, <2>3 DEF EnvsOK, ClientsOK, JobsOK,
       HiddenInv, BeforeInv, KeepsWork, CopiesWork, SameWork
  <2>7. QuietInv'
    BY <1>b, <1>c, <1>d, <2>1, <2>2, <2>3 DEF EnvsOK, ClientsOK, JobsOK,
       QuietInv, KeepsWork, CopiesWork, SameWork
  <2>8. SnapInv'
    BY <1>b, <1>c, <1>d, <2>1, <2>2, <2>3 DEF EnvsOK, ClientsOK, JobsOK,
       SnapInv, BeforeInv, LockInv, RootInv, KeepsWork, CopiesWork, SameWork
  <2>9. DoneInv'
    BY <1>b, <1>c, <1>d, <2>1, <2>2, <2>3 DEF EnvsOK, ClientsOK, JobsOK,
       DoneInv, LockInv, RootInv, CloneInv, KeepsWork, CopiesWork, SameWork
  <2> QED
    BY <2>4, <2>5, <2>6, <2>7, <2>8, <2>9 DEF WorkInv
<1>14. ASSUME NEW c \in Client, Rollback(c) PROVE WorkInv'
  <2>1. /\ UNCHANGED <<job, running, active>> /\ pc' = [pc EXCEPT ![c] = "ended"]
        /\ snap' = [snap EXCEPT ![c] = NoSnap]
        /\ pc[c] = "failing" /\ job[c].mode = "direct" /\ job[c].env = "be"
    BY <1>14 DEF Rollback, End, InBe
  <2>2. snap[c] \in Images
    BY <1>b, <2>1 DEF JobsOK
  <2>3. CASE KeepsWork
    <3>1. BeforeInv'
      BY <1>b, <1>c, <1>d, <2>1, <2>3 DEF EnvsOK, ClientsOK, JobsOK,
         BeforeInv, KeepsWork, SameWork
    <3>2. NewInv'
      BY <1>b, <1>c, <1>d, <2>1, <2>3 DEF EnvsOK, ClientsOK, JobsOK,
         NewInv, BeforeInv, KeepsWork, SameWork
    <3>3. HiddenInv'
      BY <1>b, <1>c, <1>d, <2>1, <2>3 DEF EnvsOK, ClientsOK, JobsOK,
         HiddenInv, BeforeInv, KeepsWork, SameWork
    <3>4. QuietInv'
      BY <1>b, <1>c, <1>d, <2>1, <2>3 DEF EnvsOK, ClientsOK, JobsOK,
         QuietInv, KeepsWork, SameWork
    <3>5. SnapInv'
      BY <1>b, <1>c, <1>d, <2>1, <2>3 DEF EnvsOK, ClientsOK, JobsOK,
         SnapInv, BeforeInv, LockInv, RootInv, KeepsWork, SameWork
    <3>6. DoneInv'
      BY <1>b, <1>c, <1>d, <2>1, <2>3 DEF EnvsOK, ClientsOK, JobsOK,
         DoneInv, LockInv, RootInv, CloneInv, KeepsWork, SameWork
    <3> QED
      BY <3>1, <3>2, <3>3, <3>4, <3>5, <3>6 DEF WorkInv
  <2>4. CASE RestoresWork(c)
    <3>1. BeforeInv'
      BY <1>b, <1>c, <1>d, <2>1, <2>2, <2>4 DEF EnvsOK, ClientsOK, JobsOK,
         BeforeInv, RestoresWork, SameWork
    <3>2. NewInv'
      BY <1>b, <1>c, <1>d, <2>1, <2>2, <2>4 DEF EnvsOK, ClientsOK, JobsOK,
         NewInv, BeforeInv, RestoresWork, SameWork
    <3>3. HiddenInv'
      BY <1>b, <1>c, <1>d, <2>1, <2>2, <2>4 DEF EnvsOK, ClientsOK, JobsOK,
         HiddenInv, BeforeInv, RestoresWork, SameWork
    <3>4. QuietInv'
      BY <1>b, <1>c, <1>d, <2>1, <2>2, <2>4 DEF EnvsOK, ClientsOK, JobsOK,
         QuietInv, RestoresWork, SameWork
    <3>5. SnapInv'
      BY <1>b, <1>c, <1>d, <2>1, <2>2, <2>4 DEF EnvsOK, ClientsOK, JobsOK,
         SnapInv, BeforeInv, LockInv, RootInv, RestoresWork, SameWork
    <3>6. DoneInv'
      BY <1>b, <1>c, <1>d, <2>1, <2>2, <2>4 DEF EnvsOK, ClientsOK, JobsOK,
         DoneInv, LockInv, RootInv, CloneInv, RestoresWork, SameWork
    <3> QED
      BY <3>1, <3>2, <3>3, <3>4, <3>5, <3>6 DEF WorkInv
  <2> QED
    BY <1>14, <2>3, <2>4, RollbackWork
<1>15. ASSUME NEW c \in Client, RestoreNothing(c) PROVE WorkInv'
  <2>1. KeepsWork
    BY <1>15, RecordsOnly
  <2>3. BeforeInv'
    BY <1>b, <1>c, <1>d, <1>15, <2>1 DEF EnvsOK, ClientsOK, JobsOK,
       BeforeInv, RestoreNothing, End, InBe, KeepsWork, SameWork
  <2>4. NewInv'
    BY <1>b, <1>c, <1>d, <1>15, <2>1 DEF EnvsOK, ClientsOK, JobsOK, NewInv,
       BeforeInv, CloneInv, RootInv, RestoreNothing, End, InBe, KeepsWork,
       SameWork
  <2>5. HiddenInv'
    BY <1>b, <1>c, <1>d, <1>15, <2>1 DEF EnvsOK, ClientsOK, JobsOK,
       HiddenInv, BeforeInv, CloneInv, RootInv, QuietInv, RestoreNothing,
       End, InBe, KeepsWork, SameWork
  <2>6. QuietInv'
    BY <1>b, <1>c, <1>d, <1>15, <2>1 DEF EnvsOK, ClientsOK, JobsOK, QuietInv,
       BeforeInv, LockInv, RootInv, RestoreNothing, End, InBe, KeepsWork,
       SameWork
  <2>7. SnapInv'
    BY <1>b, <1>c, <1>d, <1>15, <2>1 DEF EnvsOK, ClientsOK, JobsOK, SnapInv,
       BeforeInv, LockInv, RootInv, RestoreNothing, End, InBe, KeepsWork,
       SameWork
  <2>8. DoneInv'
    BY <1>b, <1>c, <1>d, <1>15, <2>1 DEF EnvsOK, ClientsOK, JobsOK, DoneInv,
       LockInv, RootInv, CloneInv, SnapInv, RestoreNothing, End, InBe,
       KeepsWork, SameWork
  <2> QED
    BY <2>3, <2>4, <2>5, <2>6, <2>7, <2>8 DEF WorkInv
<1>16. ASSUME NEW c \in Client, Recurse(c) PROVE WorkInv'
  <2>1. KeepsWork
    BY <1>16, RecordsOnly
  <2>3. BeforeInv'
    BY <1>b, <1>c, <1>d, <1>16, <2>1 DEF EnvsOK, ClientsOK, JobsOK,
       BeforeInv, Recurse, End, KeepsWork, SameWork
  <2>4. NewInv'
    BY <1>b, <1>c, <1>d, <1>16, <2>1 DEF EnvsOK, ClientsOK, JobsOK, NewInv,
       BeforeInv, CloneInv, RootInv, Recurse, End, KeepsWork, SameWork
  <2>5. HiddenInv'
    BY <1>b, <1>c, <1>d, <1>16, <2>1 DEF EnvsOK, ClientsOK, JobsOK,
       HiddenInv, BeforeInv, CloneInv, RootInv, QuietInv, Recurse, End,
       KeepsWork, SameWork
  <2>6. QuietInv'
    BY <1>b, <1>c, <1>d, <1>16, <2>1 DEF EnvsOK, ClientsOK, JobsOK, QuietInv,
       BeforeInv, LockInv, RootInv, Recurse, End, KeepsWork, SameWork
  <2>7. SnapInv'
    BY <1>b, <1>c, <1>d, <1>16, <2>1 DEF EnvsOK, ClientsOK, JobsOK, SnapInv,
       BeforeInv, LockInv, RootInv, Recurse, End, KeepsWork, SameWork
  <2>8. DoneInv'
    BY <1>b, <1>c, <1>d, <1>16, <2>1 DEF EnvsOK, ClientsOK, JobsOK, DoneInv,
       LockInv, RootInv, CloneInv, SnapInv, Recurse, End, KeepsWork, SameWork
  <2> QED
    BY <2>3, <2>4, <2>5, <2>6, <2>7, <2>8 DEF WorkInv
<1>17. ASSUME NEW c \in Client, FinishDirect(c) PROVE WorkInv'
  <2>1. KeepsWork
    BY <1>17, RecordsOnly
  <2>3. BeforeInv'
    BY <1>b, <1>c, <1>d, <1>17, <2>1 DEF EnvsOK, ClientsOK, JobsOK,
       BeforeInv, FinishDirect, End, KeepsWork, SameWork
  <2>4. NewInv'
    BY <1>b, <1>c, <1>d, <1>17, <2>1 DEF EnvsOK, ClientsOK, JobsOK, NewInv,
       BeforeInv, CloneInv, RootInv, FinishDirect, End, KeepsWork, SameWork
  <2>5. HiddenInv'
    BY <1>b, <1>c, <1>d, <1>17, <2>1 DEF EnvsOK, ClientsOK, JobsOK,
       HiddenInv, BeforeInv, CloneInv, RootInv, QuietInv, FinishDirect, End,
       KeepsWork, SameWork
  <2>6. QuietInv'
    BY <1>b, <1>c, <1>d, <1>17, <2>1 DEF EnvsOK, ClientsOK, JobsOK, QuietInv,
       BeforeInv, LockInv, RootInv, FinishDirect, End, KeepsWork, SameWork
  <2>7. SnapInv'
    BY <1>b, <1>c, <1>d, <1>17, <2>1 DEF EnvsOK, ClientsOK, JobsOK, SnapInv,
       BeforeInv, LockInv, RootInv, FinishDirect, End, KeepsWork, SameWork
  <2>8. DoneInv'
    BY <1>b, <1>c, <1>d, <1>17, <2>1 DEF EnvsOK, ClientsOK, JobsOK, DoneInv,
       LockInv, RootInv, CloneInv, SnapInv, FinishDirect, End, KeepsWork,
       SameWork
  <2> QED
    BY <2>3, <2>4, <2>5, <2>6, <2>7, <2>8 DEF WorkInv
<1>18. ASSUME NEW c \in Client, UnlockClone(c) PROVE WorkInv'
  <2>1. KeepsWork
    BY <1>18, RecordsOnly
  <2>3. BeforeInv'
    BY <1>b, <1>c, <1>d, <1>18, <2>1 DEF EnvsOK, ClientsOK, JobsOK,
       BeforeInv, UnlockClone, envs, KeepsWork, SameWork
  <2>4. NewInv'
    BY <1>b, <1>c, <1>d, <1>18, <2>1 DEF EnvsOK, ClientsOK, JobsOK, NewInv,
       BeforeInv, CloneInv, RootInv, UnlockClone, envs, KeepsWork, SameWork
  <2>5. HiddenInv'
    BY <1>b, <1>c, <1>d, <1>18, <2>1 DEF EnvsOK, ClientsOK, JobsOK,
       HiddenInv, BeforeInv, CloneInv, RootInv, QuietInv, UnlockClone, envs,
       KeepsWork, SameWork
  <2>6. QuietInv'
    BY <1>b, <1>c, <1>d, <1>18, <2>1 DEF EnvsOK, ClientsOK, JobsOK, QuietInv,
       BeforeInv, LockInv, RootInv, UnlockClone, envs, KeepsWork, SameWork
  <2>7. SnapInv'
    BY <1>b, <1>c, <1>d, <1>18, <2>1 DEF EnvsOK, ClientsOK, JobsOK, SnapInv,
       BeforeInv, LockInv, RootInv, UnlockClone, envs, KeepsWork, SameWork
  <2>8. DoneInv'
    BY <1>b, <1>c, <1>d, <1>18, <2>1 DEF EnvsOK, ClientsOK, JobsOK, DoneInv,
       LockInv, RootInv, CloneInv, SnapInv, UnlockClone, envs, KeepsWork,
       SameWork
  <2> QED
    BY <2>3, <2>4, <2>5, <2>6, <2>7, <2>8 DEF WorkInv
<1>19. ASSUME NEW c \in Client, Activate(c) PROVE WorkInv'
  <2>1. KeepsWork
    BY <1>19, RecordsOnly
  <2>2. PICK t \in Jobs : MovesTo(c, t, job[c].target)
    BY <1>19, ActivateJob
  <2>3. BeforeInv'
    BY <1>b, <1>c, <1>d, <1>19, <2>1, <2>2 DEF EnvsOK, ClientsOK, JobsOK,
       BeforeInv, Activate, KeepsWork, SameWork, MovesTo
  <2>4. NewInv'
    BY <1>b, <1>c, <1>d, <1>19, <2>1, <2>2 DEF EnvsOK, ClientsOK, JobsOK,
       NewInv, BeforeInv, CloneInv, RootInv, Activate, KeepsWork, SameWork,
       MovesTo
  <2>5. HiddenInv'
    BY <1>b, <1>c, <1>d, <1>19, <2>1, <2>2 DEF EnvsOK, ClientsOK, JobsOK,
       HiddenInv, BeforeInv, CloneInv, RootInv, QuietInv, Activate,
       KeepsWork, SameWork, MovesTo
  <2>6. QuietInv'
    BY <1>b, <1>c, <1>d, <1>19, <2>1, <2>2 DEF EnvsOK, ClientsOK, JobsOK,
       QuietInv, BeforeInv, LockInv, RootInv, Activate, KeepsWork, SameWork,
       MovesTo
  <2>7. SnapInv'
    BY <1>b, <1>c, <1>d, <1>19, <2>1, <2>2 DEF EnvsOK, ClientsOK, JobsOK,
       SnapInv, BeforeInv, LockInv, RootInv, Activate, KeepsWork, SameWork,
       MovesTo
  <2>8. DoneInv'
    BY <1>b, <1>c, <1>d, <1>19, <2>1, <2>2 DEF EnvsOK, ClientsOK, JobsOK,
       DoneInv, LockInv, RootInv, CloneInv, SnapInv, Activate, KeepsWork,
       SameWork, MovesTo
  <2> QED
    BY <2>3, <2>4, <2>5, <2>6, <2>7, <2>8 DEF WorkInv
<1>20. ASSUME NEW c \in Client, ActivateRaises(c) PROVE WorkInv'
  <2>1. KeepsWork
    BY <1>20, RecordsOnly
  <2>3. BeforeInv'
    BY <1>b, <1>c, <1>d, <1>20, <2>1 DEF EnvsOK, ClientsOK, JobsOK,
       BeforeInv, ActivateRaises, End, KeepsWork, SameWork
  <2>4. NewInv'
    BY <1>b, <1>c, <1>d, <1>20, <2>1 DEF EnvsOK, ClientsOK, JobsOK, NewInv,
       BeforeInv, CloneInv, RootInv, ActivateRaises, End, KeepsWork, SameWork
  <2>5. HiddenInv'
    BY <1>b, <1>c, <1>d, <1>20, <2>1 DEF EnvsOK, ClientsOK, JobsOK,
       HiddenInv, BeforeInv, CloneInv, RootInv, QuietInv, ActivateRaises,
       End, KeepsWork, SameWork
  <2>6. QuietInv'
    BY <1>b, <1>c, <1>d, <1>20, <2>1 DEF EnvsOK, ClientsOK, JobsOK, QuietInv,
       BeforeInv, LockInv, RootInv, ActivateRaises, End, KeepsWork, SameWork
  <2>7. SnapInv'
    BY <1>b, <1>c, <1>d, <1>20, <2>1 DEF EnvsOK, ClientsOK, JobsOK, SnapInv,
       BeforeInv, LockInv, RootInv, ActivateRaises, End, KeepsWork, SameWork
  <2>8. DoneInv'
    BY <1>b, <1>c, <1>d, <1>20, <2>1 DEF EnvsOK, ClientsOK, JobsOK, DoneInv,
       LockInv, RootInv, CloneInv, SnapInv, ActivateRaises, End, KeepsWork,
       SameWork
  <2> QED
    BY <2>3, <2>4, <2>5, <2>6, <2>7, <2>8 DEF WorkInv
<1>21. ASSUME NEW c \in Client, Relock(c) PROVE WorkInv'
  <2>1. KeepsWork
    BY <1>21, RecordsOnly
  <2>3. BeforeInv'
    BY <1>b, <1>c, <1>d, <1>21, <2>1 DEF EnvsOK, ClientsOK, JobsOK,
       BeforeInv, Relock, End, KeepsWork, SameWork
  <2>4. NewInv'
    BY <1>b, <1>c, <1>d, <1>21, <2>1 DEF EnvsOK, ClientsOK, JobsOK, NewInv,
       BeforeInv, CloneInv, RootInv, Relock, End, KeepsWork, SameWork
  <2>5. HiddenInv'
    BY <1>b, <1>c, <1>d, <1>21, <2>1 DEF EnvsOK, ClientsOK, JobsOK,
       HiddenInv, BeforeInv, CloneInv, RootInv, QuietInv, Relock, End,
       KeepsWork, SameWork
  <2>6. QuietInv'
    BY <1>b, <1>c, <1>d, <1>21, <2>1 DEF EnvsOK, ClientsOK, JobsOK, QuietInv,
       BeforeInv, LockInv, RootInv, Relock, End, KeepsWork, SameWork
  <2>7. SnapInv'
    BY <1>b, <1>c, <1>d, <1>21, <2>1 DEF EnvsOK, ClientsOK, JobsOK, SnapInv,
       BeforeInv, LockInv, RootInv, Relock, End, KeepsWork, SameWork
  <2>8. DoneInv'
    BY <1>b, <1>c, <1>d, <1>21, <2>1 DEF EnvsOK, ClientsOK, JobsOK, DoneInv,
       LockInv, RootInv, CloneInv, SnapInv, Relock, End, KeepsWork, SameWork
  <2> QED
    BY <2>3, <2>4, <2>5, <2>6, <2>7, <2>8 DEF WorkInv
<1>22. ASSUME NEW c \in Client, Crash(c) PROVE WorkInv'
  <2>1. KeepsWork
    BY <1>22, RecordsOnly
  <2>3. BeforeInv'
    BY <1>b, <1>c, <1>d, <1>22, <2>1 DEF EnvsOK, ClientsOK, JobsOK,
       BeforeInv, Crash, envs, InProgress, KeepsWork, SameWork
  <2>4. NewInv'
    BY <1>b, <1>c, <1>d, <1>22, <2>1 DEF EnvsOK, ClientsOK, JobsOK, NewInv,
       BeforeInv, CloneInv, RootInv, Crash, envs, InProgress, KeepsWork,
       SameWork
  <2>5. HiddenInv'
    BY <1>b, <1>c, <1>d, <1>22, <2>1 DEF EnvsOK, ClientsOK, JobsOK,
       HiddenInv, BeforeInv, CloneInv, RootInv, QuietInv, Crash, envs,
       InProgress, KeepsWork, SameWork
  <2>6. QuietInv'
    BY <1>b, <1>c, <1>d, <1>22, <2>1 DEF EnvsOK, ClientsOK, JobsOK, QuietInv,
       BeforeInv, LockInv, RootInv, Crash, envs, InProgress, KeepsWork,
       SameWork
  <2>7. SnapInv'
    BY <1>b, <1>c, <1>d, <1>22, <2>1 DEF EnvsOK, ClientsOK, JobsOK, SnapInv,
       BeforeInv, LockInv, RootInv, Crash, envs, InProgress, KeepsWork,
       SameWork
  <2>8. DoneInv'
    BY <1>b, <1>c, <1>d, <1>22, <2>1 DEF EnvsOK, ClientsOK, JobsOK, DoneInv,
       LockInv, RootInv, CloneInv, SnapInv, Crash, envs, InProgress,
       KeepsWork, SameWork
  <2> QED
    BY <2>3, <2>4, <2>5, <2>6, <2>7, <2>8 DEF WorkInv
<1>23. CASE Reboot
  <2>1. UNCHANGED <<be, snap, job>> /\ running' = active
    BY <1>23 DEF Reboot
  <2>3. BeforeInv'
    BY <1>b, <1>c, <1>d, <1>23, <2>1 DEF EnvsOK, ClientsOK, JobsOK,
       BeforeInv, Reboot, InProgress
  <2>4. NewInv'
    BY <1>b, <1>c, <1>d, <1>23, <2>1 DEF EnvsOK, ClientsOK, JobsOK, NewInv,
       BeforeInv, CloneInv, RootInv, Reboot, InProgress
  <2>5. HiddenInv'
    BY <1>b, <1>c, <1>d, <1>23, <2>1 DEF EnvsOK, ClientsOK, JobsOK,
       HiddenInv, BeforeInv, CloneInv, RootInv, QuietInv, Reboot, InProgress
  <2>6. QuietInv'
    BY <1>b, <1>c, <1>d, <1>23, <2>1 DEF EnvsOK, ClientsOK, JobsOK, QuietInv,
       BeforeInv, LockInv, RootInv, Reboot, InProgress
  <2>7. SnapInv'
    BY <1>b, <1>c, <1>d, <1>23, <2>1 DEF EnvsOK, ClientsOK, JobsOK, SnapInv,
       BeforeInv, LockInv, RootInv, Reboot, InProgress
  <2>8. DoneInv'
    BY <1>b, <1>c, <1>d, <1>23, <2>1 DEF EnvsOK, ClientsOK, JobsOK, DoneInv,
       LockInv, RootInv, CloneInv, SnapInv, Reboot, InProgress
  <2> QED
    BY <2>3, <2>4, <2>5, <2>6, <2>7, <2>8 DEF WorkInv
<1> QED
    BY <1>0, <1>1, <1>2, <1>3, <1>4, <1>5, <1>6, <1>7, <1>8, <1>9, <1>10,
       <1>11, <1>12, <1>13, <1>14, <1>15, <1>16, <1>17, <1>18, <1>19, <1>20,
       <1>21, <1>22, <1>23 DEF Next
-----------------------------------------------------------------------------
(* What is recorded, and what the user was told.                           *)

\* The histories grow by the end of the client's own operation, which is a
\* success only where the operation is about to be recorded as one.
Logs(c) ==
    /\ \A x \in DOMAIN be, d \in Client, r \in {"ok", "failed"} :
           <<d, r>> \in be[x].hist => <<d, r>> \in be'[x].hist
    /\ \A x \in DOMAIN be, d \in Client, r \in {"ok", "failed"} :
           <<d, r>> \in be'[x].hist /\ <<d, r>> \notin be[x].hist =>
               /\ d = c /\ x \in {job[c].target, job[c].root}
               /\ pc[c] \in Holds \cup {"activating", "relocking"} \/ told'[c] = "locked"
               /\ r = "ok" => \/ pc[c] \in {"finishing", "activating"} /\ x = job[c].root
                              \/ pc[c] = "relocking" /\ c \in open

(* A step that records nothing, or one end in one image, logs.             *)
LEMMA KeepsHistLogs ==
    ASSUME TypeInv, NEW c \in Client, KeepsHist
    PROVE  Logs(c)
    BY DEF KeepsHist, Logs

(* The end of an operation under way is recorded in one image.             *)
LEMMA RecordsAtLogs ==
    ASSUME TypeInv, NEW c \in Client, NEW b \in {job[c].target, job[c].root},
           NEW r \in {"ok", "failed"}, RecordsAt(b, c, r), InProgress(c),
           pc[c] # "planned" \/ told'[c] = "locked",
           r = "ok" => \/ pc[c] \in {"finishing", "activating"} /\ b = job[c].root
                       \/ pc[c] = "relocking"
    PROVE  /\ Logs(c)
           /\ c \in open => <<c, r>> \in be'[b].hist
<1>1. pc[c] \in Holds \cup {"activating", "relocking"} \/ told'[c] = "locked"
    BY DEF InProgress, Holds, TypeInv, ClientsOK, Locations
<1>2. be'[b].hist = IF c \in open THEN be[b].hist \cup {<<c, r>>} ELSE be[b].hist
    BY DEF RecordsAt
<1>3. \A x \in DOMAIN be \ {b} : be'[x].hist = be[x].hist
    BY DEF RecordsAt
<1> QED
    BY <1>1, <1>2, <1>3 DEF Logs

(* Recording an end in one image.                                          *)
LEMMA RecordedAt ==
    ASSUME TypeInv, NEW c \in Client, NEW b \in DOMAIN be, NEW r \in {"ok", "failed"},
           be' = Recorded(be, b, c, r)
    PROVE  RecordsAt(b, c, r)
<1>1. be \in [DOMAIN be -> Images]
    BY DEF TypeInv, EnvsOK
<1>2. RecordsEnd(be, be', b, c, r)
    BY <1>1, RecordedFacts, Zenon
<1> QED
    BY <1>2 DEF RecordsEnd, RecordsAt

(* activate_image() raises: success may be recorded in the clone, and the  *)
(* failure is recorded in the original.                                    *)
LEMMA ActivateRaisesLogs ==
    ASSUME TypeInv, NEW c \in Client, ActivateRaises(c)
    PROVE  /\ Logs(c)
           /\ c \in open => <<c, "failed">> \in be'[job[c].target].hist
<1>1. be \in [DOMAIN be -> Images] /\ pc[c] = "activating"
    BY DEF TypeInv, EnvsOK, ActivateRaises
<1>2. job[c].target \in DOMAIN be /\ job[c].root \in DOMAIN be
    BY <1>1 DEF TypeInv, JobsOK
<1>3. PICK mid : /\ mid = be \/ mid = Recorded(be, job[c].root, c, "ok")
                 /\ be' = Recorded(mid, job[c].target, c, "failed")
    BY DEF ActivateRaises
<1>4. mid = be \/ RecordsEnd(be, mid, job[c].root, c, "ok")
    BY <1>1, <1>2, <1>3, RecordedFacts, Zenon
<1>5. mid \in [DOMAIN be -> Images] /\ DOMAIN mid = DOMAIN be
    BY <1>1, <1>4 DEF RecordsEnd
<1>6. RecordsEnd(mid, be', job[c].target, c, "failed")
    BY <1>2, <1>3, <1>5, RecordedFacts, Zenon
<1>7. /\ \A x \in DOMAIN be : x # job[c].root => mid[x].hist = be[x].hist
      /\ \/ mid[job[c].root].hist = be[job[c].root].hist
         \/ mid[job[c].root].hist = be[job[c].root].hist \cup {<<c, "ok">>}
    BY <1>1, <1>2, <1>4 DEF RecordsEnd
<1>8. /\ \A x \in DOMAIN be : x # job[c].target => be'[x].hist = mid[x].hist
      /\ be'[job[c].target].hist = IF c \in open THEN mid[job[c].target].hist \cup {<<c, "failed">>}
                                   ELSE mid[job[c].target].hist
    BY <1>2, <1>5, <1>6 DEF RecordsEnd
<1>9. \A x \in DOMAIN be :
          /\ be[x].hist \subseteq mid[x].hist /\ mid[x].hist \subseteq be'[x].hist
          /\ \A p \in mid[x].hist \ be[x].hist : x = job[c].root /\ p = <<c, "ok">>
          /\ \A p \in be'[x].hist \ mid[x].hist : x = job[c].target /\ p = <<c, "failed">>
    BY <1>2, <1>7, <1>8
<1>10. ASSUME NEW x \in DOMAIN be, NEW d \in Client, NEW r \in {"ok", "failed"},
              <<d, r>> \in be'[x].hist, <<d, r>> \notin be[x].hist
       PROVE  /\ d = c /\ x \in {job[c].target, job[c].root}
              /\ r = "ok" => x = job[c].root
    BY <1>9, <1>10
<1>11. \A x \in DOMAIN be, d \in Client, r \in {"ok", "failed"} :
           <<d, r>> \in be[x].hist => <<d, r>> \in be'[x].hist
    BY <1>9
<1>12. Logs(c)
    BY <1>1, <1>10, <1>11 DEF Logs
<1> QED
    BY <1>2, <1>8, <1>12

\* The record that a client whose operation ends has left, if it still had
\* an operation to record.
EndLogged(c) ==
    c \in open => \E b \in DOMAIN be, r \in {"ok", "failed"} : <<c, r>> \in be'[b].hist

(* Every step but a rollback only adds to the histories, and an operation  *)
(* that ends is recorded unless an image linked to this one failed.        *)
LEMMA LogStep ==
    ASSUME TypeInv, NEW c \in Client,
           \/ Plan(c) \/ LockImage(c) \/ LockFails(c) \/ MakeBootEnv(c)
           \/ CreateBackupBe(c) \/ InitImageRecovery(c)
           \/ Execute(c) \/ ExecuteRefuses(c) \/ ActionFails(c) \/ ActionsDone(c)
           \/ IndexFails(c)
           \/ RestoreImage(c) \/ RestoreLive(c) \/ RestoreNothing(c)
           \/ Recurse(c) \/ FinishDirect(c) \/ UnlockClone(c)
           \/ Activate(c) \/ ActivateRaises(c) \/ Relock(c)
           \/ Crash(c)
    PROVE  /\ Logs(c)
           /\ pc'[c] = "ended" => EndLogged(c) \/ "children" \in Faults
           /\ pc'[c] = "relocking" => \/ c \in open' /\ "activate" \in Faults
                                      \/ c \notin open' /\ EndLogged(c)
<1> USE DEF Goto
<1>0. /\ pc[c] # "none" => job[c].target \in DOMAIN be /\ job[c].root \in DOMAIN be
      /\ pc \in [Client -> Locations] /\ told \in [Client -> Answers]
    BY DEF TypeInv, JobsOK, ClientsOK
<1>1. CASE \/ Plan(c) \/ LockImage(c) \/ MakeBootEnv(c) \/ ExecuteRefuses(c)
           \/ ActionFails(c) \/ UnlockClone(c) \/ Crash(c)
    <2>1. KeepsHist /\ pc'[c] \notin {"ended", "relocking"}
        BY <1>0, <1>1 DEF Plan, LockImage, MakeBootEnv, ExecuteRefuses, ActionFails,
           UnlockClone, Crash, envs, KeepsHist
    <2> QED
        BY <2>1, KeepsHistLogs
<1>2. CASE Recurse(c)
    <2>1. KeepsHist /\ pc'[c] # "relocking" /\ (pc'[c] = "ended" => "children" \in Faults)
        BY <1>0, <1>2 DEF Recurse, End, KeepsHist
    <2> QED
        BY <2>1, KeepsHistLogs
<1>3. CASE Execute(c)
    BY <1>0, <1>3, ExecuteWork, KeepsHistLogs DEF Execute
<1>4. CASE ActionsDone(c)
    <2>1. pc'[c] \in {"executed", "failing"}
        BY <1>0, <1>4 DEF ActionsDone
    <2> QED
        BY <1>4, <2>1, ExecutionEndsWork, KeepsHistLogs
<1>5. ASSUME NEW b \in {job[c].target, job[c].root}, NEW r \in {"ok", "failed"},
             RecordsAt(b, c, r), InProgress(c), pc[c] # "planned" \/ told'[c] = "locked",
             r = "ok" => \/ pc[c] \in {"finishing", "activating"} /\ b = job[c].root
                         \/ pc[c] = "relocking"
      PROVE  Logs(c) /\ EndLogged(c)
    BY <1>0, <1>5, RecordsAtLogs DEF EndLogged, InProgress
<1>6. CASE IndexFails(c)
    <2>1. RecordsAt(job[c].root, c, "failed") /\ pc[c] = "executing" /\ pc'[c] = "ended"
        BY <1>0, <1>6, ExecutionEndsWork DEF IndexFails, End
    <2> QED
        BY <1>5, <2>1 DEF InProgress
<1>7. CASE CreateBackupBe(c)
    <2>1. pc[c] = "env"
        BY <1>7 DEF CreateBackupBe
    <2>2. \/ KeepsHist /\ pc'[c] = "ready"
          \/ RecordsAt(job[c].target, c, "failed") /\ pc'[c] = "ended"
        BY <1>0, <1>7, CreateBackupBeWork DEF End
    <2> QED
        BY <1>5, <2>1, <2>2, KeepsHistLogs DEF InProgress
<1>8. CASE InitImageRecovery(c)
    <2>1. pc[c] = "env" /\ pc'[c] \in {"ready", "ended"}
        BY <1>0, <1>8 DEF InitImageRecovery, End
    <2>2. \/ KeepsHist /\ pc'[c] = "ready"
          \/ RecordsAt(job[c].target, c, "failed") /\ pc'[c] = "ended"
        BY <1>8, <2>1, InitImageRecoveryWork
    <2> QED
        BY <1>5, <2>1, <2>2, KeepsHistLogs DEF InProgress
<1>9. CASE RestoreLive(c)
    <2>1. RecordsAt(job[c].target, c, "failed") /\ pc[c] = "failing" /\ pc'[c] = "ended"
        BY <1>0, <1>9, RestoreLiveWork DEF RestoreLive, End
    <2> QED
        BY <1>5, <2>1 DEF InProgress
<1>10. CASE LockFails(c) \/ RestoreImage(c) \/ RestoreNothing(c)
    <2>1. /\ be' = Recorded(be, job[c].target, c, "failed")
          /\ pc[c] \in {"planned", "failing"} /\ pc'[c] = "ended"
          /\ pc[c] = "planned" => told'[c] = "locked"
        BY <1>0, <1>10 DEF LockFails, RestoreImage, RestoreNothing, End
    <2>2. RecordsAt(job[c].target, c, "failed")
        BY <1>0, <2>1, RecordedAt
    <2> QED
        BY <1>5, <2>1, <2>2 DEF InProgress
<1>11. CASE FinishDirect(c)
    <2>1. /\ be' = Recorded(be, job[c].root, c, "ok")
          /\ pc[c] = "finishing" /\ pc'[c] = "ended"
        BY <1>0, <1>11 DEF FinishDirect, End
    <2>2. RecordsAt(job[c].root, c, "ok")
        BY <1>0, <2>1, RecordedAt
    <2> QED
        BY <1>5, <2>1, <2>2 DEF InProgress
<1>12. CASE Activate(c)
    <2>1. pc[c] = "activating" /\ pc'[c] = "relocking"
        BY <1>0, <1>12 DEF Activate
    <2>2. \/ be' = be /\ open' = open /\ "activate" \in Faults
          \/ be' = Recorded(be, job[c].root, c, "ok") /\ open' = open \ {c}
        BY <1>12 DEF Activate
    <2>3. CASE be' = be /\ open' = open /\ "activate" \in Faults
        <3>1. Logs(c)
            BY <2>3, KeepsHistLogs DEF KeepsHist
        <3> QED
            BY <2>1, <2>3, <3>1 DEF EndLogged
    <2>4. CASE be' = Recorded(be, job[c].root, c, "ok") /\ open' = open \ {c}
        <3>1. RecordsAt(job[c].root, c, "ok")
            BY <1>0, <2>1, <2>4, RecordedAt
        <3>2. Logs(c) /\ EndLogged(c)
            BY <1>5, <2>1, <3>1 DEF InProgress
        <3> QED
            BY <2>1, <2>4, <3>2
    <2> QED
        BY <2>2, <2>3, <2>4
<1>13. CASE ActivateRaises(c)
    <2>1. pc[c] = "activating" /\ pc'[c] = "ended"
        BY <1>0, <1>13 DEF ActivateRaises, End
    <2>2. Logs(c) /\ (c \in open => <<c, "failed">> \in be'[job[c].target].hist)
        BY <1>13, ActivateRaisesLogs
    <2> QED
        BY <1>0, <2>1, <2>2 DEF EndLogged
<1>14. CASE Relock(c)
    <2>1. pc[c] = "relocking" /\ pc'[c] = "ended"
        BY <1>0, <1>14 DEF Relock, End
    <2>2. PICK r \in {"ok", "failed"} : be' = Recorded(be, job[c].target, c, r)
        BY <1>14 DEF Relock
    <2>3. RecordsAt(job[c].target, c, r)
        BY <1>0, <2>1, <2>2, RecordedAt
    <2> QED
        BY <1>5, <2>1, <2>3 DEF InProgress
<1> QED
    BY <1>1, <1>2, <1>3, <1>4, <1>6, <1>7, <1>8, <1>9, <1>10, <1>11, <1>12, <1>13, <1>14

(* What is done in the boot environments grows; a boot environment that is *)
(* new is a copy of the client's image or of its snapshot.                 *)
Grows(c) ==
    /\ \A b \in DOMAIN be, d \in Client : d \in be[b].done => d \in be'[b].done
    /\ \A b \in DOMAIN be, d \in Client \ {c} :
           /\ d \in be'[b].done => d \in be[b].done
           /\ d \in be'[b].half => d \in be[b].half
    /\ \/ DOMAIN be' = DOMAIN be
       \/ /\ pc[c] # "none"
          /\ \E image \in Images : /\ image = be[job[c].target] \/ image = snap[c]
                                   /\ CopiesWork(image)

(* No step but a rollback takes work away.                                 *)
LEMMA GrowStep ==
    ASSUME TypeInv, NEW c \in Client,
           \/ Plan(c) \/ LockImage(c) \/ LockFails(c) \/ MakeBootEnv(c)
           \/ CreateBackupBe(c) \/ InitImageRecovery(c)
           \/ Execute(c) \/ ExecuteRefuses(c) \/ ActionFails(c) \/ ActionsDone(c)
           \/ IndexFails(c)
           \/ RestoreImage(c) \/ RestoreLive(c) \/ RestoreNothing(c)
           \/ Recurse(c) \/ FinishDirect(c) \/ UnlockClone(c)
           \/ Activate(c) \/ ActivateRaises(c) \/ Relock(c)
           \/ Crash(c)
    PROVE  Grows(c)
<1>1. CASE KeepsWork
    BY <1>1 DEF KeepsWork, SameWork, Grows
<1>2. ASSUME NEW image \in Images, image = be[job[c].target] \/ image = snap[c],
             CopiesWork(image), pc[c] # "none"
      PROVE  Grows(c)
    <2>1. \A b \in DOMAIN be : SameWork(b)
        BY <1>2 DEF CopiesWork
    <2> QED
        BY <1>2, <2>1 DEF SameWork, Grows
<1>3. CASE BeginsWork(c)
    BY <1>3 DEF BeginsWork, SameWork, Grows
<1>4. CASE DoesWork(c)
    BY <1>4 DEF DoesWork, SameWork, Grows
<1>5. CASE CreateBackupBe(c) \/ InitImageRecovery(c)
    <2>1. be[job[c].target] \in Images /\ pc[c] # "none"
        BY <1>5 DEF CreateBackupBe, InitImageRecovery, TypeInv, JobsOK, EnvsOK
    <2> QED
        BY <1>1, <1>2, <1>5, <2>1, CreateBackupBeWork, InitImageRecoveryWork
<1>6. CASE RestoreLive(c)
    <2>1. snap[c] \in Images /\ pc[c] # "none"
        BY <1>6 DEF RestoreLive, TypeInv, JobsOK, HasSnap, Guarded, Holds, InBe
    <2> QED
        BY <1>1, <1>2, <1>6, <2>1, RestoreLiveWork
<1> QED
    BY <1>1, <1>3, <1>4, <1>5, <1>6, RecordsOnly, ExecuteWork, ExecutionEndsWork

(* A step of a client leaves the others where they are; it goes on with    *)
(* its operation, or tells the user how that ended.                        *)
Others(c) ==
    \A d \in Client \ {c} :
        /\ pc'[d] = pc[d] /\ job'[d] = job[d] /\ snap'[d] = snap[d] /\ told'[d] = told[d]
        /\ d \in open' <=> d \in open
Itself(c) ==
    /\ running' = running
    /\ pc[c] \notin {"ended", "dead"}
    /\ pc[c] = "none" => pc'[c] = "planned"
    /\ pc[c] # "none" => job'[c].target = job[c].target /\ job'[c].mode = job[c].mode
    /\ \/ /\ pc'[c] = "ended" /\ c \notin open' /\ told'[c] # "nothing"
          /\ told'[c] = "unmodified" => job[c].mode = "new"
          /\ told'[c] = "restored" => Rollback(c)
       \/ /\ pc'[c] # "ended" /\ told'[c] = told[c]
          /\ \/ pc'[c] \in {"dead", "relocking"}
             \/ c \in open' /\ pc'[c] # "none"
Snapshot(c) ==
    /\ HasSnap(c)' => \/ HasSnap(c) /\ snap'[c] = snap[c]
                      \/ snap'[c] = be[job[c].target] /\ be' = be
    /\ \/ snap'[c] \in {snap[c], NoSnap}
       \/ pc[c] # "none" /\ snap'[c] = be[job[c].target]

(* The control of every step.                                              *)
LEMMA TurnStep ==
    ASSUME TypeInv, OpenInv, NEW c \in Client,
           \/ Plan(c) \/ LockImage(c) \/ LockFails(c) \/ MakeBootEnv(c)
           \/ CreateBackupBe(c) \/ InitImageRecovery(c)
           \/ Execute(c) \/ ExecuteRefuses(c) \/ ActionFails(c) \/ ActionsDone(c)
           \/ IndexFails(c)
           \/ RestoreImage(c) \/ RestoreLive(c) \/ Rollback(c) \/ RestoreNothing(c)
           \/ Recurse(c) \/ FinishDirect(c) \/ UnlockClone(c)
           \/ Activate(c) \/ ActivateRaises(c) \/ Relock(c)
           \/ Crash(c)
    PROVE  Others(c) /\ Itself(c) /\ Snapshot(c)
<1> USE NoSnapIsNone DEF Goto, Holds, Guarded, HasSnap
<1>b. /\ EnvsOK /\ ClientsOK /\ JobsOK
    BY DEF TypeInv
<1>o. InProgress(c) /\ pc[c] # "relocking" => c \in open
    BY DEF OpenInv
<1>1. CASE Plan(c)
    <2>0. PICK t \in Jobs : PlansFor(c, t)
        BY <1>1, PlanJob
    <2>1. Others(c)
        BY <1>b, <1>o, <1>1, <2>0 DEF EnvsOK, ClientsOK, Plan, envs, PlansFor, Others
    <2>2. Itself(c)
        BY <1>b, <1>o, <1>1, <2>0 DEF EnvsOK, ClientsOK, JobsOK, Plan, envs, PlansFor,
           InProgress, Itself
    <2>3. Snapshot(c)
        BY <1>b, <1>o, <1>1, <2>0 DEF EnvsOK, ClientsOK, JobsOK, Plan, envs, PlansFor, Snapshot
    <2> QED
        BY <2>1, <2>2, <2>3
<1>2. CASE LockImage(c)
    <2>1. Others(c)
        BY <1>b, <1>o, <1>2 DEF EnvsOK, ClientsOK, LockImage, envs, Others
    <2>2. Itself(c)
        BY <1>b, <1>o, <1>2 DEF EnvsOK, ClientsOK, JobsOK, LockImage, envs,
           InProgress, Itself
    <2>3. Snapshot(c)
        BY <1>b, <1>o, <1>2 DEF EnvsOK, ClientsOK, JobsOK, LockImage, envs, Snapshot
    <2> QED
        BY <2>1, <2>2, <2>3
<1>3. CASE LockFails(c)
    <2>1. Others(c)
        BY <1>b, <1>o, <1>3 DEF EnvsOK, ClientsOK, LockFails, End, Others
    <2>2. Itself(c)
        BY <1>b, <1>o, <1>3 DEF EnvsOK, ClientsOK, JobsOK, LockFails, End,
           InProgress, Itself
    <2>3. Snapshot(c)
        BY <1>b, <1>o, <1>3 DEF EnvsOK, ClientsOK, JobsOK, LockFails, End, Snapshot
    <2> QED
        BY <2>1, <2>2, <2>3
<1>4. CASE MakeBootEnv(c)
    <2>0. PICK t \in Jobs : GivesEnv(c, t)
        BY <1>4, MakeBootEnvJob
    <2>1. Others(c)
        BY <1>b, <1>o, <1>4, <2>0 DEF EnvsOK, ClientsOK, MakeBootEnv, GivesEnv, Others
    <2>2. Itself(c)
        BY <1>b, <1>o, <1>4, <2>0 DEF EnvsOK, ClientsOK, JobsOK, MakeBootEnv, GivesEnv,
           InProgress, Itself
    <2>3. Snapshot(c)
        BY <1>b, <1>o, <1>4, <2>0 DEF EnvsOK, ClientsOK, JobsOK, MakeBootEnv, GivesEnv, Snapshot
    <2> QED
        BY <2>1, <2>2, <2>3
<1>5. CASE CreateBackupBe(c)
    <2>1. Others(c)
        BY <1>b, <1>o, <1>5 DEF EnvsOK, ClientsOK, CreateBackupBe, End, Others
    <2>2. Itself(c)
        BY <1>b, <1>o, <1>5 DEF EnvsOK, ClientsOK, JobsOK, CreateBackupBe, End,
           InProgress, Itself
    <2>3. Snapshot(c)
        BY <1>b, <1>o, <1>5 DEF EnvsOK, ClientsOK, JobsOK, CreateBackupBe, End, Snapshot
    <2> QED
        BY <2>1, <2>2, <2>3
<1>6. CASE InitImageRecovery(c)
    <2>1. CASE End(c, "failed")
        <3>1. pc[c] = "env" /\ snap' = [snap EXCEPT ![c] = NoSnap]
            BY <1>6 DEF InitImageRecovery
        <3> QED
            BY <1>b, <2>1, <3>1 DEF EnvsOK, ClientsOK, JobsOK, End, Others, Itself, Snapshot
    <2>2. CASE /\ UNCHANGED <<running, open, told>> /\ pc' = [pc EXCEPT ![c] = "ready"]
               /\ \E t \in Jobs : MovesTo(c, t, Fresh)
        <3>1. PICK t \in Jobs : MovesTo(c, t, Fresh)
            BY <2>2
        <3>2. pc[c] = "env" /\ snap' = [snap EXCEPT ![c] = NoSnap] /\ job[c].mode = "new"
            BY <1>6 DEF InitImageRecovery
        <3> QED
            BY <1>b, <1>o, <2>2, <3>1, <3>2 DEF EnvsOK, ClientsOK, JobsOK, MovesTo,
               InProgress, Others, Itself, Snapshot
    <2> QED
        BY <1>6, <2>1, <2>2, InitImageRecoveryJob
<1>7. CASE Execute(c)
    <2>1. Others(c)
        BY <1>b, <1>o, <1>7 DEF EnvsOK, ClientsOK, Execute, Others
    <2>2. Itself(c)
        BY <1>b, <1>o, <1>7 DEF EnvsOK, ClientsOK, JobsOK, Execute,
           InProgress, Itself
    <2>3. Snapshot(c)
        BY <1>b, <1>o, <1>7 DEF EnvsOK, ClientsOK, JobsOK, Execute, Snapshot
    <2> QED
        BY <2>1, <2>2, <2>3
<1>8. CASE ExecuteRefuses(c)
    <2>1. Others(c)
        BY <1>b, <1>o, <1>8 DEF EnvsOK, ClientsOK, ExecuteRefuses, envs, Others
    <2>2. Itself(c)
        BY <1>b, <1>o, <1>8 DEF EnvsOK, ClientsOK, JobsOK, ExecuteRefuses, envs,
           InProgress, Itself
    <2>3. Snapshot(c)
        BY <1>b, <1>o, <1>8 DEF EnvsOK, ClientsOK, JobsOK, ExecuteRefuses, envs, Snapshot
    <2> QED
        BY <2>1, <2>2, <2>3
<1>9. CASE ActionFails(c)
    <2>1. Others(c)
        BY <1>b, <1>o, <1>9 DEF EnvsOK, ClientsOK, ActionFails, envs, Others
    <2>2. Itself(c)
        BY <1>b, <1>o, <1>9 DEF EnvsOK, ClientsOK, JobsOK, ActionFails, envs,
           InProgress, Itself
    <2>3. Snapshot(c)
        BY <1>b, <1>o, <1>9 DEF EnvsOK, ClientsOK, JobsOK, ActionFails, envs, Snapshot
    <2> QED
        BY <2>1, <2>2, <2>3
<1>10. CASE ActionsDone(c)
    <2>1. Others(c)
        BY <1>b, <1>o, <1>10 DEF EnvsOK, ClientsOK, ActionsDone, Others
    <2>2. Itself(c)
        BY <1>b, <1>o, <1>10 DEF EnvsOK, ClientsOK, JobsOK, ActionsDone,
           InProgress, Itself
    <2>3. Snapshot(c)
        BY <1>b, <1>o, <1>10 DEF EnvsOK, ClientsOK, JobsOK, ActionsDone, Snapshot
    <2> QED
        BY <2>1, <2>2, <2>3
<1>11. CASE IndexFails(c)
    <2>1. Others(c)
        BY <1>b, <1>o, <1>11 DEF EnvsOK, ClientsOK, IndexFails, End, Others
    <2>2. Itself(c)
        BY <1>b, <1>o, <1>11 DEF EnvsOK, ClientsOK, JobsOK, IndexFails, End,
           InProgress, Itself
    <2>3. Snapshot(c)
        BY <1>b, <1>o, <1>11 DEF EnvsOK, ClientsOK, JobsOK, IndexFails, End, Snapshot
    <2> QED
        BY <2>1, <2>2, <2>3
<1>12. CASE RestoreImage(c)
    <2>1. Others(c)
        BY <1>b, <1>o, <1>12 DEF EnvsOK, ClientsOK, RestoreImage, End, Others
    <2>2. Itself(c)
        BY <1>b, <1>o, <1>12 DEF EnvsOK, ClientsOK, JobsOK, RestoreImage, End,
           InProgress, Itself
    <2>3. Snapshot(c)
        BY <1>b, <1>o, <1>12 DEF EnvsOK, ClientsOK, JobsOK, RestoreImage, End, Snapshot
    <2> QED
        BY <2>1, <2>2, <2>3
<1>13. CASE RestoreLive(c)
    <2>1. Others(c)
        BY <1>b, <1>o, <1>13 DEF EnvsOK, ClientsOK, RestoreLive, End, Others
    <2>2. Itself(c)
        BY <1>b, <1>o, <1>13 DEF EnvsOK, ClientsOK, JobsOK, RestoreLive, End,
           InProgress, Itself
    <2>3. Snapshot(c)
        BY <1>b, <1>o, <1>13 DEF EnvsOK, ClientsOK, JobsOK, RestoreLive, End, Snapshot
    <2> QED
        BY <2>1, <2>2, <2>3
<1>14. CASE Rollback(c)
    <2>1. Others(c)
        BY <1>b, <1>o, <1>14 DEF EnvsOK, ClientsOK, Rollback, End, Others
    <2>2. Itself(c)
        BY <1>b, <1>o, <1>14 DEF EnvsOK, ClientsOK, JobsOK, Rollback, End,
           InProgress, Itself
    <2>3. Snapshot(c)
        BY <1>b, <1>o, <1>14 DEF EnvsOK, ClientsOK, JobsOK, Rollback, End, Snapshot
    <2> QED
        BY <2>1, <2>2, <2>3
<1>15. CASE RestoreNothing(c)
    <2>1. Others(c)
        BY <1>b, <1>o, <1>15 DEF EnvsOK, ClientsOK, RestoreNothing, End, Others
    <2>2. Itself(c)
        BY <1>b, <1>o, <1>15 DEF EnvsOK, ClientsOK, JobsOK, RestoreNothing, End,
           InProgress, Itself
    <2>3. Snapshot(c)
        BY <1>b, <1>o, <1>15 DEF EnvsOK, ClientsOK, JobsOK, RestoreNothing, End, Snapshot
    <2> QED
        BY <2>1, <2>2, <2>3
<1>16. CASE Recurse(c)
    <2>1. Others(c)
        BY <1>b, <1>o, <1>16 DEF EnvsOK, ClientsOK, Recurse, End, Others
    <2>2. Itself(c)
        BY <1>b, <1>o, <1>16 DEF EnvsOK, ClientsOK, JobsOK, Recurse, End,
           InProgress, Itself
    <2>3. Snapshot(c)
        BY <1>b, <1>o, <1>16 DEF EnvsOK, ClientsOK, JobsOK, Recurse, End, Snapshot
    <2> QED
        BY <2>1, <2>2, <2>3
<1>17. CASE FinishDirect(c)
    <2>1. Others(c)
        BY <1>b, <1>o, <1>17 DEF EnvsOK, ClientsOK, FinishDirect, End, Others
    <2>2. Itself(c)
        BY <1>b, <1>o, <1>17 DEF EnvsOK, ClientsOK, JobsOK, FinishDirect, End,
           InProgress, Itself
    <2>3. Snapshot(c)
        BY <1>b, <1>o, <1>17 DEF EnvsOK, ClientsOK, JobsOK, FinishDirect, End, Snapshot
    <2> QED
        BY <2>1, <2>2, <2>3
<1>18. CASE UnlockClone(c)
    <2>1. Others(c)
        BY <1>b, <1>o, <1>18 DEF EnvsOK, ClientsOK, UnlockClone, envs, Others
    <2>2. Itself(c)
        BY <1>b, <1>o, <1>18 DEF EnvsOK, ClientsOK, JobsOK, UnlockClone, envs,
           InProgress, Itself
    <2>3. Snapshot(c)
        BY <1>b, <1>o, <1>18 DEF EnvsOK, ClientsOK, JobsOK, UnlockClone, envs, Snapshot
    <2> QED
        BY <2>1, <2>2, <2>3
<1>19. CASE Activate(c)
    <2>0. PICK t \in Jobs : MovesTo(c, t, job[c].target)
        BY <1>19, ActivateJob
    <2>1. Others(c)
        BY <1>b, <1>o, <1>19, <2>0 DEF EnvsOK, ClientsOK, Activate, MovesTo, Others
    <2>2. Itself(c)
        BY <1>b, <1>o, <1>19, <2>0 DEF EnvsOK, ClientsOK, JobsOK, Activate, MovesTo,
           InProgress, Itself
    <2>3. Snapshot(c)
        BY <1>b, <1>o, <1>19, <2>0 DEF EnvsOK, ClientsOK, JobsOK, Activate, MovesTo, Snapshot
    <2> QED
        BY <2>1, <2>2, <2>3
<1>20. CASE ActivateRaises(c)
    <2>1. Others(c)
        BY <1>b, <1>o, <1>20 DEF EnvsOK, ClientsOK, ActivateRaises, End, Others
    <2>2. Itself(c)
        BY <1>b, <1>o, <1>20 DEF EnvsOK, ClientsOK, JobsOK, ActivateRaises, End,
           InProgress, Itself
    <2>3. Snapshot(c)
        BY <1>b, <1>o, <1>20 DEF EnvsOK, ClientsOK, JobsOK, ActivateRaises, End, Snapshot
    <2> QED
        BY <2>1, <2>2, <2>3
<1>21. CASE Relock(c)
    <2>1. Others(c)
        BY <1>b, <1>o, <1>21 DEF EnvsOK, ClientsOK, Relock, End, Others
    <2>2. Itself(c)
        BY <1>b, <1>o, <1>21 DEF EnvsOK, ClientsOK, JobsOK, Relock, End,
           InProgress, Itself
    <2>3. Snapshot(c)
        BY <1>b, <1>o, <1>21 DEF EnvsOK, ClientsOK, JobsOK, Relock, End, Snapshot
    <2> QED
        BY <2>1, <2>2, <2>3
<1>22. CASE Crash(c)
    <2>1. Others(c)
        BY <1>b, <1>o, <1>22 DEF EnvsOK, ClientsOK, Crash, envs, Others
    <2>2. Itself(c)
        BY <1>b, <1>o, <1>22 DEF EnvsOK, ClientsOK, JobsOK, Crash, envs,
           InProgress, Itself
    <2>3. Snapshot(c)
        BY <1>b, <1>o, <1>22 DEF EnvsOK, ClientsOK, JobsOK, Crash, envs, Snapshot
    <2> QED
        BY <2>1, <2>2, <2>3
<1> QED
    BY <1>1, <1>2, <1>3, <1>4, <1>5, <1>6, <1>7, <1>8, <1>9, <1>10, <1>11,
       <1>12, <1>13, <1>14, <1>15, <1>16, <1>17, <1>18, <1>19, <1>20, <1>21, <1>22

(* An image that is not the running one and that a client may roll back is *)
(* nobody else's.                                                          *)
LEMMA SnapIsOwn ==
    ASSUME TypeInv, ControlInv, NEW c \in Client, NEW d \in Client, c # d,
           HasSnap(d), job[d].target # running,
           pc[c] \in Holds \cup {"activating", "relocking"}
    PROVE  job[d].target \notin {job[c].target, job[c].root}
<1> USE DEF Holds, Guarded, HasSnap
<1>1. /\ pc[c] # "none" /\ pc[d] # "none" /\ job[c] \in Jobs
      /\ job[d].root = job[d].target /\ lock[job[d].target] = d
    BY DEF TypeInv, JobsOK, ControlInv, LockInv, RootInv
<1>2. CASE job[c].mode = "direct"
    BY <1>1, <1>2 DEF ControlInv, LockInv, RootInv
<1>3. CASE job[c].mode = "new"
    <2>1. job[c].target = running
        BY <1>3 DEF ControlInv, TargetInv, InProgress
    <2>2. CASE pc[c] \in AtRoot
        BY <1>1, <1>3, <2>1, <2>2 DEF ControlInv, CloneInv
    <2>3. CASE pc[c] \notin AtRoot
        BY <2>1, <2>3 DEF AtRoot, ControlInv, RootInv
    <2> QED
        BY <2>2, <2>3
<1> QED
    BY <1>1, <1>2, <1>3 DEF Jobs

\* A rollback restores nothing but what the client itself did and recorded.
RecordInv ==
    /\ ToldInv /\ OpenInv /\ SnapHistInv
    /\ "children" \notin Faults => EndIsRecorded
    /\ "activate" \notin Faults => TrueInv
    /\ "rollback" \notin Faults => CleanInv

(* What a step that is no rollback does to the invariant.                  *)
LEMMA RecordGrows ==
    ASSUME TypeInv, TypeInv', ControlInv, WorkInv, RecordInv, NEW c \in Client,
           Logs(c), Grows(c), Others(c), Itself(c), Snapshot(c),
           Rollback(c) => "rollback" \in Faults,
           pc'[c] = "ended" => \/ EndLogged(c) \/ "children" \in Faults,
           pc'[c] = "relocking" => \/ c \in open' /\ "activate" \in Faults
                                   \/ c \notin open' /\ EndLogged(c)
    PROVE  RecordInv'
<1>b. /\ EnvsOK /\ ClientsOK /\ JobsOK /\ EnvsOK' /\ ClientsOK' /\ JobsOK'
      /\ Fresh \notin DOMAIN be
    BY FreshFacts DEF TypeInv
<1>c. SnapInv /\ DoneInv /\ ToldInv /\ OpenInv /\ SnapHistInv
    BY DEF WorkInv, RecordInv
<1>d. DOMAIN be \subseteq DOMAIN be'
    BY DEF Grows, CopiesWork
<1>e. \A d \in Client : IsRecorded(d) => IsRecorded(d)'
    BY <1>d DEF Logs, IsRecorded
<1>f. EndLogged(c) => (c \in open => IsRecorded(c)')
    BY <1>d DEF EndLogged, IsRecorded
<1>1. ToldInv'
    <2>1. told[c] = "nothing"
        BY <1>b, <1>c DEF ToldInv, Itself
    <2>2. told'[c] # "nothing" => pc'[c] = "ended"
        BY <2>1 DEF Itself
    <2>3. told'[c] = "unmodified" => job'[c].mode = "new"
        BY <1>b, <2>1 DEF Itself, JobsOK, NoJob
    <2> QED
        BY <1>c, <2>2, <2>3 DEF ToldInv, Others
<1>2. OpenInv'
    <2>1. ASSUME NEW d \in Client, d # c
          PROVE  /\ InProgress(d)' /\ pc'[d] # "relocking" => d \in open'
                 /\ pc'[d] = "relocking" => d \in open' \/ IsRecorded(d)'
                 /\ pc'[d] = "relocking" /\ "activate" \notin Faults => d \notin open'
        BY <1>c, <1>e, <2>1 DEF OpenInv, InProgress, Others
    <2>2. InProgress(c)' /\ pc'[c] # "relocking" => c \in open'
        BY DEF Itself, InProgress
    <2>3. pc'[c] = "relocking" /\ pc[c] # "relocking" => c \in open
        BY <1>c DEF OpenInv, InProgress, Itself
    <2>4. pc'[c] = "relocking" =>
              /\ c \in open' \/ IsRecorded(c)'
              /\ "activate" \notin Faults => c \notin open'
        BY <1>c, <1>e, <1>f, <2>3 DEF OpenInv
    <2> QED
        BY <2>1, <2>2, <2>4 DEF OpenInv
<1>3. SnapHistInv'
    <2> SUFFICES ASSUME NEW d \in Client, HasSnap(d)', job'[d].target # running',
                        NEW e \in Client \ {d}, NEW r \in {"ok", "failed"},
                        <<e, r>> \in be'[job'[d].target].hist, told'[e] # "locked"
                 PROVE  <<e, r>> \in snap'[d].hist
        BY DEF SnapHistInv
    <2>1. running' = running /\ told[c] # "locked"
        BY <1>c DEF Itself, ToldInv
    <2>2. told[e] # "locked"
        BY <2>1 DEF Others
    <2>3. CASE d # c
        <3>1. HasSnap(d) /\ job'[d] = job[d] /\ snap'[d] = snap[d]
            BY <2>3 DEF Others, HasSnap
        <3>2. job[d].target \in DOMAIN be
            BY <1>b, <3>1 DEF JobsOK, HasSnap, Guarded, Holds
        <3>3. CASE <<e, r>> \in be[job[d].target].hist
            BY <1>c, <2>1, <2>2, <3>1, <3>3 DEF SnapHistInv
        <3>4. CASE <<e, r>> \notin be[job[d].target].hist
            <4>1. /\ e = c /\ job[d].target \in {job[c].target, job[c].root}
                  /\ pc[c] \in Holds \cup {"activating", "relocking"} \/ told'[c] = "locked"
                BY <3>1, <3>2, <3>4 DEF Logs
            <4>2. job[d].target \notin {job[c].target, job[c].root}
                BY <2>1, <2>3, <3>1, <4>1, SnapIsOwn
            <4> QED
                BY <4>1, <4>2
        <3> QED
            BY <3>3, <3>4
    <2>4. CASE d = c
        <3>1. CASE HasSnap(c) /\ snap'[c] = snap[c]
            <4>1. job'[c].target = job[c].target /\ job[c].target \in DOMAIN be
                BY <1>b, <3>1 DEF Itself, JobsOK, HasSnap, Guarded, Holds
            <4>2. <<e, r>> \in be[job[c].target].hist
                BY <2>4, <4>1 DEF Logs
            <4> QED
                BY <1>c, <2>1, <2>2, <2>4, <3>1, <4>1, <4>2 DEF SnapHistInv
        <3>2. CASE snap'[c] = be[job[c].target] /\ be' = be
            <4>1. pc[c] # "none"
                BY <1>b, <2>4, <3>2 DEF Itself, HasSnap, Guarded, Holds
            <4> QED
                BY <2>4, <3>2, <4>1 DEF Itself
        <3> QED
            BY <2>4, <3>1, <3>2 DEF Snapshot
    <2> QED
        BY <2>3, <2>4
<1>4. ASSUME "children" \notin Faults PROVE EndIsRecorded'
    <2> SUFFICES ASSUME NEW d \in Client, pc'[d] = "ended", told'[d] # "locked"
                 PROVE  IsRecorded(d)'
        BY DEF EndIsRecorded, IsRecorded
    <2>1. CASE d # c
        <3>1. IsRecorded(d)
            BY <1>4, <2>1 DEF RecordInv, EndIsRecorded, IsRecorded, Others
        <3> QED
            BY <1>e, <3>1
    <2>2. CASE d = c
        <3>1. EndLogged(c) /\ pc[c] # "none"
            BY <1>4, <2>2 DEF Itself
        <3>2. c \in open \/ IsRecorded(c)
            BY <1>c, <3>1 DEF OpenInv, InProgress, Itself
        <3> QED
            BY <1>e, <1>f, <2>2, <3>1, <3>2
    <2> QED
        BY <2>1, <2>2
<1>5. ASSUME "activate" \notin Faults PROVE TrueInv'
    <2>0. TrueInv
        BY <1>5 DEF RecordInv
    <2>1. ASSUME NEW b \in DOMAIN be, NEW d \in Client, <<d, "ok">> \in be'[b].hist
          PROVE  d \in be'[b].done
        <3>1. CASE <<d, "ok">> \in be[b].hist
            BY <2>0, <3>1 DEF TrueInv, Grows
        <3>2. CASE <<d, "ok">> \notin be[b].hist
            <4>1. /\ d = c
                  /\ \/ pc[c] \in {"finishing", "activating"} /\ b = job[c].root
                     \/ pc[c] = "relocking" /\ c \in open
                BY <2>1, <3>2 DEF Logs
            <4>2. c \in be[b].done
                BY <1>5, <1>c, <4>1 DEF OpenInv, DoneInv
            <4> QED
                BY <4>1, <4>2 DEF Grows
        <3> QED
            BY <3>1, <3>2
    <2>2. ASSUME NEW image \in Images, image = be[job[c].target] \/ image = snap[c],
                 pc[c] # "none", CopiesWork(image),
                 NEW d \in Client, <<d, "ok">> \in be'[Fresh].hist
          PROVE  d \in be'[Fresh].done
        <3>1. be'[Fresh].hist = image.hist /\ be'[Fresh].done = image.done
            BY <2>2 DEF CopiesWork
        <3>2. job[c].target \in DOMAIN be
            BY <1>b, <2>2 DEF JobsOK
        <3> QED
            BY <2>0, <2>2, <3>1, <3>2 DEF TrueInv
    <2>3. ASSUME NEW b \in DOMAIN be', NEW d \in Client, <<d, "ok">> \in be'[b].hist
          PROVE  d \in be'[b].done
        <3>1. CASE b \in DOMAIN be
            BY <2>1, <2>3, <3>1
        <3>2. CASE b \notin DOMAIN be
            <4>1. /\ pc[c] # "none"
                  /\ \E image \in Images : /\ image = be[job[c].target] \/ image = snap[c]
                                           /\ CopiesWork(image)
                BY <2>3, <3>2 DEF Grows
            <4>2. b = Fresh
                BY <2>3, <3>2, <4>1 DEF CopiesWork
            <4> QED
                BY <2>2, <2>3, <4>1, <4>2
        <3> QED
            BY <3>1, <3>2
    <2>4. ASSUME NEW d \in Client, NEW e \in Client, snap'[d] \in Images,
                 <<e, "ok">> \in snap'[d].hist
          PROVE  e \in snap'[d].done
        <3>1. CASE snap'[d] = snap[d]
            BY <2>0, <2>4, <3>1 DEF TrueInv
        <3>2. CASE d = c /\ pc[c] # "none" /\ snap'[c] = be[job[c].target]
            BY <1>b, <2>0, <2>4, <3>2 DEF TrueInv, JobsOK
        <3> QED
            BY <2>4, <3>1, <3>2, NoSnapIsNone DEF Others, Snapshot
    <2> QED
        BY <2>3, <2>4 DEF TrueInv
<1>6. ASSUME "rollback" \notin Faults PROVE CleanInv'
    <2> SUFFICES ASSUME NEW e \in Client, told'[e] = "restored"
                 PROVE  /\ e \notin be'[job'[e].target].done /\ e \notin be'[job'[e].target].half
                        /\ \A d \in Client : HasSnap(d)' /\ job'[d].target = job'[e].target =>
                               e \notin snap'[d].done /\ e \notin snap'[d].half
        BY DEF CleanInv
    <2>0. CleanInv
        BY <1>6 DEF RecordInv
    <2>1. e # c /\ told[e] = "restored" /\ job'[e] = job[e] /\ pc[e] = "ended"
        BY <1>6, <1>c DEF Itself, Others, ToldInv
    <2>2. job[e].target \in DOMAIN be
        BY <1>b, <2>1 DEF JobsOK
    <2>3. e \notin be'[job[e].target].done /\ e \notin be'[job[e].target].half
        BY <2>0, <2>1, <2>2 DEF CleanInv, Grows
    <2>4. ASSUME NEW d \in Client, HasSnap(d)', job'[d].target = job[e].target
          PROVE  e \notin snap'[d].done /\ e \notin snap'[d].half
        <3>1. CASE HasSnap(d) /\ snap'[d] = snap[d] /\ job'[d].target = job[d].target
            BY <2>0, <2>1, <2>4, <3>1 DEF CleanInv
        <3>2. CASE d = c /\ pc[c] # "none" /\ snap'[c] = be[job[c].target]
            BY <2>0, <2>1, <2>4, <3>2 DEF CleanInv, Itself
        <3>3. CASE d # c
            BY <2>4, <3>1, <3>3 DEF Others, HasSnap
        <3>4. CASE d = c
            <4>1. pc[c] # "none"
                BY <2>4, <3>4 DEF Itself, HasSnap, Guarded, Holds
            <4> QED
                BY <2>4, <3>1, <3>2, <3>4, <4>1 DEF Itself, Snapshot
        <3> QED
            BY <3>3, <3>4
    <2> QED
        BY <2>1, <2>3, <2>4
<1> QED
    BY <1>1, <1>2, <1>3, <1>4, <1>5, <1>6 DEF RecordInv

(* A rollback takes the client's own work back, and then records its end.  *)
LEMMA RecordRollback ==
    ASSUME TypeInv, TypeInv', ControlInv, WorkInv, RecordInv, NEW c \in Client, Rollback(c)
    PROVE  RecordInv'
<1>b. /\ EnvsOK /\ ClientsOK /\ JobsOK /\ EnvsOK' /\ ClientsOK' /\ JobsOK'
    BY DEF TypeInv
<1>c. SnapInv /\ DoneInv /\ ToldInv /\ OpenInv /\ SnapHistInv
    BY DEF WorkInv, RecordInv
<1>1. /\ pc[c] = "failing" /\ pc'[c] = "ended" /\ HasSnap(c) /\ job[c].target # running
      /\ told'[c] = "restored" /\ UNCHANGED job
      /\ snap' = [snap EXCEPT ![c] = NoSnap]
    BY <1>b DEF Rollback, End, Goto, ClientsOK, HasSnap, Guarded, Holds, Live, InBe
<1>2. /\ c \in open /\ job[c].target \in DOMAIN be /\ snap[c] \in Images
      /\ pc[c] \in Holds
    BY <1>b, <1>c, <1>1 DEF OpenInv, InProgress, JobsOK, Holds
<1>3. Others(c) /\ Itself(c) /\ Snapshot(c)
    BY <1>c, TurnStep
<1>4. CASE /\ KeepsWork /\ RecordsAt(job[c].target, c, "failed")
           /\ "rollback" \in Faults
    <2>1. Grows(c)
        BY <1>4 DEF KeepsWork, SameWork, Grows
    <2>2. Logs(c) /\ EndLogged(c)
        BY <1>1, <1>2, <1>4, RecordsAtLogs DEF InProgress, EndLogged
    <2> QED
        BY <1>1, <1>3, <1>4, <2>1, <2>2, RecordGrows
<1>5. CASE RestoresWork(c) /\ RestoresHist(c)
    <2>1. DOMAIN be' = DOMAIN be
        BY <1>5 DEF RestoresWork
    <2>2. /\ \A x \in DOMAIN be \ {job[c].target} : be'[x].hist = be[x].hist
          /\ be'[job[c].target].hist = snap[c].hist \cup {<<c, "failed">>}
        BY <1>2, <1>5 DEF RestoresHist
    <2>3. ASSUME NEW d \in Client, d # c, told[d] # "locked", IsRecorded(d)
          PROVE  IsRecorded(d)'
        <3>1. PICK b \in DOMAIN be, r \in {"ok", "failed"} : <<d, r>> \in be[b].hist
            BY <2>3 DEF IsRecorded
        <3>2. CASE b = job[c].target
            <4>1. <<d, r>> \in snap[c].hist
                BY <1>c, <1>1, <2>3, <3>1, <3>2 DEF SnapHistInv
            <4> QED
                BY <2>1, <2>2, <3>1, <3>2, <4>1 DEF IsRecorded
        <3>3. CASE b # job[c].target
            BY <2>1, <2>2, <3>1, <3>3 DEF IsRecorded
        <3> QED
            BY <3>2, <3>3
    <2>4. IsRecorded(c)'
        BY <1>2, <2>1, <2>2 DEF IsRecorded
    <2>5. ToldInv'
        BY <1>c, <1>1, <1>3 DEF ToldInv, Others
    <2>6. OpenInv'
        <3>1. ASSUME NEW d \in Client, d # c
              PROVE  /\ InProgress(d)' /\ pc'[d] # "relocking" => d \in open'
                     /\ pc'[d] = "relocking" => d \in open' \/ IsRecorded(d)'
                     /\ pc'[d] = "relocking" /\ "activate" \notin Faults => d \notin open'
            BY <1>c, <1>3, <2>3, <3>1 DEF OpenInv, ToldInv, InProgress, Others
        <3> QED
            BY <1>1, <3>1 DEF OpenInv, InProgress
    <2>7. SnapHistInv'
        <3> SUFFICES ASSUME NEW d \in Client, HasSnap(d)', job'[d].target # running',
                            NEW e \in Client \ {d}, NEW r \in {"ok", "failed"},
                            <<e, r>> \in be'[job'[d].target].hist, told'[e] # "locked"
                     PROVE  <<e, r>> \in snap'[d].hist
            BY DEF SnapHistInv
        <3>1. d # c
            BY <1>1 DEF HasSnap, Guarded, Holds
        <3>2. /\ HasSnap(d) /\ job'[d] = job[d] /\ snap'[d] = snap[d] /\ running' = running
              /\ pc[d] # "none"
            BY <1>3, <3>1 DEF Others, Itself, HasSnap, Guarded, Holds
        <3>3. job[d].target # job[c].target /\ job[d].target \in DOMAIN be
            BY <1>b, <1>2, <3>1, <3>2, SnapIsOwn DEF JobsOK
        <3>4. told[e] # "locked"
            BY <1>c, <1>1, <1>3 DEF Others, ToldInv
        <3> QED
            BY <1>c, <2>2, <3>2, <3>3, <3>4 DEF SnapHistInv
    <2>8. ASSUME "children" \notin Faults PROVE EndIsRecorded'
        <3>1. \A d \in Client \ {c} : pc'[d] = "ended" /\ told'[d] # "locked" => IsRecorded(d)'
            BY <1>3, <2>3, <2>8 DEF RecordInv, EndIsRecorded, IsRecorded, Others
        <3> QED
            BY <2>4, <3>1 DEF EndIsRecorded, IsRecorded
    <2>9. ASSUME "activate" \notin Faults PROVE TrueInv'
        <3>0. TrueInv
            BY <2>9 DEF RecordInv
        <3>1. \A b \in DOMAIN be' : \A d \in Client :
                  <<d, "ok">> \in be'[b].hist => d \in be'[b].done
            BY <1>2, <1>5, <2>1, <2>2, <3>0 DEF TrueInv, RestoresWork, SameWork
        <3>2. \A d, e \in Client : snap'[d] \in Images /\ <<e, "ok">> \in snap'[d].hist
                                   => e \in snap'[d].done
            BY <1>b, <1>1, <3>0, NoSnapIsNone DEF TrueInv, EnvsOK
        <3> QED
            BY <3>1, <3>2 DEF TrueInv
    <2>10. ASSUME "rollback" \notin Faults PROVE CleanInv'
        <3> SUFFICES ASSUME NEW e \in Client, told'[e] = "restored"
                     PROVE  /\ e \notin be'[job[e].target].done
                            /\ e \notin be'[job[e].target].half
                            /\ \A d \in Client : HasSnap(d)' /\ job[d].target = job[e].target
                                   => e \notin snap'[d].done /\ e \notin snap'[d].half
            BY <1>1 DEF CleanInv
        <3>0. CleanInv
            BY <2>10 DEF RecordInv
        <3>1. \A d \in Client : HasSnap(d)' => d # c /\ HasSnap(d) /\ snap'[d] = snap[d]
            BY <1>1, <1>3 DEF Others, HasSnap, Guarded, Holds
        <3>2. CASE e # c
            <4>1. told[e] = "restored" /\ pc[e] = "ended"
                BY <1>c, <1>3, <3>2 DEF Others, ToldInv
            <4>2. job[e].target \in DOMAIN be
                BY <1>b, <4>1 DEF JobsOK
            <4>3. e \notin be'[job[e].target].done /\ e \notin be'[job[e].target].half
                BY <1>1, <1>5, <3>0, <4>1, <4>2 DEF CleanInv, RestoresWork, SameWork
            <4> QED
                BY <3>0, <3>1, <4>1, <4>3 DEF CleanInv
        <3>3. CASE e = c
            <4>1. c \notin be'[job[c].target].done /\ c \notin be'[job[c].target].half
                BY <1>c, <1>2, <1>5 DEF SnapInv, RestoresWork
            <4>2. \A d \in Client : HasSnap(d)' => job[d].target # job[c].target
                BY <1>1, <1>2, <3>1, SnapIsOwn
            <4> QED
                BY <3>3, <4>1, <4>2
        <3> QED
            BY <3>2, <3>3
    <2> QED
        BY <2>5, <2>6, <2>7, <2>8, <2>9, <2>10 DEF RecordInv
<1> QED
    BY <1>4, <1>5, RollbackWork

(* A reboot ends all operations under way, and touches no image.           *)
LEMMA RecordReboot ==
    ASSUME TypeInv, RecordInv, Reboot
    PROVE  RecordInv'
<1> USE DEF Reboot
<1>1. ToldInv /\ OpenInv /\ pc \in [Client -> Locations]
    BY DEF RecordInv, TypeInv, ClientsOK
<1>2. \A d \in Client : /\ pc'[d] \in {"none", "ended", "dead"}
                        /\ pc'[d] = "ended" <=> pc[d] = "ended"
    BY <1>1 DEF InProgress
<1>3. ToldInv' /\ OpenInv' /\ SnapHistInv'
    BY <1>1, <1>2 DEF ToldInv, OpenInv, InProgress, SnapHistInv, HasSnap, Guarded, Holds
<1>4. "children" \notin Faults => EndIsRecorded'
    BY <1>2 DEF RecordInv, EndIsRecorded
<1>5. "activate" \notin Faults => TrueInv'
    BY DEF RecordInv, TrueInv
<1>6. "rollback" \notin Faults => CleanInv'
    BY <1>2 DEF RecordInv, CleanInv, HasSnap, Guarded, Holds
<1> QED
    BY <1>3, <1>4, <1>5, <1>6 DEF RecordInv

(* Every step keeps what the histories and the users were told true.       *)
LEMMA RecordStep ==
    TypeInv /\ ControlInv /\ WorkInv /\ RecordInv /\ [Next]_vars => RecordInv'
<1> SUFFICES ASSUME TypeInv, ControlInv, WorkInv, RecordInv, [Next]_vars
             PROVE  RecordInv'
    OBVIOUS
<1>0. TypeInv' /\ OpenInv
    BY TypeStep DEF RecordInv
<1>1. CASE UNCHANGED vars
    BY <1>1 DEF vars, RecordInv, ToldInv, OpenInv, SnapHistInv, EndIsRecorded, TrueInv,
       CleanInv, HasSnap, IsRecorded, InProgress
<1>2. ASSUME NEW c \in Client, Rollback(c) PROVE RecordInv'
    BY <1>0, <1>2, RecordRollback
<1>3. CASE Reboot
    BY <1>3, RecordReboot
<1>4. ASSUME NEW c \in Client,
             \/ Plan(c) \/ LockImage(c) \/ LockFails(c) \/ MakeBootEnv(c)
             \/ CreateBackupBe(c) \/ InitImageRecovery(c)
             \/ Execute(c) \/ ExecuteRefuses(c) \/ ActionFails(c) \/ ActionsDone(c)
             \/ IndexFails(c)
             \/ RestoreImage(c) \/ RestoreLive(c) \/ RestoreNothing(c)
             \/ Recurse(c) \/ FinishDirect(c) \/ UnlockClone(c)
             \/ Activate(c) \/ ActivateRaises(c) \/ Relock(c)
             \/ Crash(c)
      PROVE  RecordInv'
    <2>1. Grows(c)
        BY <1>4, GrowStep
    <2>2. Others(c) /\ Itself(c) /\ Snapshot(c)
        BY <1>0, <1>4, TurnStep
    <2>3. /\ Logs(c)
          /\ pc'[c] = "ended" => EndLogged(c) \/ "children" \in Faults
          /\ pc'[c] = "relocking" => \/ c \in open' /\ "activate" \in Faults
                                     \/ c \notin open' /\ EndLogged(c)
        BY <1>4, LogStep
    <2>4. CASE ~Rollback(c)
        BY <1>0, <2>1, <2>2, <2>3, <2>4, RecordGrows
    <2> QED
        BY <1>2, <2>4
<1> QED
    BY <1>1, <1>2, <1>3, <1>4 DEF Next

-----------------------------------------------------------------------------
IInv == TypeInv /\ ControlInv /\ WorkInv /\ RecordInv

(* Nothing is planned, done or recorded in the beginning.                  *)
LEMMA InitInv == Init => IInv
<1> SUFFICES ASSUME Init PROVE IInv
    OBVIOUS
<1> USE DEF Init
<1>1. DOMAIN be = 0 .. 1 /\ \A b \in DOMAIN be : be[b] = Empty
    BY DEF Alternate
<1>2. Fresh = 2
    <2>1. IsFiniteSet({0}) /\ Cardinality({0}) = 1
        BY FS_Singleton
    <2>2. Cardinality({0} \cup {1}) = Cardinality({0}) + 1
        BY <2>1, FS_AddElement, 1 \notin {0}, Zenon
    <2>3. DOMAIN be = {0} \cup {1}
        BY DEF Alternate
    <2> QED
        BY <2>1, <2>2, <2>3 DEF Fresh
<1>3. Empty \in Images
    BY DEF Empty, Images
<1>4. BesInv
    BY <1>1, <1>2, BoundAssumption DEF BesInv
<1>5. EnvsOK
    BY <1>1, <1>3 DEF EnvsOK
<1>6. ClientsOK /\ JobsOK
    BY DEF ClientsOK, JobsOK, Locations, Answers, HasSnap, Guarded, Holds
<1>7. ControlInv
    BY DEF ControlInv, LockInv, RootInv, TargetInv, CloneInv, InProgress, Holds, AtRoot,
       Alternate
<1>8. WorkInv
    BY <1>1, NoSnapIsNone DEF WorkInv, BeforeInv, NewInv, HiddenInv, QuietInv, SnapInv,
       DoneInv, HasSnap, Guarded, Holds, Empty
<1>9. RecordInv
    BY <1>1, NoSnapIsNone DEF RecordInv, ToldInv, OpenInv, SnapHistInv, EndIsRecorded,
       TrueInv, CleanInv, InProgress, HasSnap, Guarded, Holds, Empty
<1> QED
    BY <1>4, <1>5, <1>6, <1>7, <1>8, <1>9 DEF IInv, TypeInv

(* The inductive invariant holds in every state.                           *)
THEOREM Invariance == Spec => []IInv
<1>1. IInv /\ [Next]_vars => IInv'
    BY TypeStep, ControlStep, WorkStep, RecordStep DEF IInv
<1> QED
    BY InitInv, <1>1, PTL DEF Spec

(* The boot environments are numbered without a gap and hold images; the   *)
(* running one and the one of the next boot exist, and so do the target    *)
(* and the root of every client's operation.                               *)
THEOREM Typing == Spec => []TypeInv
<1>1. IInv => TypeInv
    BY DEF IInv
<1> QED
    BY Invariance, <1>1, PTL

(* An operation that makes a new boot environment never changes the one it *)
(* was started in, and the boot environment of the next boot is never a    *)
(* clone that such an operation left half done.                            *)
THEOREM NewBeCorrect == Spec => []NewBeIsAllOrNothing
<1>1. IInv => NewBeIsAllOrNothing
    <2> SUFFICES ASSUME IInv, NEW c \in Client, job[c].mode = "new"
                 PROVE  /\ c \notin be[job[c].target].done \cup be[job[c].target].half
                        /\ c \notin be[active].half
        BY DEF NewBeIsAllOrNothing
    <2>1. pc[c] # "none"
        BY DEF IInv, TypeInv, JobsOK, NoJob
    <2>2. c \notin be[job[c].target].done /\ c \notin be[job[c].target].half
        BY <2>1 DEF IInv, WorkInv, NewInv
    <2>3. c \notin be[active].half
        BY <2>1 DEF IInv, WorkInv, HiddenInv, TypeInv, EnvsOK
    <2> QED
        BY <2>2, <2>3
<1> QED
    BY Invariance, <1>1, PTL

(* No backup, clone or restored snapshot is made of an image while another *)
(* client changes it.                                                      *)
THEOREM CopiesCorrect == Spec => []CopiesAreQuiet
<1>1. IInv => CopiesAreQuiet
    BY DEF IInv, WorkInv, QuietInv, CopiesAreQuiet
<1> QED
    BY Invariance, <1>1, PTL

(* A rollback takes away nothing that another client has completed, and no *)
(* other step takes anything away.                                         *)
THEOREM CompletedCorrect == Spec => CompletedIsKept
<1> DEFINE Kept == \A b \in DOMAIN be, c \in Client :
               c \in be[b].done /\ pc[c] \in {"ended", "dead"} => c \in be'[b].done
<1>1. IInv /\ [Next]_vars => [Kept]_vars
    <2> SUFFICES ASSUME IInv, Next, NEW b \in DOMAIN be, NEW d \in Client,
                        d \in be[b].done, pc[d] \in {"ended", "dead"}
                 PROVE  d \in be'[b].done
        OBVIOUS
    <2>1. ASSUME NEW c \in Client,
             \/ Plan(c) \/ LockImage(c) \/ LockFails(c) \/ MakeBootEnv(c)
             \/ CreateBackupBe(c) \/ InitImageRecovery(c)
             \/ Execute(c) \/ ExecuteRefuses(c) \/ ActionFails(c) \/ ActionsDone(c)
             \/ IndexFails(c)
             \/ RestoreImage(c) \/ RestoreLive(c) \/ RestoreNothing(c)
             \/ Recurse(c) \/ FinishDirect(c) \/ UnlockClone(c)
             \/ Activate(c) \/ ActivateRaises(c) \/ Relock(c)
             \/ Crash(c)
          PROVE  d \in be'[b].done
        <3>1. Grows(c)
            BY <2>1, GrowStep DEF IInv
        <3> QED
            BY <3>1 DEF Grows
    <2>2. ASSUME NEW c \in Client, Rollback(c) PROVE d \in be'[b].done
        <3>1. pc[c] = "failing" /\ HasSnap(c) /\ c # d
            BY <2>2 DEF Rollback, HasSnap, Guarded, Holds, InBe
        <3>2. KeepsWork \/ RestoresWork(c)
            BY <2>2, RollbackWork DEF IInv
        <3>3. CASE KeepsWork
            BY <3>3 DEF KeepsWork, SameWork
        <3>4. CASE RestoresWork(c) /\ b # job[c].target
            BY <3>4 DEF RestoresWork, SameWork
        <3>5. CASE RestoresWork(c) /\ b = job[c].target
            BY <3>1, <3>5 DEF RestoresWork, IInv, WorkInv, SnapInv
        <3> QED
            BY <3>2, <3>3, <3>4, <3>5
    <2>3. CASE Reboot
        BY <2>3 DEF Reboot
    <2> QED
        BY <2>1, <2>2, <2>3 DEF Next
<1> QED
    BY Invariance, <1>1, PTL DEF Spec, CompletedIsKept

(* If no linked image fails, every operation that got its lock and was not *)
(* killed is recorded when it has ended, also after a rollback.            *)
THEOREM EndCorrect == ASSUME "children" \notin Faults PROVE Spec => []EndIsRecorded
<1>1. IInv => EndIsRecorded
    BY DEF IInv, RecordInv
<1> QED
    BY Invariance, <1>1, PTL

(* If every clone that is to be activated can be, what a history records   *)
(* as a success was done in that image.                                    *)
THEOREM RecordCorrect == ASSUME "activate" \notin Faults PROVE Spec => []RecordIsTrue
<1>1. IInv => RecordIsTrue
    BY DEF IInv, RecordInv, TrueInv, RecordIsTrue
<1> QED
    BY Invariance, <1>1, PTL

(* If every rollback succeeds, a user who is told that the image has been  *)
(* restored or was not modified finds nothing of the operation in it.      *)
THEOREM RestoredCorrect == ASSUME "rollback" \notin Faults PROVE Spec => []RestoredIsClean
<1>1. IInv => RestoredIsClean
    <2> SUFFICES ASSUME IInv, NEW c \in Client, told[c] \in {"restored", "unmodified"}
                 PROVE  c \notin be[job[c].target].done \cup be[job[c].target].half
        BY DEF RestoredIsClean
    <2>1. CASE told[c] = "restored"
        BY <2>1 DEF IInv, RecordInv, CleanInv
    <2>2. CASE told[c] = "unmodified"
        BY <2>2 DEF IInv, RecordInv, ToldInv, WorkInv, NewInv
    <2> QED
        BY <2>1, <2>2
<1> QED
    BY Invariance, <1>1, PTL

=============================================================================
