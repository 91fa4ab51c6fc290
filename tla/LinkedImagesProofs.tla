--------------------------- MODULE LinkedImagesProofs ---------------------------
(***************************************************************************)
(* Proofs about LinkedImages, for any finite set of children and any limit *)
(* on how many run at once.                                                *)
(***************************************************************************)
EXTENDS LinkedImages, TLAPS

(* The children of a call of __children_op_vec() are waiting to be set up, *)
(* set up, running, or have a result; only those in the middle have a      *)
(* process or threads.                                                     *)
Partition ==
    /\ todo \cup ready \cup running \subseteq lics
    /\ todo \cap ready = {} /\ todo \cap running = {} /\ ready \cap running = {}
    /\ events \subseteq running
    /\ pc # "setup" => todo = {}
    /\ stage = "commit" => ready = {} /\ running = {} /\ todo = lics
    /\ \A c \in Child :
          /\ rv[c] = "none" <=> c \notin lics \/ c \in todo \cup ready \cup running
          /\ c \notin ready \cup running => server[c] = "none" /\ caller[c] = "none"
          /\ c \in ready => caller[c] = "none"
          /\ early[c] # "none" =>
                stage \in {"pubcheck", "plan"} /\ pc \in {"setup", "sweep"} /\ c \in ready

(* Before the execution in the children no image is changed; during it a   *)
(* result "ok" means a changed image and official metadata.                *)
Images ==
    /\ stage # "execute" => \A c \in Child : image[c] = "old"
    /\ stage = "execute" =>
          \A c \in Child :
             /\ "nop" \notin {rv[c], server[c], caller[c]}
             /\ "ok" \in {rv[c], server[c], caller[c]} => image[c] = "new" /\ c \in official
             /\ server[c] = "busy" => image[c] # "old"
             /\ image[c] = "partial" => c \in running \/ rv[c] = "fail"
             /\ c \notin lics => image[c] = "old"

IInv ==
    /\ TypeOK
    /\ stage \in ChildStages \cup {"commit"} => Partition /\ Images
    /\ DoneIsComplete

(* The invariant holds before the operation begins.                        *)
LEMMA InitIInv == Init => IInv
BY DEF Init, IInv, TypeOK, Partition, Images, DoneIsComplete, ChildStages, Stages, Results

(* Nothing happens.                                                        *)
LEMMA StutterIInv == IInv /\ UNCHANGED vars => IInv'
BY DEF IInv, TypeOK, Partition, Images, DoneIsComplete, ChildStages, Stages, Results, vars

(* The steps of a child, of its process and its threads.                   *)
LEMMA ChildIInv ==
    ASSUME IInv, NEW c \in Child,
           \/ ServerStep(c) \/ ServerProgress(c) \/ CallerEnds(c) \/ WaiterWrites(c)
    PROVE  IInv'
<1>1. CASE ServerBegins(c)
  BY <1>1 DEF IInv, TypeOK, Partition, Images, DoneIsComplete, ChildStages, Stages,
              Results, ServerBegins, parentVars, childVars
<1>2. CASE ServerDies(c)
  BY <1>2 DEF IInv, TypeOK, Partition, Images, DoneIsComplete, ChildStages, Stages,
              Results, ServerDies, parentVars, childVars
<1>3. ASSUME NEW r \in Results, ServerReplies(c, r)
      PROVE  IInv'
  BY <1>3 DEF IInv, TypeOK, Partition, Images, DoneIsComplete, ChildStages, Stages,
              Results, ServerReplies, parentVars, childVars
<1>4. CASE ServerProgress(c)
  BY <1>4 DEF IInv, TypeOK, Partition, Images, DoneIsComplete, ChildStages, Stages,
              Results, ServerProgress, parentVars, childVars
<1>5. CASE CallerEnds(c)
  BY <1>5 DEF IInv, TypeOK, Partition, Images, DoneIsComplete, ChildStages, Stages,
              Results, CallerEnds, parentVars, childVars
<1>6. CASE WaiterWrites(c)
  BY <1>6 DEF IInv, TypeOK, Partition, Images, DoneIsComplete, ChildStages, Stages,
              Results, WaiterWrites, parentVars, childVars
<1> QED
  BY <1>1, <1>2, <1>3, <1>4, <1>5, <1>6 DEF ServerStep

(* Shutting the remote side of some children down keeps the types.         *)
LEMMA FiniTypes ==
    ASSUME TypeOK, NEW cs, Fini(cs)
    PROVE  /\ remote' \in [Child -> {"idle", "setup", "started"}]
           /\ server' \in [Child -> {"none", "waiting", "busy"} \cup Results]
           /\ caller' \in [Child -> Results \cup {"none", "calling"}]
           /\ waiter' \in [Child -> {"none", "joining", "exited"}]
           /\ pipe' \in [Child -> BOOLEAN]
<1>1. pipe' \in [Child -> BOOLEAN]
  BY Zenon DEF TypeOK, Fini
<1> QED
  BY <1>1 DEF TypeOK, Fini

(* The steps of the parent that concern one child.                         *)
LEMMA ParentChildIInv ==
    ASSUME IInv, NEW c \in Child,
           \/ SetupEarly(c, "nop") \/ SetupEarly(c, "fail") \/ SetupRemote(c)
           \/ ForkFails(c) \/ Sweep(c) \/ StartChild(c) \/ Drain(c)
           \/ NotDone(c) \/ Done(c)
    PROVE  IInv'
<1>1. CASE SetupEarly(c, "nop")
  BY <1>1 DEF IInv, TypeOK, Partition, Images, DoneIsComplete, ChildStages, Stages,
              Results, In, parentVars, remoteVars, childVars, SetupEarly
<1>2. CASE SetupEarly(c, "fail")
  BY <1>2 DEF IInv, TypeOK, Partition, Images, DoneIsComplete, ChildStages, Stages,
              Results, In, parentVars, remoteVars, childVars, SetupEarly
<1>3. CASE SetupRemote(c)
  BY <1>3 DEF IInv, TypeOK, Partition, Images, DoneIsComplete, ChildStages, Stages,
              Results, In, parentVars, remoteVars, childVars, SetupRemote
<1>4. CASE ForkFails(c)
  BY <1>4 DEF IInv, TypeOK, Partition, Images, DoneIsComplete, ChildStages, Stages,
              Results, In, parentVars, remoteVars, childVars, ForkFails
<1>5. CASE Sweep(c)
  <2> USE <1>5 DEF IInv, In, ChildStages, Sweep, FinishChild, childVars
  <2>1. CASE early[c] = "fail" /\ FailFast
    <3>0. PICK cs : Fini(cs)
      BY <2>1 DEF Abort, TypeOK
    <3>1. stage' = "raised" /\ TypeOK'
      BY <2>1, <3>0, FiniTypes DEF TypeOK, Stages, Results, Abort
    <3> QED
      BY <3>1 DEF DoneIsComplete
  <2>2. CASE ~(early[c] = "fail" /\ FailFast)
    <3>1. TypeOK'
      BY <2>2, FiniTypes DEF TypeOK, Stages, Results
    <3>a. \A d \in Child :
             /\ server'[d] = IF d = c THEN "none" ELSE server[d]
             /\ caller'[d] = IF d = c THEN "none" ELSE caller[d]
             /\ rv'[d] = IF d = c THEN early[c] ELSE rv[d]
             /\ early'[d] = IF d = c THEN "none" ELSE early[d]
      <4>1. /\ Fini({c})
            /\ rv' = [rv EXCEPT ![c] = early[c]]
            /\ early' = [early EXCEPT ![c] = "none"]
        BY <2>2
      <4>2. /\ rv \in [Child -> Results \cup {"none"}]
            /\ early \in [Child -> Results \cup {"none"}]
        BY DEF TypeOK
      <4> HIDE DEF IInv, FinishChild
      <4> QED
        BY <4>1, <4>2 DEF Fini
    <3>b. stage' = stage /\ early[c] \in Results /\ Partition /\ Images
      BY <2>2 DEF TypeOK, Results
    <3>2. Partition'
      <4> HIDE <1>5 DEF IInv, FinishChild
      <4> QED
        BY <1>5, <3>a, <3>b DEF Results, Partition
    <3>3. Images'
      <4> HIDE DEF IInv, FinishChild
      <4> QED
        BY <3>a, <3>b DEF Results, Partition, Images
    <3> QED
      BY <3>1, <3>2, <3>3, <3>b DEF DoneIsComplete
  <2> QED
    BY <2>1, <2>2
<1>6. CASE StartChild(c)
  <2>1. TypeOK'
    BY <1>6 DEF IInv, In, ChildStages, StartChild, childVars, TypeOK, Stages, Results
  <2>2. stage' \in ChildStages /\ Partition'
    BY <1>6 DEF IInv, In, ChildStages, StartChild, childVars, TypeOK, Results, Partition, Stages
  <2>3. Images'
    BY <1>6 DEF IInv, In, ChildStages, StartChild, childVars, TypeOK, Results, Partition, Images, Stages
  <2> QED
    BY <2>1, <2>2, <2>3 DEF IInv, DoneIsComplete, ChildStages
<1>7. CASE Drain(c)
  BY <1>7 DEF IInv, TypeOK, Partition, Images, DoneIsComplete, ChildStages, Stages,
              Results, In, parentVars, remoteVars, childVars, Drain
<1>8. CASE NotDone(c)
  BY <1>8 DEF IInv, TypeOK, Partition, Images, DoneIsComplete, ChildStages, Stages,
              Results, In, parentVars, remoteVars, childVars, NotDone
<1>9. CASE Done(c)
  <2> USE <1>9 DEF IInv, In, ChildStages, Done, FinishChild, childVars
  <2>1. CASE caller[c] = "fail" /\ FailFast
    <3>0. PICK cs : Fini(cs)
      BY <2>1 DEF Abort, TypeOK
    <3>1. stage' = "raised" /\ TypeOK'
      BY <2>1, <3>0, FiniTypes DEF TypeOK, Stages, Results, Abort
    <3> QED
      BY <3>1 DEF DoneIsComplete
  <2>2. CASE ~(caller[c] = "fail" /\ FailFast)
    <3>1. TypeOK'
      BY <2>2, FiniTypes DEF TypeOK, Stages, Results
    <3>a. \A d \in Child :
             /\ server'[d] = IF d = c THEN "none" ELSE server[d]
             /\ caller'[d] = IF d = c THEN "none" ELSE caller[d]
             /\ rv'[d] = IF d = c THEN caller[c] ELSE rv[d]
             /\ early'[d] = IF d = c THEN "none" ELSE early[d]
      <4>1. /\ Fini({c})
            /\ rv' = [rv EXCEPT ![c] = caller[c]]
            /\ early' = [early EXCEPT ![c] = "none"]
        BY <2>2
      <4>2. /\ rv \in [Child -> Results \cup {"none"}]
            /\ early \in [Child -> Results \cup {"none"}]
        BY DEF TypeOK
      <4> HIDE DEF IInv, FinishChild
      <4> QED
        BY <4>1, <4>2 DEF Fini
    <3>b. stage' = stage /\ caller[c] \in Results /\ Partition /\ Images
      BY <2>2 DEF TypeOK, Results
    <3>2. Partition'
      <4> HIDE <1>9 DEF IInv, FinishChild
      <4> QED
        BY <1>9, <3>a, <3>b DEF Results, Partition
    <3>3. Images'
      <4> HIDE DEF IInv, FinishChild
      <4> QED
        BY <3>a, <3>b DEF Results, Partition, Images
    <3> QED
      BY <3>1, <3>2, <3>3, <3>b DEF DoneIsComplete
  <2> QED
    BY <2>1, <2>2
<1> QED
  BY <1>1, <1>2, <1>3, <1>4, <1>5, <1>6, <1>7, <1>8, <1>9

(* The steps of the parent from one part of its loop to the next.          *)
LEMMA ParentIInv ==
    ASSUME IInv,
           \/ AllSetUp \/ Swept \/ Started \/ Poll \/ EventsDone \/ StageDone
           \/ ExecuteParent
    PROVE  IInv'
<1>1. CASE AllSetUp
  BY <1>1 DEF IInv, TypeOK, Partition, Images, DoneIsComplete, ChildStages, Stages,
              Results, In, parentVars, remoteVars, childVars, AllSetUp
<1>2. CASE Swept
  BY <1>2 DEF IInv, TypeOK, Partition, Images, DoneIsComplete, ChildStages, Stages,
              Results, In, parentVars, remoteVars, childVars, Swept
<1>3. CASE Started
  BY <1>3 DEF IInv, TypeOK, Partition, Images, DoneIsComplete, ChildStages, Stages,
              Results, In, parentVars, remoteVars, childVars, Started
<1>4. CASE Poll
  BY <1>4 DEF IInv, TypeOK, Partition, Images, DoneIsComplete, ChildStages, Stages,
              Results, In, parentVars, remoteVars, childVars, Poll
<1>5. CASE EventsDone
  BY <1>5 DEF IInv, TypeOK, Partition, Images, DoneIsComplete, ChildStages, Stages,
              Results, In, parentVars, remoteVars, childVars, EventsDone
<1>6. CASE StageDone
  <2> USE <1>6 DEF IInv, In, ChildStages, StageDone, Following, remoteVars, childVars
  <2>1. TypeOK'
    BY DEF TypeOK, Stages, Results
  <2>2. stage' \in ChildStages \cup {"commit"} => Partition'
    BY DEF TypeOK, Results, Partition
  <2>3. stage' \in ChildStages \cup {"commit"} => Images'
    BY DEF TypeOK, Results, Partition, Images
  <2>4. DoneIsComplete'
    <3> SUFFICES ASSUME stage' = "done" PROVE DoneIsComplete'
      BY DEF DoneIsComplete
    <3>1. stage = "execute" /\ \A c \in lics : rv[c] = "ok"
      BY DEF TypeOK, Results, Partition, Images
    <3> QED
      BY <3>1 DEF TypeOK, Results, Partition, Images, DoneIsComplete
  <2> QED
    BY <2>1, <2>2, <2>3, <2>4
<1>7. CASE ExecuteParent
  BY <1>7 DEF IInv, TypeOK, Partition, Images, DoneIsComplete, ChildStages, Stages,
              Results, In, parentVars, remoteVars, childVars, ExecuteParent
<1> QED
  BY <1>1, <1>2, <1>3, <1>4, <1>5, <1>6, <1>7

(* Every step of the parent and of the children keeps it.                  *)
LEMMA NextIInv == IInv /\ [Next]_vars => IInv'
BY ChildIInv, ParentChildIInv, ParentIInv, StutterIInv DEF Next, ParentStep

(* The invariant that all results below rest on.                           *)
LEMMA Invariance == Spec => []IInv
BY InitIInv, NextIInv, PTL DEF Spec

(* The variables of the recursion keep their types.                        *)
THEOREM Typing == Spec => []TypeOK
<1>1. IInv => TypeOK
  BY DEF IInv
<1> QED
  BY <1>1, Invariance, PTL

(* When an operation on any number of children succeeds, with any limit on *)
(* how many run at once, every child that takes part is completely changed *)
(* and has official metadata, no child is half changed, and no "pkg        *)
(* remote" process is left (__children_op_vec, __api_recurse).             *)
THEOREM SuccessIsComplete == Spec => []DoneIsComplete
<1>1. IInv => DoneIsComplete
  BY DEF IInv
<1> QED
  BY <1>1, Invariance, PTL
-----------------------------------------------------------------------------
(* The refinement.  What the abstract specification sees of a state:       *)
Served == {c \in Child : rv[c] \in {"ok", "nop"}}
Changed == {c \in Child : image[c] # "old"}

(* The initial states are initial states of the staged recursion.          *)
LEMMA MappedInit == Init => Abstract!Init
BY DEF Init, Abstract!Init

(* A step that leaves the abstract variables alone is a stutter.           *)
LEMMA MappedStutter ==
    ASSUME stage' = stage, lics' = lics, rv' = rv, image' = image
    PROVE  UNCHANGED Abstract!vars
BY DEF Abstract!vars

(* Only the beginning of the execution in a child changes an image, and an *)
(* "ok" completes a change that had begun.                                 *)
LEMMA MappedChild ==
    ASSUME IInv, NEW c \in Child,
           \/ ServerStep(c) \/ ServerProgress(c) \/ CallerEnds(c) \/ WaiterWrites(c)
    PROVE  [Abstract!Next]_(Abstract!vars)
<1>1. CASE ServerBegins(c)
  <2>1. CASE stage = "execute"
    <3>1. c \in lics \ Served
      BY <1>1, <2>1 DEF IInv, Partition, TypeOK, Served, ServerBegins, ChildStages
    <3>2. Changed' = Changed \cup {c} /\ Served' = Served
      BY <1>1, <2>1 DEF ServerBegins, parentVars, Changed, Served, IInv, TypeOK
    <3>3. Abstract!Touch(c)
      BY <1>1, <2>1, <3>1, <3>2 DEF Abstract!Touch, Served, Changed, ServerBegins, parentVars
    <3> QED
      BY <3>3 DEF Abstract!Next
  <2>2. CASE stage # "execute"
    BY <1>1, <2>2, MappedStutter DEF ServerBegins, parentVars
  <2> QED
    BY <2>1, <2>2
<1>2. CASE ServerDies(c)
  BY <1>2, MappedStutter DEF ServerDies, parentVars, childVars
<1>3. ASSUME NEW r \in Results, ServerReplies(c, r)
      PROVE  [Abstract!Next]_(Abstract!vars)
  <2>1. stage' = stage /\ lics' = lics /\ rv' = rv
    BY <1>3 DEF ServerReplies, parentVars
  <2>2. \A d \in Child : image'[d] # "old" <=> image[d] # "old"
    BY <1>3 DEF ServerReplies, childVars, IInv, Images, TypeOK, ChildStages
  <2> QED
    BY <2>1, <2>2 DEF Abstract!vars
<1>4. CASE ServerProgress(c)
  BY <1>4, MappedStutter DEF ServerProgress, parentVars, childVars
<1>5. CASE CallerEnds(c)
  BY <1>5, MappedStutter DEF CallerEnds, parentVars, childVars
<1>6. CASE WaiterWrites(c)
  BY <1>6, MappedStutter DEF WaiterWrites, parentVars, childVars
<1> QED
  BY <1>1, <1>2, <1>3, <1>4, <1>5, <1>6 DEF ServerStep

(* The result of a child either finishes it, or is noted, or raises.       *)
LEMMA MappedFinish ==
    ASSUME IInv, stage \in ChildStages, NEW c \in Child, NEW r \in Results, NEW rest,
           rv[c] = "none", c \in lics,
           FinishChild(c, r, rest), lics' = lics, image' = image
    PROVE  [Abstract!Next]_(Abstract!vars)
<1>1. /\ rv \in [Child -> Results \cup {"none"}]
      /\ rv' = [rv EXCEPT ![c] = r]
  BY DEF FinishChild, IInv, TypeOK
<1>2. CASE r = "fail"
  <2>1. Served' = Served
    BY <1>1, <1>2 DEF Served
  <2>2. stage' = "raised" \/ stage' = stage
    BY DEF FinishChild, Abort
  <2>3. ASSUME stage' = "raised" PROVE Abstract!Fail
    BY <2>1, <2>3 DEF Abstract!Fail, Served, ChildStages
  <2>4. ASSUME stage' = stage PROVE UNCHANGED Abstract!vars
    BY <2>1, <2>4 DEF Abstract!vars, Served
  <2> QED
    BY <2>2, <2>3, <2>4 DEF Abstract!Next
<1>3. CASE r # "fail"
  <2>1. Served' = Served \cup {c} /\ c \notin Served
    BY <1>1, <1>3 DEF Served, Results
  <2>2. stage' = stage
    BY <1>3 DEF FinishChild
  <2>3. Abstract!Finish(c)
    BY <2>1, <2>2 DEF Abstract!Finish, Abstract!ChildStages, ChildStages, Served
  <2> QED
    BY <2>3 DEF Abstract!Next
<1> QED
  BY <1>2, <1>3

(* The steps of the parent.                                                *)
LEMMA MappedParent ==
    ASSUME IInv, ParentStep
    PROVE  [Abstract!Next]_(Abstract!vars)
<1>1. CASE AllSetUp \/ Swept \/ Started \/ Poll \/ EventsDone
  BY <1>1, MappedStutter DEF AllSetUp, Swept, Started, Poll, EventsDone, childVars
<1>2. CASE StageDone
  <2>1. CASE \E c \in lics : rv[c] = "fail"
    <3>1. Abstract!Fail
      BY <1>2, <2>1 DEF StageDone, In, ChildStages, childVars, Abstract!Fail
    <3> QED
      BY <3>1 DEF Abstract!Next
  <2>2. CASE ~\E c \in lics : rv[c] = "fail"
    <3>1. Served = lics
      BY <1>2, <2>2 DEF StageDone, In, IInv, Partition, TypeOK, Results, Served
    <3>2. Served' = {} /\ lics' \subseteq lics
      BY <1>2, <2>2 DEF StageDone, Served
    <3>3. stage' = Abstract!Following /\ stage \in ChildStages /\ image' = image
      BY <1>2, <2>2 DEF StageDone, Following, Abstract!Following, In, childVars
    <3>4. Abstract!Advance
      BY <3>1, <3>2, <3>3 DEF Abstract!Advance, Abstract!ChildStages, ChildStages, Served
    <3> QED
      BY <3>4 DEF Abstract!Next
  <2> QED
    BY <2>1, <2>2
<1>3. CASE ExecuteParent
  <2>1. Abstract!Commit \/ Abstract!Fail
    BY <1>3 DEF ExecuteParent, childVars, Abstract!Commit, Abstract!Fail
  <2> QED
    BY <2>1 DEF Abstract!Next
<1>4. ASSUME NEW c \in Child,
             \/ SetupEarly(c, "nop") \/ SetupEarly(c, "fail") \/ SetupRemote(c)
             \/ StartChild(c) \/ Drain(c) \/ NotDone(c)
      PROVE  [Abstract!Next]_(Abstract!vars)
  BY <1>4, MappedStutter DEF SetupEarly, SetupRemote, StartChild, Drain, NotDone,
                             parentVars, childVars
<1>5. ASSUME NEW c \in Child, ForkFails(c)
      PROVE  [Abstract!Next]_(Abstract!vars)
  <2>1. Abstract!Fail
    BY <1>5 DEF ForkFails, In, ChildStages, childVars, Abstract!Fail
  <2> QED
    BY <2>1 DEF Abstract!Next
<1>6. ASSUME NEW c \in Child, Sweep(c)
      PROVE  [Abstract!Next]_(Abstract!vars)
  <2>1. /\ stage \in ChildStages /\ early[c] \in Results /\ rv[c] = "none" /\ c \in lics
        /\ FinishChild(c, early[c], ready \ {c}) /\ lics' = lics /\ image' = image
    BY <1>6 DEF Sweep, In, IInv, Partition, TypeOK, childVars
  <2> QED
    BY <2>1, MappedFinish
<1>7. ASSUME NEW c \in Child, Done(c)
      PROVE  [Abstract!Next]_(Abstract!vars)
  <2>1. /\ stage \in ChildStages /\ caller[c] \in Results /\ rv[c] = "none" /\ c \in lics
        /\ FinishChild(c, caller[c], running \ {c}) /\ lics' = lics /\ image' = image
    BY <1>7 DEF Done, In, IInv, Partition, TypeOK, childVars
  <2> QED
    BY <2>1, MappedFinish
<1> QED
  BY <1>1, <1>2, <1>3, <1>4, <1>5, <1>6, <1>7 DEF ParentStep

(* Every step is one of the staged recursion, or a stutter.                *)
LEMMA MappedNext ==
    ASSUME IInv, [Next]_vars
    PROVE  [Abstract!Next]_(Abstract!vars)
<1>1. CASE UNCHANGED vars
  BY <1>1, MappedStutter DEF vars
<1>2. CASE Next
  BY <1>2, MappedChild, MappedParent DEF Next
<1> QED
  BY <1>1, <1>2

(* The parallel recursion with its processes, threads and pipes implements *)
(* the staged recursion: for any number of children, none begins a stage   *)
(* before all are done with the one before, and none changes its image     *)
(* before the plan was executed in the parent (__api_recurse).             *)
THEOREM StagedRefinement == Spec => RecursesInStages
<1>1. Init => Abstract!Init
  BY MappedInit
<1>2. IInv /\ [Next]_vars => [Abstract!Next]_(Abstract!vars)
  BY MappedNext
<1> QED
  BY <1>1, <1>2, Invariance, PTL DEF Spec, RecursesInStages, Abstract!Spec
=============================================================================
