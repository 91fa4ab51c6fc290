------------------------------ MODULE LinkedImages ------------------------------
(***************************************************************************)
(* A packaging operation on a parent image that recurses into its linked   *)
(* children (LinkedImage.__api_recurse, __children_op_vec), with one "pkg  *)
(* remote" process per child and stage, a thread that makes the call       *)
(* (caller), a thread that waits for it and then writes a byte to the      *)
(* progress pipe (waiter), and the parent, which polls the pipes.          *)
(*                                                                         *)
(* The stages are: a check of the publishers in every child; planning;     *)
(* preparation; the execution of the plan in the parent ("commit"); and    *)
(* execution in the children.                                              *)
(***************************************************************************)
EXTENDS Naturals, FiniteSets

CONSTANTS
    Child,          \* the linked children that are not ignored
    Concurrency,    \* client_concurrency: children run at once, 0 if unlimited
    ConcurrencySet  \* client_concurrency_set: the user asked for that limit

ASSUME ConcurrencyAssumption == Concurrency \in Nat /\ ConcurrencySet \in BOOLEAN
ASSUME ChildAssumption == IsFiniteSet(Child)

VARIABLES
    stage,      \* API_STAGE_*, "commit" in between, "done", or "raised"
    pc,         \* where the parent is in __children_op_vec()
    lics,       \* __lic_dict: the children with a handle
    todo,       \* children to be set up
    ready,      \* lic_setup: children set up and not started
    running,    \* lic_running: children started and not finished
    events,     \* children whose pipe had data when the parent polled
    rv,         \* _rvdict: the results of this stage
    early,      \* __child_op_rvtuple: a result known without a remote call
    remote,     \* PkgRemote.__state
    server,     \* the process "pkg remote"
    caller,     \* the thread that calls it, and what it returned
    waiter,     \* the thread that waits for the caller
    pipe,       \* there is data in the progress pipe
    official,   \* children with new parent metadata in the official files
    image       \* the packages of a child

parentVars == <<stage, pc, lics, todo, ready, running, events, rv, early>>
remoteVars == <<remote, server, caller, waiter, pipe>>
childVars == <<official, image>>
vars == <<stage, pc, lics, todo, ready, running, events, rv, early,
          remote, server, caller, waiter, pipe, official, image>>

Results == {"ok", "nop", "fail"}
ChildStages == {"pubcheck", "plan", "prepare", "execute"}
Stages == ChildStages \cup {"commit", "done", "raised"}
FailFast == stage # "pubcheck"

TypeOK ==
    /\ stage \in Stages
    /\ pc \in {"setup", "sweep", "start", "poll", "events"}
    /\ lics \subseteq Child /\ todo \subseteq Child /\ ready \subseteq Child
    /\ running \subseteq Child /\ events \subseteq Child
    /\ rv \in [Child -> Results \cup {"none"}]
    /\ early \in [Child -> Results \cup {"none"}]
    /\ remote \in [Child -> {"idle", "setup", "started"}]
    /\ server \in [Child -> {"none", "waiting", "busy"} \cup Results]
    /\ caller \in [Child -> Results \cup {"none", "calling"}]
    /\ waiter \in [Child -> {"none", "joining", "exited"}]
    /\ pipe \in [Child -> BOOLEAN]
    /\ official \subseteq Child
    /\ image \in [Child -> {"old", "partial", "new"}]

Init ==
    /\ stage = "pubcheck" /\ pc = "setup"
    /\ lics = Child /\ todo = Child
    /\ ready = {} /\ running = {} /\ events = {}
    /\ rv = [c \in Child |-> "none"] /\ early = [c \in Child |-> "none"]
    /\ remote = [c \in Child |-> "idle"] /\ server = [c \in Child |-> "none"]
    /\ caller = [c \in Child |-> "none"] /\ waiter = [c \in Child |-> "none"]
    /\ pipe = [c \in Child |-> FALSE]
    /\ official = {} /\ image = [c \in Child |-> "old"]

-----------------------------------------------------------------------------
(* The parent.                                                             *)
In(l) == stage \in ChildStages /\ pc = l

(* child_op_setup() of a publisher check or a plan first pushes metadata   *)
(* into temporary files of the child: if that fails, or when planning      *)
(* nothing changes and the recursion is implicit, the result is known and  *)
(* nothing is called.                                                      *)
SetupEarly(c, r) ==
    /\ In("setup") /\ c \in todo
    /\ \/ stage = "plan" /\ r \in {"nop", "fail"}
       \/ stage = "pubcheck" /\ r = "fail"
    /\ todo' = todo \ {c} /\ ready' = ready \cup {c}
    /\ early' = [early EXCEPT ![c] = r]
    /\ UNCHANGED <<stage, pc, lics, running, events, rv, remoteVars, childVars>>

(* PkgRemote.setup(): a process is forked, the progress pipe is empty.     *)
SetupRemote(c) ==
    /\ In("setup") /\ c \in todo
    /\ todo' = todo \ {c} /\ ready' = ready \cup {c}
    /\ remote' = [remote EXCEPT ![c] = "setup"]
    /\ server' = [server EXCEPT ![c] = "waiting"]
    /\ pipe' = [pipe EXCEPT ![c] = FALSE]
    /\ UNCHANGED <<stage, pc, lics, running, events, rv, early, caller, waiter, childVars>>

(* ... or the fork fails, which ends the whole operation.                  *)
ForkFails(c) ==
    /\ In("setup") /\ c \in todo
    /\ stage' = "raised"
    /\ UNCHANGED <<pc, lics, todo, ready, running, events, rv, early, remoteVars, childVars>>

AllSetUp ==
    /\ In("setup") /\ todo = {}
    /\ pc' = "sweep"
    /\ UNCHANGED <<stage, lics, todo, ready, running, events, rv, early, remoteVars, childVars>>

(* Mutant: the process is left to itself.                                  *)
MutFini(cs) ==
    /\ remote' = [c \in Child |-> IF c \in cs THEN "idle" ELSE remote[c]]
    /\ caller' = [c \in Child |-> IF c \in cs THEN "none" ELSE caller[c]]
    /\ waiter' = [c \in Child |-> IF c \in cs THEN "none" ELSE waiter[c]]
    /\ pipe' = [c \in Child |-> IF c \in cs THEN FALSE ELSE pipe[c]]
    /\ UNCHANGED server

(* PkgRemote.__rpc_server_fini() and __set_state_idle() for the children   *)
(* cs: the process is killed and both threads are joined.                  *)
Fini(cs) ==
    /\ remote' = [c \in Child |-> IF c \in cs THEN "idle" ELSE remote[c]]
    /\ server' = [c \in Child |-> IF c \in cs THEN "none" ELSE server[c]]
    /\ caller' = [c \in Child |-> IF c \in cs THEN "none" ELSE caller[c]]
    /\ waiter' = [c \in Child |-> IF c \in cs THEN "none" ELSE waiter[c]]
    /\ pipe' = [c \in Child |-> IF c \in cs THEN FALSE ELSE pipe[c]]

(* A failure stops the other children of the list, until an idle one trips *)
(* over the assertion of PkgRemote.abort(); either way an exception ends   *)
(* the operation.                                                          *)
Abort(c, rest) ==
    /\ stage' = "raised"
    /\ IF \E d \in rest : remote[d] = "idle"
       THEN \E cs \in SUBSET {d \in rest : remote[d] # "idle"} : Fini({c} \cup cs)
       ELSE Fini({c} \cup rest)

(* __child_op_finish() for a child with result r of a list of children.    *)
FinishChild(c, r, rest) ==
    /\ rv' = [rv EXCEPT ![c] = r]
    /\ early' = [early EXCEPT ![c] = "none"]
    /\ IF r = "fail" /\ FailFast
       THEN Abort(c, rest)
       ELSE Fini({c}) /\ UNCHANGED stage

(* Children whose result is known from the setup are finished first.       *)
Sweep(c) ==
    /\ In("sweep") /\ c \in ready /\ early[c] # "none"
    /\ ready' = ready \ {c}
    /\ FinishChild(c, early[c], ready \ {c})
    /\ UNCHANGED <<pc, lics, todo, running, events, childVars>>

Swept ==
    /\ In("sweep") /\ \A c \in ready : early[c] = "none"
    /\ pc' = "start"
    /\ UNCHANGED <<stage, lics, todo, ready, running, events, rv, early, remoteVars, childVars>>

(* The cheap check of publishers runs in all children at once, unless the  *)
(* user set a limit.                                                       *)
MayStart == \/ Concurrency = 0 \/ (stage = "pubcheck" /\ ~ConcurrencySet)
            \/ Cardinality(running) < Concurrency

(* PkgRemote.start(): both threads are started.                            *)
StartChild(c) ==
    /\ In("start") /\ c \in ready /\ MayStart
    /\ ready' = ready \ {c} /\ running' = running \cup {c}
    /\ remote' = [remote EXCEPT ![c] = "started"]
    /\ caller' = [caller EXCEPT ![c] = "calling"]
    /\ waiter' = [waiter EXCEPT ![c] = "joining"]
    /\ UNCHANGED <<stage, pc, lics, todo, events, rv, early, server, pipe, childVars>>

(* As many as may be started are: the parent polls the pipes ...           *)
Started ==
    /\ In("start")
    /\ ready = {} \/ ~MayStart
    /\ running # {}
    /\ pc' = "poll"
    /\ UNCHANGED <<stage, lics, todo, ready, running, events, rv, early, remoteVars, childVars>>

Poll ==
    /\ In("poll")
    /\ events' = {c \in running : pipe[c]} /\ events' # {}
    /\ pc' = "events"
    /\ UNCHANGED <<stage, lics, todo, ready, running, rv, early, remoteVars, childVars>>

(* ... and for each with data is_done() drains the pipe,                   *)
Drain(c) ==
    /\ In("events") /\ c \in events /\ pipe[c]
    /\ pipe' = [pipe EXCEPT ![c] = FALSE]
    /\ UNCHANGED <<parentVars, remote, server, caller, waiter, childVars>>

(* then looks whether the calling thread has ended: it has not ...         *)
NotDone(c) ==
    /\ In("events") /\ c \in events /\ ~pipe[c]
    /\ caller[c] = "calling"
    /\ events' = events \ {c}
    /\ UNCHANGED <<stage, pc, lics, todo, ready, running, rv, early, remoteVars, childVars>>

(* ... or the child is finished.                                           *)
Done(c) ==
    /\ In("events") /\ c \in events
    /\ caller[c] \in Results
    /\ events' = events \ {c} /\ running' = running \ {c}
    /\ FinishChild(c, caller[c], running \ {c})
    /\ UNCHANGED <<pc, lics, todo, ready, childVars>>

EventsDone ==
    /\ In("events") /\ events = {}
    /\ pc' = "start"
    /\ UNCHANGED <<stage, lics, todo, ready, running, events, rv, early, remoteVars, childVars>>

Following == CASE stage = "pubcheck" -> "plan"
               [] stage = "plan" -> "prepare"
               [] stage = "prepare" -> "commit"
               [] stage = "execute" -> "done"

(* Mutant: the execution of the plan in the parent is taken for granted.   *)
MutStageDone ==
    /\ In("start") /\ ready = {} /\ running = {}
    /\ stage' = IF stage = "prepare" THEN "execute" ELSE Following
    /\ lics' = {c \in lics : rv[c] # "nop"}
    /\ todo' = lics' /\ pc' = "setup"
    /\ rv' = [c \in Child |-> "none"]
    /\ UNCHANGED <<ready, running, events, early, remoteVars, childVars>>

(* The stage is over: children with nothing to do lose their handle.  A    *)
(* failed check of publishers is raised now.                               *)
StageDone ==
    /\ In("start") /\ ready = {} /\ running = {}
    /\ IF \E c \in lics : rv[c] = "fail"
       THEN stage' = "raised" /\ UNCHANGED <<lics, todo, pc, rv>>
       ELSE /\ stage' = Following
            /\ lics' = IF stage = "pubcheck" THEN lics ELSE {c \in lics : rv[c] # "nop"}
            /\ todo' = lics' /\ pc' = "setup"
            /\ rv' = [c \in Child |-> "none"]
    /\ UNCHANGED <<ready, running, events, early, remoteVars, childVars>>

(* ImageInterface.execute_plan(): the plan is executed in the parent, or   *)
(* that fails; the children come after it.                                 *)
ExecuteParent ==
    /\ stage = "commit"
    /\ stage' \in {"execute", "raised"}
    /\ UNCHANGED <<pc, lics, todo, ready, running, events, rv, early, remoteVars, childVars>>

-----------------------------------------------------------------------------
(* A child: the process and the two threads of the parent that deal with   *)
(* it.  Once killed (server "none") it does nothing more.                  *)

(* The caller's request reaches the process, which resets its API, plans,  *)
(* prepares or begins to execute.                                          *)
ServerBegins(c) ==
    /\ server[c] = "waiting" /\ caller[c] = "calling"
    /\ server' = [server EXCEPT ![c] = "busy"]
    /\ image' = IF stage = "execute" THEN [image EXCEPT ![c] = "partial"] ELSE image
    /\ UNCHANGED <<parentVars, remote, caller, waiter, pipe, official>>

(* Progress is reported by writing to the pipe.                            *)
ServerProgress(c) ==
    /\ server[c] = "busy"
    /\ pipe' = [pipe EXCEPT ![c] = TRUE]
    /\ UNCHANGED <<parentVars, remote, server, caller, waiter, childVars>>

(* The operation returns.  Executing, a child writes the metadata that it  *)
(* planned with to the official files after its packages.                  *)
ServerReplies(c, r) ==
    /\ server[c] = "busy"
    /\ r = "nop" => stage \in {"pubcheck", "plan"}
    /\ server' = [server EXCEPT ![c] = r]
    /\ IF stage = "execute" /\ r = "ok"
       THEN image' = [image EXCEPT ![c] = "new"] /\ official' = official \cup {c}
       ELSE UNCHANGED childVars
    /\ UNCHANGED <<parentVars, remote, caller, waiter, pipe>>

(* The process dies: the call will raise, and the result is a failure.     *)
ServerDies(c) ==
    /\ server[c] \in {"waiting", "busy"}
    /\ server' = [server EXCEPT ![c] = "fail"]
    /\ UNCHANGED <<parentVars, remote, caller, waiter, pipe, childVars>>

(* __rpc_async_caller(): the call has returned and its thread ends.        *)
CallerEnds(c) ==
    /\ caller[c] = "calling" /\ server[c] \in Results
    /\ caller' = [caller EXCEPT ![c] = server[c]]
    /\ UNCHANGED <<parentVars, remote, server, waiter, pipe, childVars>>

(* Mutant: the byte is written when the call returns, before the thread    *)
(* that made it has ended.                                                 *)
MutWaiterWrites(c) ==
    /\ waiter[c] = "joining" /\ server[c] \in Results
    /\ waiter' = [waiter EXCEPT ![c] = "exited"]
    /\ pipe' = [pipe EXCEPT ![c] = TRUE]
    /\ UNCHANGED <<parentVars, remote, server, caller, childVars>>

(* __rpc_async_waiter(): joins the caller, then writes a byte.             *)
WaiterWrites(c) ==
    /\ waiter[c] = "joining" /\ caller[c] \in Results
    /\ waiter' = [waiter EXCEPT ![c] = "exited"]
    /\ pipe' = [pipe EXCEPT ![c] = TRUE]
    /\ UNCHANGED <<parentVars, remote, server, caller, childVars>>

-----------------------------------------------------------------------------
ParentStep ==
    \/ AllSetUp \/ Swept \/ Started \/ Poll \/ EventsDone \/ StageDone \/ ExecuteParent
    \/ \E c \in Child : \/ SetupEarly(c, "nop") \/ SetupEarly(c, "fail")
                        \/ SetupRemote(c) \/ ForkFails(c) \/ Sweep(c)
                        \/ StartChild(c) \/ Drain(c) \/ NotDone(c) \/ Done(c)
ServerStep(c) ==
    ServerBegins(c) \/ ServerDies(c) \/ \E r \in Results : ServerReplies(c, r)

Next ==
    \/ ParentStep
    \/ \E c \in Child : \/ ServerStep(c) \/ ServerProgress(c)
                        \/ CallerEnds(c) \/ WaiterWrites(c)

(* The parent and the threads run on; an operation in a child ends.        *)
Fairness ==
    /\ WF_vars(ParentStep)
    /\ \A c \in Child : WF_vars(ServerStep(c)) /\ WF_vars(CallerEnds(c)) /\ WF_vars(WaiterWrites(c))

Spec == Init /\ [][Next]_vars /\ Fairness
-----------------------------------------------------------------------------
(* The recursion implements its abstract specification: every child is     *)
(* done with a stage before any begins the next, and no child changes its  *)
(* image before all are prepared and the plan is executed in the parent,   *)
(* whatever fails, dies or is aborted on the way.                          *)
Abstract == INSTANCE StagedRecursion WITH
    members <- lics,
    done <- {c \in Child : rv[c] \in {"ok", "nop"}},
    changed <- {c \in Child : image[c] # "old"}
RecursesInStages == Abstract!Spec

(* No wakeup is lost: a recursive operation always comes to its end. The   *)
(* parent sleeps in poll() while it has read the last byte of a child only *)
(* if that child's thread has not ended and another byte is still to come. *)
RecursionEnds == <>(stage \in {"done", "raised"})

(* An operation that succeeded left no child half changed, no process      *)
(* behind, and the metadata of every child that took part up to date.      *)
DoneIsComplete ==
    stage = "done" =>
        /\ \A c \in Child : server[c] = "none" /\ image[c] # "partial"
        /\ \A c \in lics : image[c] = "new" /\ c \in official
=============================================================================
