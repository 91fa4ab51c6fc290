------------------------------- MODULE LockFile -------------------------------
(***************************************************************************)
(* pkg.lockfile.LockFile, the inter-process lock of an image, of a         *)
(* repository store, of a search index and of the password files, together *)
(* with the thread lock (pkg.nrlock.NRLock) that guards it and the two     *)
(* wrappers Image.lock and _RepoStore.__lock_rstore.                       *)
(*                                                                         *)
(* Every process has one LockFile object that its threads share.  A step   *)
(* of a thread is one system call or one assignment of lock() or unlock(). *)
(***************************************************************************)
EXTENDS Naturals, FiniteSets

CONSTANTS
    Process,        \* operating system processes
    Thread,         \* threads of all the processes
    ProcOf,         \* the process of a thread
    NoOne,          \* stands for Python's None, and for an empty lock file
    Uses            \* the ways in which programs use the class

(* A use of the class: who provides the thread lock ("own" is              *)
(* LockFile(provide_mutex=True), "rstore" and "image" the two wrappers),   *)
(* the values of lock()'s argument, and the errors that open(2), fcntl(2)  *)
(* and write(2) return.                                                    *)
Use == [wrapper : {"own", "rstore", "image"}, blocking : SUBSET BOOLEAN,
        errnos : SUBSET {"ENOENT", "EACCES", "EROFS", "ENOSPC", "EINVAL"}]

ASSUME ProcessAssumption == ProcOf \in [Thread -> Process]
ASSUME NoOneAssumption == NoOne \notin Process /\ NoOne \notin Thread
ASSUME UsesAssumption == Uses \subseteq Use

VARIABLES
    mutex,      \* the NRLock of a process: its owner or NoOne
    fileobj,    \* LockFile._fileobj: the thread whose descriptor it is
    open,       \* the threads whose descriptor on the lock file is open
    pc,         \* where in lock() or unlock() a thread is
    blocking,   \* the argument of the thread's lock()
    flock,      \* the process to which the kernel granted the record lock
    text,       \* the process whose lock string the file holds
    use         \* how this lock is used: it never changes

lockvars == <<mutex, fileobj, open, pc, blocking, flock, text, use>>

Wrapper == use.wrapper
Blocking == use.blocking
Errnos == use.errnos

Locations == {"idle",      \* not in a call, nothing held
              "acquire",   \* lock(): waiting for the NRLock
              "open",      \* lock(): about to open the file
              "lockf",     \* lock(): in fcntl.lockf(lf, LOCK_EX)
              "failed",    \* lock(): lockf failed, the NRLock to be released
              "raised",    \* lock() raised; lf is alive in the traceback
              "write",     \* lock(): lockf succeeded, writing the lock string
              "held",      \* lock() returned with the file locked
              "threadheld",\* lock() returned with the NRLock alone
              "truncate",  \* unlock(): LOCK_UN done
              "finish",    \* unlock(): about to release the NRLock
              "clear"}     \* unlock(): the last step, see Finish and Clear

TypeOK ==
    /\ mutex \in [Process -> Thread \cup {NoOne}]
    /\ fileobj \in [Process -> Thread \cup {NoOne}]
    /\ open \subseteq Thread
    /\ pc \in [Thread -> Locations]
    /\ blocking \in [Thread -> BOOLEAN]
    /\ flock \in Process \cup {NoOne}
    /\ text \in Process \cup {NoOne}
    /\ use \in Uses

LockInit ==
    /\ mutex = [p \in Process |-> NoOne]
    /\ fileobj = [p \in Process |-> NoOne]
    /\ open = {}
    /\ pc = [t \in Thread |-> "idle"]
    /\ blocking = [t \in Thread |-> FALSE]
    /\ flock = NoOne
    /\ text = NoOne
    /\ use \in Uses

Goto(t, l) == pc' = [pc EXCEPT ![t] = l]
Release(p) == mutex' = [mutex EXCEPT ![p] = NoOne]

(* fcntl(2): a record lock belongs to the process, and closing ANY of the  *)
(* descriptors the process has on the file drops it.                       *)
FlockDropped(t) == IF flock = ProcOf[t] THEN NoOne ELSE flock

-----------------------------------------------------------------------------
(* lock()                                                                  *)

Call(t) ==
    /\ pc[t] = "idle"
    /\ mutex[ProcOf[t]] # t      \* else NRLockException, nothing changes
    /\ \E b \in Blocking : blocking' = [blocking EXCEPT ![t] = b]
    /\ Goto(t, "acquire")
    /\ UNCHANGED <<mutex, fileobj, open, flock, text>>

Acquire(t) ==
    /\ pc[t] = "acquire"
    /\ mutex[ProcOf[t]] = NoOne
    /\ mutex' = [mutex EXCEPT ![ProcOf[t]] = t]
    /\ Goto(t, "open")
    /\ UNCHANGED <<fileobj, open, blocking, flock, text>>

(* Mutant: the result of acquire() is not looked at.                       *)
MutAcquireFails(t) ==
    /\ pc[t] = "acquire"
    /\ ~blocking[t]
    /\ mutex[ProcOf[t]] # NoOne
    /\ Goto(t, "open")
    /\ UNCHANGED <<mutex, fileobj, open, blocking, flock, text>>

AcquireFails(t) ==
    /\ pc[t] = "acquire"
    /\ ~blocking[t]
    /\ mutex[ProcOf[t]] # NoOne
    /\ Goto(t, "idle")
    /\ UNCHANGED <<mutex, fileobj, open, blocking, flock, text>>

(* Mutant: the file is opened and fcntl.lockf() is never called.           *)
MutOpenFile(t) ==
    /\ pc[t] = "open"
    /\ open' = open \cup {t}
    /\ Goto(t, "write")
    /\ UNCHANGED <<mutex, fileobj, blocking, flock, text>>

OpenFile(t) ==
    /\ pc[t] = "open"
    /\ open' = open \cup {t}
    /\ Goto(t, "lockf")
    /\ UNCHANGED <<mutex, fileobj, blocking, flock, text>>

(* What the wrapper does with an EnvironmentError of LockFile.lock(): keep *)
(* the thread lock and return, keep it and raise, or release it and raise. *)
Handle(t, e) ==
    \/ /\ Wrapper = "image"
       /\ e \in {"ENOENT", "EACCES", "EROFS"}  \* the last two: allow_unprivileged
       /\ Goto(t, "threadheld")
       /\ UNCHANGED mutex
    \/ /\ Wrapper = "image"
       /\ e = "ENOSPC"
       /\ Goto(t, "idle")
       /\ UNCHANGED mutex
    \/ /\ Wrapper = "image" => e \notin {"ENOENT", "ENOSPC"}
       /\ Goto(t, "idle")
       /\ Release(ProcOf[t])

(* Mutant: the release is missing when the file cannot be opened.          *)
MutOpenFails(t) ==
    /\ pc[t] = "open"
    /\ Errnos # {}
    /\ Goto(t, "idle")
    /\ UNCHANGED <<mutex, fileobj, open, blocking, flock, text>>

OpenFails(t) ==
    /\ pc[t] = "open"
    /\ \E e \in Errnos : Handle(t, e)
    /\ UNCHANGED <<fileobj, open, blocking, flock, text>>

(* _RepoStore.__lock_rstore(process=False), or a repository that is        *)
(* read-only or has no structure yet: the file lock is not attempted.      *)
ThreadOnly(t) ==
    /\ Wrapper = "rstore"
    /\ pc[t] = "open"
    /\ Goto(t, "threadheld")
    /\ UNCHANGED <<mutex, fileobj, open, blocking, flock, text>>

Lockf(t) ==
    /\ pc[t] = "lockf"
    /\ flock \in {NoOne, ProcOf[t]}
    /\ flock' = ProcOf[t]
    /\ Goto(t, "write")
    /\ UNCHANGED <<mutex, fileobj, open, blocking, text>>

(* EAGAIN for a contended non-blocking call, or another error.  The text   *)
(* of the file is read for the exception and lf is not closed here.        *)
LockfFails(t) ==
    /\ pc[t] = "lockf"
    /\ \/ ~blocking[t] /\ flock \notin {NoOne, ProcOf[t]}
       \/ "EINVAL" \in Errnos
    /\ Goto(t, "failed")
    /\ UNCHANGED <<mutex, fileobj, open, blocking, flock, text>>

Raise(t) ==
    /\ pc[t] = "failed"
    /\ Release(ProcOf[t])
    /\ Goto(t, "raised")
    /\ UNCHANGED <<fileobj, open, blocking, flock, text>>

(* The caller has handled the exception: the traceback, its frames and lf  *)
(* are freed.                                                              *)
Unwind(t) ==
    /\ pc[t] = "raised"
    /\ open' = open \ {t}
    /\ flock' = FlockDropped(t)
    /\ Goto(t, "idle")
    /\ UNCHANGED <<mutex, fileobj, blocking, text>>

(* The assignment _fileobj = lf drops the last reference to an earlier     *)
(* file object, which closes it if it is still open.                       *)
Write(t) ==
    LET p == ProcOf[t]
        old == {fileobj[p]} \cap open
    IN  /\ pc[t] = "write"
        /\ text' = p
        /\ fileobj' = [fileobj EXCEPT ![p] = t]
        /\ open' = open \ old
        /\ flock' = IF old = {} THEN flock ELSE FlockDropped(t)
        /\ Goto(t, "held")
        /\ UNCHANGED <<mutex, blocking>>

(* write or flush fails.  lf.close() flushes again: it may fail again, and *)
(* then the release that follows it is skipped.                            *)
WriteFails(t) ==
    /\ pc[t] = "write"
    /\ "ENOSPC" \in Errnos
    /\ text' = NoOne
    /\ fileobj' = [fileobj EXCEPT ![ProcOf[t]] = NoOne]
    /\ open' = open \ {t, fileobj[ProcOf[t]]}
    /\ flock' = FlockDropped(t)
    /\ \/ Handle(t, "ENOSPC")
       \/ Wrapper = "own" /\ Goto(t, "idle") /\ UNCHANGED mutex
    /\ UNCHANGED blocking

-----------------------------------------------------------------------------
(* unlock()                                                                *)

Unlock(t) ==
    /\ pc[t] = "held"
    /\ fileobj[ProcOf[t]] # NoOne
    /\ flock' = FlockDropped(t)
    /\ Goto(t, "truncate")
    /\ UNCHANGED <<mutex, fileobj, open, blocking, text>>

(* fcntl, truncate or close failed: on to the release of the NRLock.       *)
UnlockFails(t) ==
    /\ pc[t] \in {"held", "truncate"}
    /\ fileobj[ProcOf[t]] # NoOne
    /\ "EINVAL" \in Errnos
    /\ Goto(t, "finish")
    /\ UNCHANGED <<mutex, fileobj, open, blocking, flock, text>>

Truncate(t) ==
    /\ pc[t] = "truncate"
    /\ fileobj[ProcOf[t]] # NoOne
    /\ text' = NoOne
    /\ open' = open \ {fileobj[ProcOf[t]]}
    /\ flock' = FlockDropped(t)
    /\ Goto(t, "finish")
    /\ UNCHANGED <<mutex, fileobj, blocking>>

(* The finally clause: _fileobj = None, which closes a file still open.    *)
ClearFileobj(t) ==
    LET p == ProcOf[t]
        old == {fileobj[p]} \cap open
    IN  /\ fileobj' = [fileobj EXCEPT ![p] = NoOne]
        /\ open' = open \ old
        /\ flock' = IF old = {} THEN flock ELSE FlockDropped(t)

(* LockFile's own mutex is released before the finally clause; a wrapper's *)
(* thread lock is released after it.                                       *)
Finish(t) ==
    /\ pc[t] = "finish"
    /\ IF Wrapper = "own"
       THEN Release(ProcOf[t]) /\ UNCHANGED <<fileobj, open, flock>>
       ELSE ClearFileobj(t) /\ UNCHANGED mutex
    /\ Goto(t, "clear")
    /\ UNCHANGED <<blocking, text>>

Clear(t) ==
    /\ pc[t] = "clear"
    /\ IF Wrapper = "own"
       THEN ClearFileobj(t) /\ UNCHANGED mutex
       ELSE Release(ProcOf[t]) /\ UNCHANGED <<fileobj, open, flock>>
    /\ Goto(t, "idle")
    /\ UNCHANGED <<blocking, text>>

(* unlock() with no file object: a wrapper just releases its thread lock.  *)
(* With LockFile's own mutex the assertion that it is not owned fails, or, *)
(* past LOCK_UN, None.truncate() raises: the mutex is not released.        *)
UnlockThread(t) ==
    /\ pc[t] \in {"held", "threadheld"}
    /\ fileobj[ProcOf[t]] = NoOne
    /\ Wrapper # "own"
    /\ Release(ProcOf[t])
    /\ Goto(t, "idle")
    /\ UNCHANGED <<fileobj, open, blocking, flock, text>>

UnlockAsserts(t) ==
    /\ Wrapper = "own"
    /\ pc[t] \in {"held", "truncate"}
    /\ fileobj[ProcOf[t]] = NoOne
    /\ Goto(t, "idle")
    /\ UNCHANGED <<mutex, fileobj, open, blocking, flock, text>>

(* The process dies: the kernel closes its descriptors; the text stays.    *)
Crash(p) ==
    /\ \/ mutex[p] # NoOne
       \/ \E t \in Thread : ProcOf[t] = p /\ pc[t] # "idle"
    /\ mutex' = [mutex EXCEPT ![p] = NoOne]
    /\ fileobj' = [fileobj EXCEPT ![p] = NoOne]
    /\ open' = {t \in open : ProcOf[t] # p}
    /\ pc' = [t \in Thread |-> IF ProcOf[t] = p THEN "idle" ELSE pc[t]]
    /\ flock' = IF flock = p THEN NoOne ELSE flock
    /\ UNCHANGED <<blocking, text>>

-----------------------------------------------------------------------------
Step(t) ==
    \/ Acquire(t) \/ AcquireFails(t) \/ OpenFile(t) \/ OpenFails(t)
    \/ ThreadOnly(t) \/ Lockf(t) \/ LockfFails(t) \/ Raise(t) \/ Unwind(t)
    \/ Write(t) \/ WriteFails(t) \/ Unlock(t) \/ UnlockFails(t)
    \/ Truncate(t) \/ Finish(t) \/ Clear(t) \/ UnlockThread(t)
    \/ UnlockAsserts(t)

LockNext == /\ UNCHANGED use
        /\ \/ \E t \in Thread : Call(t) \/ Step(t)
           \/ \E p \in Process : Crash(p)

LockSpec == LockInit /\ [][LockNext]_lockvars

(* A thread in a call keeps running, the holder of the lock calls unlock() *)
(* and the kernel and the NRLock do not starve a blocked caller.           *)
Fairness ==
    \A t \in Thread : /\ WF_lockvars(Step(t) /\ UNCHANGED use)
                      /\ SF_lockvars(Acquire(t) /\ UNCHANGED use)
                      /\ SF_lockvars(Lockf(t) /\ UNCHANGED use)

FairSpec == LockSpec /\ Fairness

-----------------------------------------------------------------------------
(* The states in which a thread must own the thread lock of its process.   *)
Owning == {"open", "lockf", "failed", "write", "held", "threadheld",
           "truncate", "finish"}

(* The threads of one process exclude each other through the NRLock, in    *)
(* every configuration and on every error path: lock() goes past acquire() *)
(* with the NRLock, and no step takes it away from a thread still using    *)
(* it.                                                                     *)
ThreadExclusion ==
    \A t \in Thread : pc[t] \in Owning => mutex[ProcOf[t]] = t

(* "Lock the lockfile, to prevent access from other processes" (lock()):   *)
(* no two threads of any processes are at once between a lock() that       *)
(* returned with the file locked and the LOCK_UN of its unlock(), and the  *)
(* kernel still has the record lock that keeps the other processes out.    *)
MutualExclusion ==
    /\ \A t, u \in Thread : pc[t] = "held" /\ pc[u] = "held" => t = u
    /\ \A t \in Thread : pc[t] = "held" => flock = ProcOf[t]

(* How the class is used safely: one thread per process, or a thread lock  *)
(* of the caller's around blocking calls that do not fail in fcntl.        *)
OneThreadPerProcess ==
    \A t, u \in Thread : ProcOf[t] = ProcOf[u] => t = u
LockfNeverFails == Blocking \subseteq {TRUE} /\ "EINVAL" \notin Errnos
SafeUse == OneThreadPerProcess \/ (Wrapper # "own" /\ LockfNeverFails)

(* A lock file that is used safely excludes, through every crash and every *)
(* error path of lock() and unlock().                                      *)
SafeExclusion == SafeUse => MutualExclusion

(* Every lock() call of a repository returns or raises: no caller waits for *)
(* ever on a thread lock or a record lock that an error path or a crash    *)
(* left behind.                                                            *)
LockReturns ==
    \A t \in Thread :
        pc[t] = "acquire" /\ Wrapper = "rstore"
            ~> pc[t] \in {"idle", "raised", "held", "threadheld"}
=============================================================================
