------------------------------ MODULE DepotSearch ------------------------------
(***************************************************************************)
(* Search in the depot server: the files of the search index on disk, the  *)
(* indexers that replace them one by one (the background thread of the     *)
(* depot and pkgrepo in another process), the queue of background tasks,   *)
(* and the queries that open the files one by one and keep what they read  *)
(* in a cache shared by all threads (TermQuery._global_data_dict).         *)
(*                                                                         *)
(* The contents of a file are the build it belongs to: a build has the     *)
(* version number written in its files and the packages it indexes.        *)
(* token_byte_offset and fmri_offsets are written, moved, opened and       *)
(* cached next to each other: here they are one file, "offsets"; fast_add  *)
(* and fast_remove, which queries of the server do not open, are left out. *)
(***************************************************************************)
EXTENDS Naturals, Sequences, FiniteSets

CONSTANTS
    Pkg,            \* packages
    Searcher,       \* threads of the depot that answer a query
    worker,         \* the background thread of the depot
    pkgrepo,        \* pkgrepo refresh and rebuild, another process
    None,           \* nobody
    Requests,       \* the tasks that clients ask the depot for
    Commands,       \* the tasks of pkgrepo
    QueueLimit,     \* tasks the queue admits (10 in the code)
    MaxBuilds       \* bound: builds of the index

ASSUME ActorsAssumption ==
    worker # pkgrepo /\ None \notin {worker, pkgrepo} \cup Searcher
ASSUME TasksAssumption == Requests \cup Commands \subseteq {"refresh", "rebuild"}
ASSUME BoundsAssumption == {QueueLimit, MaxBuilds} \subseteq Nat \ {0}

Indexer == {worker, pkgrepo}
(* Indexer._data_dict: the order in which _migrate() moves the files.      *)
MoveOrder == <<"manf", "full_fmri", "main_dict", "offsets">>
File == {MoveOrder[i] : i \in DOMAIN MoveOrder}
(* The files a query opens, in order; the last is its own, the others are  *)
(* those of the shared cache.                                              *)
OpenOrder == <<"manf", "offsets", "main_dict">>
Shared == {"manf", "offsets"}

VARIABLES
    disk,       \* the build a file of the index belongs to, 0 if it is absent
    tmp,        \* the same of the files in its directory TMP
    dirs,       \* the directories there are: the index, its TMP and index.old
    builds,     \* history: version and packages of every build so far
    catalog,    \* the packages of the catalog
    rlock,      \* owner of the store's thread lock: the worker, "pub" or None
    ilock,      \* owner of the index lock
    idx,        \* an indexer: where it is, its task and the build it makes
    tasks,      \* BackgroundTaskPlugin: the tasks in the queue ...
    unfinished, \* ... and the queue's count of unfinished tasks
    available,  \* _RepoStore.__search_available of the depot
    gdd,        \* the cache entry of the index, or NoEntry
    glock,      \* owner of the lock of the cache
    query,      \* a thread that searches
    cut,        \* history: an indexer died while it moved files
    straddled,  \* history: the index was purged while a query opened it
    raced       \* history: two indexers worked on the files at the same time

hist == <<cut, straddled, raced>>
disks == <<disk, tmp, dirs, builds, catalog>>
queue == <<tasks, unfinished>>
search == <<available, gdd, glock, query>>
vars == <<disk, tmp, dirs, builds, catalog, rlock, ilock, idx, tasks, unfinished,
          available, gdd, glock, query, cut, straddled, raced>>

(* A dictionary of the cache: the build its file had when it was examined  *)
(* (_mtime, _size, _inode), the build it was read from, an open handle.    *)
NewDict == [stat |-> 0, data |-> 0, open |-> FALSE]
NewEntry == [f \in Shared |-> NewDict]
NoEntry == [f \in {} |-> NewDict]
(* todo: the packages that check_for_updates() found.  History of a task   *)
(* of the depot: due, the catalog when it began; lost, that pkgrepo purged *)
(* the index since it looked what there is to do.                          *)
NoTask == [pc |-> "idle", op |-> "none", build |-> 0, at |-> 1,
           due |-> {}, todo |-> {}, lost |-> FALSE]
(* hand: the builds of the files the query opened; again: the second call  *)
(* of consistent_open(); got: the dictionaries it searches with.           *)
NoQuery == [pc |-> "idle", at |-> 1, again |-> FALSE,
            hand |-> [f \in File |-> 0], got |-> [f \in Shared |-> 0]]
QueryPcs == {"idle", "resetOn", "resetOff", "flagOn", "flagOff", "init", "lock", "open", "stat", "retry",
             "compare", "read", "search", "dead"}

NoFiles == [f \in File |-> 0]

Init ==
    /\ disk = NoFiles /\ tmp = NoFiles /\ dirs = {} /\ builds = <<>> /\ catalog = {}
    /\ rlock = None /\ ilock = None
    /\ idx = [i \in Indexer |-> NoTask]
    /\ tasks = <<"refresh">> /\ unfinished = 1
    /\ available = FALSE /\ gdd = NoEntry /\ glock = None
    /\ query = [s \in Searcher |-> NoQuery]
    /\ cut = FALSE /\ straddled = FALSE /\ raced = FALSE

VersionOf(b) == builds[b].ver
Absent == \A f \in File : disk[f] = 0
Present == \A f \in File : disk[f] # 0
(* What consistent_open() asks of all files.                               *)
Consistent == Present /\ \A f, g \in File : VersionOf(disk[f]) = VersionOf(disk[g])
-----------------------------------------------------------------------------
(* Where an indexer reads or writes the files of the index.                *)
Busy(i) == idx[i].pc \in {"stub", "read", "move"}
OtherBusy(i) == \E j \in Indexer \ {i} : Busy(j)
(* Where the depot goes by what it found in the index.                     *)
Relies == Busy(worker) \/ idx[worker].pc \in {"setup", "begin"}
(* The store's process lock: rebuild() and add_package() take it.          *)
Rebuilding(i) == idx[i].op = "rebuild" /\ idx[i].pc # "lock"

(* A package is published: add_package() takes the store's thread lock and *)
(* its process lock, waiting for them.                                     *)
PublishBegin ==
    /\ rlock = None /\ ~Rebuilding(pkgrepo) /\ catalog # Pkg
    /\ rlock' = "pub"
    /\ UNCHANGED <<disks, ilock, idx, queue, search, hist>>

PublishEnd ==
    /\ rlock = "pub"
    /\ \E k \in Pkg \ catalog : catalog' = catalog \cup {k}
    /\ rlock' = None
    /\ UNCHANGED <<disk, tmp, dirs, builds, ilock, idx, queue, search, hist>>

(* BackgroundTaskPlugin.put(), for index/0/refresh and admin/0; beyond the *)
(* limit it raises Full, which the handlers answer as an error.            *)
Put(t) ==
    /\ IF unfinished < QueueLimit
       THEN tasks' = Append(tasks, t) /\ unfinished' = unfinished + 1
       ELSE UNCHANGED <<tasks, unfinished>>
    /\ UNCHANGED <<disks, rlock, ilock, idx, search, hist>>

(* run(): the thread takes the next task.                                  *)
Get ==
    /\ idx[worker].pc = "idle" /\ tasks # <<>>
    /\ idx' = [idx EXCEPT ![worker] = [NoTask EXCEPT !.pc = "lock", !.op = Head(tasks)]]
    /\ tasks' = Tail(tasks)
    /\ UNCHANGED <<disks, rlock, ilock, unfinished, search, hist>>

FirstStep(t) == IF t = "rebuild" THEN "purge" ELSE "check"

(* pkgrepo refresh or rebuild: its own store object, so its own thread     *)
(* lock, which nobody contends for; without the process lock it fails.     *)
StartPkgrepo(t) ==
    /\ idx[pkgrepo].pc = "idle" /\ Len(builds) < MaxBuilds
    /\ t = "rebuild" => rlock # "pub" /\ ~Rebuilding(worker)
    /\ idx' = [idx EXCEPT ![pkgrepo] =
                  [NoTask EXCEPT !.pc = FirstStep(t), !.op = t]]
    /\ UNCHANGED <<disks, rlock, ilock, queue, search, hist>>

-----------------------------------------------------------------------------
(* The end of a task: __unlock_rstore(), and for a task that returned      *)
(* task_done(); one that raised is only logged.                            *)
Finish(i, returned) ==
    /\ idx' = [idx EXCEPT ![i] = NoTask]
    /\ rlock' = IF i = worker THEN None ELSE rlock
    /\ unfinished' = IF i = worker /\ returned THEN unfinished - 1 ELSE unfinished
    /\ UNCHANGED tasks

(* __search_available of the store object that the task runs in.           *)
Found(i) == available' = (available \/ i = worker)

Unlock(i) == ilock' = IF ilock = i THEN None ELSE ilock

(* __lock_rstore() does not block: while a package is being added the task *)
(* raises RepositoryLockedError, and so does a rebuild, which wants the    *)
(* process lock too, while pkgrepo has that.                               *)
LockStore ==
    LET op == idx[worker].op
        locked == rlock # None \/ (op = "rebuild" /\ Rebuilding(pkgrepo))
    IN  /\ idx[worker].pc = "lock"
        /\ \/ /\ ~locked
              /\ rlock' = worker
              /\ idx' = [idx EXCEPT ![worker].pc = FirstStep(op), ![worker].due = catalog]
           \/ /\ locked
              /\ idx' = [idx EXCEPT ![worker] = NoTask]
              /\ UNCHANGED rlock
        /\ UNCHANGED <<disks, ilock, queue, search, hist>>

(* Mutant: without the list of packages there is nothing to index.         *)
MutToIndex == IF disk["full_fmri"] = 0 THEN {} ELSE catalog \ builds[disk["full_fmri"]].pkgs

(* check_for_updates(): the packages that full_fmri_list does not have.    *)
ToIndex == catalog \ (IF disk["full_fmri"] = 0 THEN {}
                                               ELSE builds[disk["full_fmri"]].pkgs)

(* An exception of the indexer: an inconsistent index is rebuilt by        *)
(* refresh_index(); any other, and one of that rebuild, is logged and the  *)
(* task is done.  rebuild() lets it pass.                                  *)
Inconsistent(i) ==
    IF idx[i].op = "refresh"
    THEN /\ idx' = [idx EXCEPT ![i].pc = "purge", ![i].op = "repair"]
         /\ UNCHANGED <<rlock, queue>>
    ELSE Finish(i, idx[i].op = "repair")

(* __refresh_index() finds out what there is to index, with no lock of the *)
(* index.  (If there is something, __run_update_index() does so again, and *)
(* the answer that counts is the last one.)                                *)
Check(i) ==
    /\ idx[i].pc = "check"
    /\ idx' = [idx EXCEPT ![i].pc = IF ToIndex = {} THEN "setup" ELSE "begin",
                          ![i].todo = ToIndex, ![i].lost = FALSE]
    /\ UNCHANGED <<disks, rlock, ilock, queue, search, hist>>

(* Nothing to index: Indexer.setup() looks for the files, at nothing but   *)
(* their presence.                                                         *)
Setup(i) ==
    /\ idx[i].pc = "setup"
    /\ \/ /\ ~Absent /\ ~Present
          /\ Inconsistent(i)
          /\ UNCHANGED <<builds, available, raced>>
       \/ /\ Present
          /\ Finish(i, TRUE) /\ Found(i)
          /\ UNCHANGED <<builds, raced>>
       \/ /\ Absent /\ Len(builds) < MaxBuilds
          /\ builds' = Append(builds, [ver |-> 1, pkgs |-> {}])
          /\ idx' = [idx EXCEPT ![i].pc = "stub", ![i].build = Len(builds'), ![i].at = 1]
          /\ raced' = (raced \/ OtherBusy(i))
          /\ UNCHANGED <<rlock, queue, available>>
    /\ dirs' = dirs \cup {"index"}
    /\ UNCHANGED <<disk, tmp, catalog, ilock, gdd, glock, query, cut, straddled>>

(* If there are none it writes empty ones, one by one and with no lock;    *)
(* without the directory that fails ...                                    *)
Stub(i) ==
    /\ idx[i].pc = "stub" /\ idx[i].at <= Len(MoveOrder)
    /\ IF "index" \in dirs
       THEN /\ disk' = [disk EXCEPT ![MoveOrder[idx[i].at]] = idx[i].build]
            /\ idx' = [idx EXCEPT ![i].at = @ + 1]
            /\ UNCHANGED <<rlock, queue>>
       ELSE Finish(i, FALSE) /\ UNCHANGED disk
    /\ UNCHANGED <<tmp, dirs, builds, catalog, ilock, search, hist>>

(* ... and search is declared available.                                   *)
StubDone(i) ==
    /\ idx[i].pc = "stub" /\ idx[i].at > Len(MoveOrder)
    /\ Finish(i, TRUE) /\ Found(i)
    /\ UNCHANGED <<disks, ilock, gdd, glock, query, hist>>

(* _generic_update_index(): the index is locked, never waiting, and made   *)
(* if it is not there.                                                     *)
Lock(i) ==
    /\ idx[i].pc = "begin" /\ Len(builds) < MaxBuilds
    /\ IF ilock # None
       THEN Finish(i, idx[i].op # "rebuild") /\ UNCHANGED <<dirs, ilock, raced>>
       ELSE /\ ilock' = i
            /\ dirs' = dirs \cup {"index"}
            /\ idx' = [idx EXCEPT ![i].pc = "read"]
            /\ raced' = (raced \/ OtherBusy(i))
            /\ UNCHANGED <<rlock, queue>>
    /\ UNCHANGED <<disk, tmp, builds, catalog, search, cut, straddled>>

(* Then it is read, and one with the packages to add and the next version  *)
(* number is written to TMP, which is emptied first.  consistent_open()    *)
(* waits for the files to agree and gives up if they do not.               *)
Write(i) ==
    /\ idx[i].pc = "read" /\ Len(builds) < MaxBuilds
    /\ IF Absent \/ Consistent
       THEN /\ builds' = Append(builds,
                   [ver |-> 1 + (IF Absent THEN 1 ELSE VersionOf(disk["main_dict"])),
                    pkgs |-> idx[i].todo \cup (IF Absent THEN {}
                                               ELSE builds[disk["main_dict"]].pkgs)])
            /\ tmp' = [f \in File |-> Len(builds')]
            /\ dirs' = dirs \cup {"index", "tmp"}
            /\ idx' = [idx EXCEPT ![i].pc = "move", ![i].build = Len(builds'),
                                  ![i].at = 1, ![i].todo = {}]
            /\ UNCHANGED <<ilock, rlock, queue>>
       ELSE Inconsistent(i) /\ Unlock(i) /\ UNCHANGED <<builds, tmp, dirs>>
    /\ UNCHANGED <<disk, catalog, search, hist>>

(* Mutant: the main dictionary is moved last.                              *)
MutMove(i) ==
    LET order == <<"manf", "full_fmri", "offsets", "main_dict">>
        f == order[idx[i].at]
    IN  /\ idx[i].pc = "move" /\ idx[i].at <= Len(order)
        /\ IF tmp[f] # 0
           THEN /\ disk' = [disk EXCEPT ![f] = tmp[f]]
                /\ tmp' = [tmp EXCEPT ![f] = 0]
                /\ idx' = [idx EXCEPT ![i].at = @ + 1]
                /\ UNCHANGED <<rlock, ilock, queue>>
           ELSE Finish(i, FALSE) /\ Unlock(i) /\ UNCHANGED <<disk, tmp>>
        /\ UNCHANGED <<dirs, builds, catalog, search, hist>>

(* _migrate(): one file after the other replaces its predecessor.  One     *)
(* that is no longer in TMP raises an error ...                            *)
Move(i) ==
    LET f == MoveOrder[idx[i].at]
    IN  /\ idx[i].pc = "move" /\ idx[i].at <= Len(MoveOrder)
        /\ IF tmp[f] # 0
           THEN /\ disk' = [disk EXCEPT ![f] = tmp[f]]
                /\ tmp' = [tmp EXCEPT ![f] = 0]
                /\ idx' = [idx EXCEPT ![i].at = @ + 1]
                /\ UNCHANGED <<rlock, ilock, queue>>
           ELSE Finish(i, FALSE) /\ Unlock(i) /\ UNCHANGED <<disk, tmp>>
        /\ UNCHANGED <<dirs, builds, catalog, search, hist>>

(* Mutant: the last file is not moved.                                     *)
MutMoveDone(i) ==
    /\ idx[i].pc = "move" /\ idx[i].at >= Len(MoveOrder)
    /\ Unlock(i) /\ Finish(i, TRUE) /\ Found(i)
    /\ tmp' = NoFiles /\ dirs' = dirs \ {"tmp"}
    /\ UNCHANGED <<disk, builds, catalog, gdd, glock, query, hist>>

(* ... and so does TMP if it cannot be removed at the end.  The index is   *)
(* unlocked.                                                               *)
MoveDone(i) ==
    /\ idx[i].pc = "move" /\ idx[i].at > Len(MoveOrder)
    /\ Unlock(i)
    /\ IF "tmp" \in dirs
       THEN Finish(i, TRUE) /\ Found(i)
       ELSE Finish(i, FALSE) /\ UNCHANGED available
    /\ tmp' = NoFiles /\ dirs' = dirs \ {"tmp"}
    /\ UNCHANGED <<disk, builds, catalog, gdd, glock, query, hist>>

(* __purge_search_index(): if there is an index its lock is taken and      *)
(* given up at once ...                                                    *)
Purge(i) ==
    /\ idx[i].pc = "purge"
    /\ IF "index" \in dirs /\ ilock # None
       THEN Finish(i, idx[i].op = "repair")
       ELSE /\ idx' = [idx EXCEPT ![i].pc = IF "index" \in dirs THEN "rename" ELSE "check"]
            /\ UNCHANGED <<rlock, queue>>
    /\ UNCHANGED <<disks, ilock, search, hist>>

(* ... then the directory is renamed, with TMP and the lock file in it,    *)
(* which fails if it is gone or index.old is there.                        *)
Rename(i) ==
    /\ idx[i].pc = "rename"
    /\ IF "index" \in dirs /\ "old" \notin dirs
       THEN /\ disk' = NoFiles /\ tmp' = NoFiles
            /\ dirs' = {"old"}
            /\ ilock' = None
            /\ idx' = [idx EXCEPT ![i].pc = "rmtree",
                                  ![worker].lost = @ \/ (i # worker /\ Relies)]
            /\ straddled' = (straddled \/ glock # None)
            /\ raced' = (raced \/ OtherBusy(i))
            /\ UNCHANGED <<rlock, queue>>
       ELSE Finish(i, FALSE) /\ UNCHANGED <<disk, tmp, dirs, ilock, straddled, raced>>
    /\ UNCHANGED <<builds, catalog, search, cut>>

Rmtree(i) ==
    /\ idx[i].pc = "rmtree"
    /\ dirs' = dirs \ {"old"}
    /\ idx' = [idx EXCEPT ![i].pc = IF i = worker THEN "reset" ELSE "check"]
    /\ UNCHANGED <<disk, tmp, builds, catalog, rlock, ilock, queue, search, hist>>

(* reset_search() of the depot: TermQuery.clear_cache(), under its lock.   *)
Reset ==
    /\ idx[worker].pc = "reset" /\ glock = None
    /\ gdd' = NoEntry
    /\ idx' = [idx EXCEPT ![worker].pc = "check"]
    /\ UNCHANGED <<disks, rlock, ilock, queue, available, glock, query, hist>>

(* The depot is killed and started again, which queues a refresh; pkgrepo  *)
(* is killed.  What is on disk stays, locks go with their process.         *)
Dies(i) ==
    /\ cut' = (cut \/ (idx[i].pc \in {"stub", "move"} /\ idx[i].at \in 2 .. Len(MoveOrder)))
    /\ Unlock(i)
    /\ idx' = [idx EXCEPT ![i] = NoTask]

Restart ==
    /\ Dies(worker)
    /\ tasks' = <<"refresh">> /\ unfinished' = 1
    /\ rlock' = None /\ available' = FALSE /\ gdd' = NoEntry /\ glock' = None
    /\ query' = [s \in Searcher |-> NoQuery]
    /\ UNCHANGED <<disks, straddled, raced>>

KillPkgrepo ==
    /\ idx[pkgrepo].pc # "idle"
    /\ Dies(pkgrepo)
    /\ UNCHANGED <<disks, rlock, queue, search, straddled, raced>>
-----------------------------------------------------------------------------
(* Queries.                                                                *)
At(s, l) == query[s].pc = l
Goto(s, l) == query' = [query EXCEPT ![s].pc = l]
SearchUnchanged == UNCHANGED <<disks, rlock, ilock, idx, queue, hist>>

(* __check_search(): is there a consistent index?  While files are being   *)
(* moved it waits, or gives up after its timeout.  A change of state first *)
(* resets the cache; without an index the search is refused.               *)
CheckSearch(s) ==
    /\ At(s, "idle")
    /\ \/ Consistent /\ Goto(s, IF available THEN "init" ELSE "resetOn")
       \/ ~Consistent /\ available /\ Goto(s, "resetOff")
    /\ UNCHANGED <<available, gdd, glock>>
    /\ SearchUnchanged

ResetSearch(s) ==
    /\ At(s, "resetOn") \/ At(s, "resetOff")
    /\ glock = None
    /\ gdd' = NoEntry
    /\ Goto(s, IF At(s, "resetOn") THEN "flagOn" ELSE "flagOff")
    /\ UNCHANGED <<available, glock>>
    /\ SearchUnchanged

SetAvailable(s) ==
    /\ \/ At(s, "flagOn") /\ available' = TRUE /\ Goto(s, "init")
       \/ At(s, "flagOff") /\ available' = FALSE /\ Goto(s, "idle")
    /\ UNCHANGED <<gdd, glock>>
    /\ SearchUnchanged

(* TermQuery.set_info(): __init_gdd() makes the entry, without the lock.   *)
InitGdd(s) ==
    /\ At(s, "init")
    /\ gdd' = IF gdd = NoEntry THEN NewEntry ELSE gdd
    /\ Goto(s, "lock")
    /\ UNCHANGED <<available, glock>>
    /\ SearchUnchanged

(* The lock is taken; if the entry is gone, KeyError is raised before the  *)
(* try that releases the lock.                                             *)
LockGdd(s) ==
    /\ At(s, "lock") /\ glock = None
    /\ glock' = s
    /\ query' = [query EXCEPT ![s] = [NoQuery EXCEPT
                     !.pc = IF gdd = NoEntry THEN "dead" ELSE "open"]]
    /\ UNCHANGED <<available, gdd>>
    /\ SearchUnchanged

Current(s) == OpenOrder[query[s].at]
CloseAll == gdd' = [f \in DOMAIN gdd |-> [gdd[f] EXCEPT !.open = FALSE]]
Fail(s) == glock' = None /\ query' = [query EXCEPT ![s] = NoQuery]

(* consistent_open(): the next file is opened.  Files are all present or   *)
(* all absent; a handle left open in the cache is a RuntimeError, and no   *)
(* index at all is a NoIndexException.                                     *)
OpenFile(s) ==
    LET f == Current(s)
        b == disk[f]
        first == query[s].at = 1
        missing == ~first /\ query[s].hand[OpenOrder[1]] = 0
    IN  /\ At(s, "open")
        /\ \/ /\ b # 0 /\ ~missing /\ f \in Shared /\ gdd[f].open
              /\ Fail(s) /\ UNCHANGED gdd
           \/ /\ b # 0 /\ ~missing /\ (f \in Shared => ~gdd[f].open)
              /\ query' = [query EXCEPT ![s].pc = "stat", ![s].hand[f] = b]
              /\ gdd' = IF f \in Shared THEN [gdd EXCEPT ![f].open = TRUE] ELSE gdd
              /\ UNCHANGED glock
           \/ /\ (b = 0 /\ ~first /\ ~missing) \/ (b # 0 /\ missing)
              /\ CloseAll /\ Goto(s, "retry") /\ UNCHANGED glock
           \/ /\ b = 0 /\ (first \/ missing)
              /\ IF query[s].at < Len(OpenOrder)
                 THEN query' = [query EXCEPT ![s].at = @ + 1, ![s].hand[f] = 0]
                      /\ UNCHANGED <<gdd, glock>>
                 ELSE Fail(s) /\ UNCHANGED gdd
        /\ UNCHANGED available
        /\ SearchUnchanged

(* set_file_handle() examines the path, not the open file, and only once   *)
(* in the life of a dictionary; then the version of the file is compared.  *)
StatFile(s) ==
    LET f == Current(s)
        examine == f \in Shared /\ gdd[f].stat = 0
        b == query[s].hand[f]
        last == query[s].at = Len(OpenOrder)
    IN  /\ At(s, "stat")
        /\ examine => disk[f] # 0
        /\ IF VersionOf(query[s].hand[OpenOrder[1]]) # VersionOf(b)
           THEN /\ gdd' = [g \in Shared |-> [gdd[g] EXCEPT
                              !.open = FALSE,
                              !.stat = IF g = f /\ examine THEN disk[f] ELSE @]]
                /\ Goto(s, "retry")
           ELSE /\ gdd' = IF examine THEN [gdd EXCEPT ![f].stat = disk[f]] ELSE gdd
                /\ query' = IF last
                            THEN [query EXCEPT ![s].at = 1,
                                     ![s].pc = IF query[s].again THEN "read" ELSE "compare"]
                            ELSE [query EXCEPT ![s].at = @ + 1, ![s].pc = "open"]
        /\ UNCHANGED <<available, glock>>
        /\ SearchUnchanged

(* ... or the path is gone: a missing file after one that was there.       *)
StatMissing(s) ==
    LET f == Current(s)
    IN  /\ At(s, "stat")
        /\ f \in Shared /\ gdd[f].stat = 0 /\ disk[f] = 0
        /\ CloseAll /\ Goto(s, "retry")
        /\ UNCHANGED <<available, glock>>
        /\ SearchUnchanged

(* Inconsistent files: start over, or give up after the timeout.  (After   *)
(* the first timeout set_info() drops fmri_offsets and tries the others    *)
(* again for as long: the two files of offsets are one here, so that is a  *)
(* Retry, and only the second timeout is a GiveUp.)                        *)
Retry(s) ==
    /\ At(s, "retry")
    /\ query' = [query EXCEPT ![s].pc = "open", ![s].at = 1, ![s].hand = NoQuery.hand]
    /\ UNCHANGED <<available, gdd, glock>>
    /\ SearchUnchanged

GiveUp(s) ==
    /\ At(s, "retry")
    /\ Fail(s)
    /\ UNCHANGED <<available, gdd>>
    /\ SearchUnchanged

(* should_reread(): the file at the path is not the one that was examined, *)
(* or it was not read yet.                                                 *)
Changed(f) == disk[f] # gdd[f].stat \/ gdd[f].data = 0

(* The cache is compared with the files.  os.stat() of a file that is gone *)
(* raises outside of the try that closes the handles.  If one changed, new *)
(* dictionaries take the place of the cached ones and are opened afresh;   *)
(* otherwise the query goes on with the cached ones.                       *)
Compare(s) ==
    /\ At(s, "compare")
    /\ LET f == OpenOrder[query[s].at]
       IN  \/ /\ disk[f] = 0
              /\ Fail(s) /\ UNCHANGED gdd
           \/ /\ disk[f] # 0 /\ Changed(f)
              /\ gdd' = NewEntry
              /\ query' = [query EXCEPT ![s] = [NoQuery EXCEPT !.pc = "open", !.again = TRUE]]
              /\ UNCHANGED glock
           \/ /\ disk[f] # 0 /\ ~Changed(f)
              /\ IF query[s].at < Cardinality(Shared)
                 THEN query' = [query EXCEPT ![s].at = @ + 1] /\ UNCHANGED <<gdd, glock>>
                 ELSE /\ CloseAll /\ glock' = None
                      /\ query' = [query EXCEPT ![s].pc = "search",
                                                ![s].got = [g \in Shared |-> gdd[g].data]]
    /\ UNCHANGED available
    /\ SearchUnchanged

(* Mutant: the lock of the cache is kept.                                  *)
MutReadDicts(s) ==
    /\ At(s, "read")
    /\ gdd' = [f \in Shared |-> [gdd[f] EXCEPT !.data = query[s].hand[f], !.open = FALSE]]
    /\ query' = [query EXCEPT ![s].pc = "search",
                              ![s].got = [f \in Shared |-> query[s].hand[f]]]
    /\ UNCHANGED <<available, glock>>
    /\ SearchUnchanged

(* The dictionaries are read through the open handles, and closed.         *)
ReadDicts(s) ==
    /\ At(s, "read")
    /\ gdd' = [f \in Shared |-> [gdd[f] EXCEPT !.data = query[s].hand[f], !.open = FALSE]]
    /\ glock' = None
    /\ query' = [query EXCEPT ![s].pc = "search",
                              ![s].got = [f \in Shared |-> query[s].hand[f]]]
    /\ UNCHANGED available
    /\ SearchUnchanged

(* The main dictionary is searched at the cached offsets.                  *)
Answer(s) ==
    /\ At(s, "search")
    /\ query' = [query EXCEPT ![s] = NoQuery]
    /\ UNCHANGED <<available, gdd, glock>>
    /\ SearchUnchanged
-----------------------------------------------------------------------------
QueryStep(s) ==
    \/ ResetSearch(s) \/ SetAvailable(s) \/ InitGdd(s) \/ LockGdd(s)
    \/ OpenFile(s) \/ StatFile(s) \/ StatMissing(s) \/ GiveUp(s) \/ Compare(s)
    \/ ReadDicts(s) \/ Answer(s)
IndexStep(i) ==
    \/ Check(i) \/ Setup(i) \/ Stub(i) \/ StubDone(i)
    \/ Lock(i) \/ Write(i) \/ Move(i) \/ MoveDone(i)
    \/ Purge(i) \/ Rename(i) \/ Rmtree(i)

Next ==
    \/ PublishBegin \/ PublishEnd \/ Get \/ LockStore \/ Reset
    \/ Restart \/ KillPkgrepo
    \/ \E t \in Requests : Put(t)
    \/ \E t \in Commands : StartPkgrepo(t)
    \/ \E i \in Indexer : IndexStep(i)
    \/ \E s \in Searcher : CheckSearch(s) \/ Retry(s) \/ QueryStep(s)

(* Every thread runs on, and the timeout of consistent_open() strikes if   *)
(* the files never agree.                                                  *)
Fairness ==
    \A s \in Searcher : WF_vars(QueryStep(s)) /\ SF_vars(GiveUp(s))

Spec == Init /\ [][Next]_vars /\ Fairness
-----------------------------------------------------------------------------
(* A search reads the main dictionary at offsets of the same build, and    *)
(* maps its package numbers with the list of that build, however the files *)
(* were replaced while it opened, examined and read them and while the     *)
(* cache went stale: version numbers, the once-only examination of files   *)
(* and the order of _migrate() together see to it.  (A purge restarts the  *)
(* version numbers, so a query that straddles one is left out; and so is   *)
(* what two indexers do at once: __purge_search_index() gives up the lock  *)
(* before it renames the index, and with it the file others have locked.)  *)
SearchIsCoherent ==
    \A s \in Searcher : At(s, "search") /\ ~straddled /\ ~raced =>
        \A f \in Shared : query[s].got[f] = query[s].hand["main_dict"]

(* When nobody moves files or writes stubs the index is whole: the files   *)
(* are of one build, or there are none, with the depot and pkgrepo         *)
(* indexing, purging and failing side by side.  A death in the middle of   *)
(* the files leaves pieces, and so may two indexers that both have locked  *)
(* the index because it was renamed in between, or that write stubs.       *)
WholeAtRest ==
    ~cut /\ ~raced /\ (\A i \in Indexer : idx[i].pc \notin {"stub", "move"})
        => \A f, g \in File : disk[f] = disk[g]

(* The packages that a search may find.                                    *)
Indexed == IF disk["main_dict"] = 0 THEN {} ELSE builds[disk["main_dict"]].pkgs

(* A task of the depot ends that updated the index, or found nothing to    *)
(* do, while nobody else updates it.                                       *)
Updated ==
    /\ idx[worker].pc \in {"setup", "stub", "move"} /\ idx'[worker].pc = "idle"
    /\ unfinished' < unfinished /\ available' /\ ilock' = None /\ ~cut' /\ ~raced'

(* A refresh that updated the index, or found nothing to do, leaves every  *)
(* package indexed that was in the catalog when it began, unless pkgrepo   *)
(* purged the index after the refresh had looked what is missing in it.    *)
RefreshIndexes ==
    [][Updated /\ ~idx[worker].lost
       => idx[worker].due \subseteq Indexed']_vars

(* The same with no exception: "update all search indices".                *)
RefreshIsComplete ==
    [][Updated => idx[worker].due \subseteq Indexed']_vars

(* Every search ends, with an answer or an exception, unless a thread died *)
(* with the lock of the cache.                                             *)
SearchEnds ==
    \A s \in Searcher :
        ~At(s, "idle") ~> At(s, "idle") \/ \E t \in Searcher : At(t, "dead")
=============================================================================
