--------------------------- MODULE DepotSearchProofs ---------------------------
(***************************************************************************)
(* Proofs about DepotSearch for any packages, threads, queue limit and     *)
(* number of builds: the index is whole at rest, a refresh indexes what it *)
(* found in the catalog, and a search is coherent.                         *)
(*                                                                         *)
(* Builds are told apart by numbers, files only by version numbers, which  *)
(* a purge starts again.  The argument has four layers: that an indexer is *)
(* alone until a race through the gap of the purge (Alone), what the files *)
(* on disk have in common while it moves them (DiskInv), that a build      *)
(* which was in the place of a file and is no longer never comes back      *)
(* (Seen, Past), and what a query that has the lock of the cache may       *)
(* conclude from a version number (Held).                                  *)
(***************************************************************************)
EXTENDS DepotSearch, FiniteSetTheorems, TLAPS

(* The place of a file in the order of _migrate().                         *)
Pos(f) == CASE f = "manf" -> 1
            [] f = "full_fmri" -> 2
            [] f = "main_dict" -> 3
            [] OTHER -> 4
(* An indexer replaces files on disk: from TMP, or by stubs.               *)
Moving(i) == idx[i].pc \in {"stub", "move"}
(* Where it believes to have the lock of the index.                        *)
Locking(i) == idx[i].pc \in {"read", "move"}
(* Where a query has the lock of the cache.                                *)
Holding == {"open", "stat", "retry", "compare", "read"}

Dict == [stat : Nat, data : Nat, open : BOOLEAN]
Build == [ver : Nat \ {0}, pkgs : SUBSET Pkg]
TaskPcs == {"idle", "lock", "check", "setup", "stub", "begin", "read", "move", "purge",
            "rename", "rmtree", "reset"}
Task == [pc : TaskPcs, op : {"none", "refresh", "rebuild", "repair"},
         build : Nat, at : 1 .. 5, due : SUBSET Pkg, todo : SUBSET Pkg, lost : BOOLEAN]
Query == [pc : QueryPcs, at : 1 .. 3, again : BOOLEAN,
          hand : [File -> Nat], got : [Shared -> Nat]]

(* The types of the state; the owner of the thread lock and the count of   *)
(* unfinished tasks do not matter here.                                    *)
TypeInv ==
    /\ disk \in [File -> Nat] /\ tmp \in [File -> Nat]
    /\ builds \in Seq(Build) /\ catalog \subseteq Pkg
    /\ ilock \in Indexer \cup {None} /\ idx \in [Indexer -> Task]
    /\ tasks \in Seq({"refresh", "rebuild"})
    /\ gdd = NoEntry \/ gdd \in [Shared -> Dict]
    /\ glock \in Searcher \cup {None} /\ query \in [Searcher -> Query]
    /\ cut \in BOOLEAN /\ straddled \in BOOLEAN /\ raced \in BOOLEAN

(* Files and indexers have builds there are.                               *)
InRange ==
    /\ \A f \in File : disk[f] <= Len(builds) /\ tmp[f] <= Len(builds)
    /\ \A i \in Indexer : idx[i].build <= Len(builds)

(* The lock of the cache belongs to the query that opens and reads files.  *)
CacheLock ==
    \A s \in Searcher : query[s].pc \in Holding => glock = s /\ gdd # NoEntry

(* Until two indexers race, one that reads or writes files is alone, in a  *)
(* directory that is there; the lock of the index is its own, and TMP has  *)
(* the files it has yet to move.                                           *)
Alone ==
    /\ \A i \in Indexer : ilock = i <=> Locking(i)
    /\ \A i, j \in Indexer : Busy(i) /\ Busy(j) => i = j
    /\ \A i \in Indexer : Busy(i) => "index" \in dirs
    /\ \A i \in Indexer : idx[i].pc = "move" =>
           /\ idx[i].build # 0
           /\ \A f \in File : Pos(f) >= idx[i].at => tmp[f] = idx[i].build

-----------------------------------------------------------------------------
(* What the orders of the files are.                                       *)
LEMMA Orders ==
    /\ File = {"manf", "full_fmri", "main_dict", "offsets"}
    /\ Len(MoveOrder) = 4 /\ Len(OpenOrder) = 3
    /\ MoveOrder[1] = "manf" /\ MoveOrder[2] = "full_fmri"
    /\ MoveOrder[3] = "main_dict" /\ MoveOrder[4] = "offsets"
    /\ OpenOrder[1] = "manf" /\ OpenOrder[2] = "offsets" /\ OpenOrder[3] = "main_dict"
    /\ Shared = {"manf", "offsets"} /\ Shared \subseteq File
<1>1. DOMAIN MoveOrder = 1 .. 4
    BY DEF MoveOrder
<1>2. File = {MoveOrder[1], MoveOrder[2], MoveOrder[3], MoveOrder[4]}
    BY <1>1 DEF File
<1>3. Len(MoveOrder) = 4 /\ Len(OpenOrder) = 3
    BY DEF MoveOrder, OpenOrder
<1>4. /\ MoveOrder[1] = "manf" /\ MoveOrder[2] = "full_fmri"
      /\ MoveOrder[3] = "main_dict" /\ MoveOrder[4] = "offsets"
    BY DEF MoveOrder
<1>5. OpenOrder[1] = "manf" /\ OpenOrder[2] = "offsets" /\ OpenOrder[3] = "main_dict"
    BY DEF OpenOrder
<1> QED
    BY <1>2, <1>3, <1>4, <1>5 DEF Shared

(* The cache has two files.                                                *)
LEMMA SharedCount == Cardinality(Shared) = 2
<1>1. IsFiniteSet({}) /\ Cardinality({}) = 0
    BY FS_EmptySet
<1>2. IsFiniteSet({} \cup {"manf"}) /\ Cardinality({} \cup {"manf"}) = 1
    BY <1>1, FS_AddElement
<1>3. Cardinality(({} \cup {"manf"}) \cup {"offsets"}) = 2
    BY <1>2, FS_AddElement
<1>4. Shared = ({} \cup {"manf"}) \cup {"offsets"}
    BY DEF Shared
<1> QED
    BY <1>3, <1>4

(* A file and its place determine each other.                              *)
LEMMA Positions ==
    /\ \A f \in File : Pos(f) \in 1 .. 4 /\ MoveOrder[Pos(f)] = f
    /\ \A k \in 1 .. 4 : MoveOrder[k] \in File /\ Pos(MoveOrder[k]) = k
BY Orders DEF Pos

(* The constants of the model have their types.                            *)
LEMMA Starts ==
    /\ NewDict \in Dict /\ NewEntry \in [Shared -> Dict]
    /\ NoTask \in Task /\ NoQuery \in Query
    /\ NoEntry \notin [Shared -> Dict] /\ NewEntry # NoEntry
<1>1. NewDict \in Dict
    BY DEF NewDict, Dict
<1>2. NewEntry \in [Shared -> Dict]
    BY <1>1 DEF NewEntry
<1>3. NoTask \in Task
    BY DEF NoTask, Task, TaskPcs
<1>4. NoQuery \in Query
    BY Orders DEF NoQuery, Query, QueryPcs
<1>5. DOMAIN NoEntry = {} /\ Shared # {}
    BY DEF NoEntry, Shared
<1> QED
    BY <1>1, <1>2, <1>3, <1>4, <1>5

(* Updates of a task.                                                      *)
LEMMA TaskUpdates ==
    ASSUME NEW t \in Task, NEW p \in TaskPcs, NEW b \in Nat, NEW k \in 1 .. 5,
           NEW c \in SUBSET Pkg, NEW x \in BOOLEAN
    PROVE  /\ [t EXCEPT !.pc = p] \in Task
           /\ [t EXCEPT !.at = k] \in Task
           /\ [t EXCEPT !.lost = x] \in Task
           /\ [t EXCEPT !.pc = p, !.due = c] \in Task
           /\ [t EXCEPT !.pc = p, !.op = "repair"] \in Task
           /\ [t EXCEPT !.pc = p, !.build = b, !.at = k] \in Task
           /\ [t EXCEPT !.pc = p, !.build = b, !.at = k, !.todo = c] \in Task
           /\ [t EXCEPT !.pc = p, !.todo = c, !.lost = x] \in Task
BY DEF Task

(* The fields of a task.                                                   *)
LEMMA TaskFields ==
    ASSUME TypeInv, NEW i \in Indexer
    PROVE  /\ idx[i] \in Task /\ idx[i].pc \in TaskPcs
           /\ idx[i].at \in 1 .. 5 /\ idx[i].build \in Nat
           /\ idx[i].due \subseteq Pkg /\ idx[i].todo \subseteq Pkg /\ idx[i].lost \in BOOLEAN
<1>1. idx[i] \in Task
    BY DEF TypeInv
<1> QED
    BY <1>1 DEF Task

(* There are two indexers.                                                 *)
LEMMA Actors ==
    /\ worker \in Indexer /\ pkgrepo \in Indexer /\ worker # pkgrepo
    /\ None \notin Indexer /\ \A i \in Indexer : i = worker \/ i = pkgrepo
BY ActorsAssumption DEF Indexer

-----------------------------------------------------------------------------
(* What a step of an indexer makes of its task.                            *)
Becomes(i, t) == t \in Task /\ idx' = [idx EXCEPT ![i] = t]

(* The end of a task, and an exception of the indexer.                     *)
LEMMA Ends ==
    ASSUME TypeInv, NEW i \in Indexer, NEW r,
           Finish(i, r) \/ Inconsistent(i) \/ Dies(i)
    PROVE  /\ \/ Becomes(i, NoTask)
              \/ Becomes(i, [idx[i] EXCEPT !.pc = "purge", !.op = "repair"])
           /\ ~Dies(i) => UNCHANGED tasks
<1>0. idx[i] \in Task /\ "purge" \in TaskPcs /\ NoTask \in Task
    BY TaskFields, Starts DEF TaskPcs
<1>a. [idx[i] EXCEPT !.pc = "purge", !.op = "repair"] \in Task
    BY <1>0 DEF Task
<1>1. CASE Finish(i, r) \/ Dies(i)
    BY <1>0, <1>1 DEF Finish, Dies, Becomes
<1>2. CASE Inconsistent(i)
    <2>1. CASE idx[i].op = "refresh"
        <3>1. idx' = [idx EXCEPT ![i] = [idx[i] EXCEPT !.pc = "purge", !.op = "repair"]]
            BY <1>2, <2>1 DEF Inconsistent
        <3> QED
            BY <1>2, <1>a, <2>1, <3>1 DEF Inconsistent, Becomes, queue
    <2>2. CASE idx[i].op # "refresh"
        BY <1>0, <1>2, <2>2 DEF Inconsistent, Finish, Becomes
    <2> QED
        BY <2>1, <2>2
<1> QED
    BY <1>1, <1>2

(* What every step of an indexer finds.                                    *)
LEMMA TaskBasics ==
    ASSUME TypeInv, NEW i \in Indexer
    PROVE  /\ idx[i] \in Task /\ idx[i].at \in 1 .. 5 /\ idx[i].build \in Nat
           /\ \A p \in TaskPcs : [idx[i] EXCEPT !.pc = p] \in Task
           /\ NoTask \in Task
           /\ {"setup", "begin", "stub", "read", "move", "rename", "rmtree", "check",
               "reset", "purge"} \subseteq TaskPcs
<1>1. /\ idx[i] \in Task /\ idx[i].at \in 1 .. 5 /\ idx[i].build \in Nat
      /\ \A p \in TaskPcs : [idx[i] EXCEPT !.pc = p] \in Task
    BY TaskFields, TaskUpdates
<1>2. NoTask \in Task
    BY Starts
<1> QED
    BY <1>1, <1>2 DEF TaskPcs

(* The end of a task.                                                      *)
LEMMA FinishShape ==
    ASSUME TypeInv, NEW i \in Indexer, NEW r, Finish(i, r)
    PROVE  Becomes(i, NoTask)
BY TaskBasics DEF Finish, Becomes

(* check_for_updates() decides between setup() and an update.              *)
LEMMA CheckShape ==
    ASSUME TypeInv, NEW i \in Indexer, Check(i)
    PROVE  \E p \in {"setup", "begin"} :
               /\ p = "setup" => ToIndex = {}
               /\ Becomes(i, [idx[i] EXCEPT !.pc = p, !.todo = ToIndex, !.lost = FALSE])
<1> USE Orders DEF TypeInv, disks, queue, search, hist
<1>1. ToIndex \in SUBSET Pkg
    BY DEF ToIndex
<1>2. ASSUME NEW p \in {"setup", "begin"}
      PROVE  [idx[i] EXCEPT !.pc = p, !.todo = ToIndex, !.lost = FALSE] \in Task
    <2>1. idx[i] \in Task /\ p \in TaskPcs
        BY TaskBasics
    <2> QED
        BY <1>1, <2>1 DEF Task
<1>3. PICK p \in {"setup", "begin"} :
         /\ p = "setup" => ToIndex = {}
         /\ idx' = [idx EXCEPT ![i].pc = p, ![i].todo = ToIndex, ![i].lost = FALSE]
    BY DEF Check
<1>4. idx' = [idx EXCEPT ![i] = [idx[i] EXCEPT !.pc = p, !.todo = ToIndex, !.lost = FALSE]]
    BY <1>3
<1> QED
    BY <1>2, <1>3, <1>4 DEF Becomes

(* setup() returns, raises, or begins to write stubs.                      *)
LEMMA SetupShape ==
    ASSUME TypeInv, NEW i \in Indexer, Setup(i)
    PROVE  \/ /\ UNCHANGED <<builds, raced>>
              /\ \/ Becomes(i, NoTask)
                 \/ Becomes(i, [idx[i] EXCEPT !.pc = "purge", !.op = "repair"])
           \/ /\ Absent /\ builds' = Append(builds, [ver |-> 1, pkgs |-> {}])
              /\ raced' = (raced \/ OtherBusy(i))
              /\ Becomes(i, [idx[i] EXCEPT !.pc = "stub", !.build = Len(builds'), !.at = 1])
<1> USE Orders DEF TypeInv, disks, queue, search, hist
<1>1. CASE (Inconsistent(i) \/ Finish(i, TRUE)) /\ UNCHANGED <<builds, raced>>
    BY <1>1, Ends
<1>2. CASE /\ Absent /\ builds' = Append(builds, [ver |-> 1, pkgs |-> {}])
           /\ idx' = [idx EXCEPT ![i].pc = "stub", ![i].build = Len(builds'), ![i].at = 1]
           /\ raced' = (raced \/ OtherBusy(i))
    <2>1. Len(builds') \in Nat /\ 1 \in 1 .. 5
        <3>1. [ver |-> 1, pkgs |-> {}] \in Build
            BY DEF Build
        <3>2. Append(builds, [ver |-> 1, pkgs |-> {}]) \in Seq(Build)
            BY <3>1
        <3> QED
            BY <1>2, <3>2
    <2>2. [idx[i] EXCEPT !.pc = "stub", !.build = Len(builds'), !.at = 1] \in Task
        BY TaskBasics, <2>1, TaskUpdates
    <2>3. idx' = [idx EXCEPT ![i] = [idx[i] EXCEPT !.pc = "stub", !.build = Len(builds'), !.at = 1]]
        BY <1>2
    <2> QED
        BY <1>2, <2>2, <2>3 DEF Becomes
<1> QED
    BY <1>1, <1>2 DEF Setup

(* A stub is written, or the directory is gone.                            *)
LEMMA StubShape ==
    ASSUME TypeInv, NEW i \in Indexer, Stub(i)
    PROVE  /\ idx[i].at \in 1 .. 4
           /\ \/ "index" \notin dirs /\ UNCHANGED disk /\ Becomes(i, NoTask)
              \/ /\ disk' = [disk EXCEPT ![MoveOrder[idx[i].at]] = idx[i].build]
                 /\ Becomes(i, [idx[i] EXCEPT !.at = idx[i].at + 1])
<1> USE Orders DEF TypeInv, disks, queue, search, hist
<1>1. idx[i].at \in 1 .. 4 /\ idx[i].at + 1 \in 1 .. 5
    BY TaskBasics DEF Stub
<1>2. [idx[i] EXCEPT !.at = idx[i].at + 1] \in Task
    BY TaskBasics, <1>1, TaskUpdates
<1>3. CASE "index" \in dirs
    <2>1. /\ idx' = [idx EXCEPT ![i] = [idx[i] EXCEPT !.at = idx[i].at + 1]]
          /\ disk' = [disk EXCEPT ![MoveOrder[idx[i].at]] = idx[i].build]
        BY <1>3 DEF Stub
    <2> QED
        BY <1>1, <1>2, <2>1 DEF Becomes
<1>4. CASE "index" \notin dirs
    BY FinishShape, <1>1, <1>4 DEF Stub
<1> QED
    BY <1>3, <1>4

(* The stubs are written, or the files are moved.                          *)
LEMMA DoneShape ==
    ASSUME TypeInv, NEW i \in Indexer, StubDone(i) \/ MoveDone(i)
    PROVE  idx[i].at = 5 /\ Becomes(i, NoTask)
<1>1. idx[i].at > 4 /\ idx[i].at \in 1 .. 5
    BY Orders, TaskFields DEF StubDone, MoveDone
<1>2. Finish(i, TRUE) \/ Finish(i, FALSE)
    BY DEF StubDone, MoveDone
<1>3. Becomes(i, NoTask)
    BY <1>2, FinishShape
<1>4. idx[i].at = 5
    BY <1>1
<1> QED
    BY <1>3, <1>4

(* lock() of the indexer.                                                  *)
LEMMA LockShape ==
    ASSUME TypeInv, NEW i \in Indexer, Lock(i)
    PROVE  \/ Becomes(i, NoTask) /\ UNCHANGED <<dirs, ilock, raced>>
           \/ /\ Becomes(i, [idx[i] EXCEPT !.pc = "read"])
              /\ ilock' = i /\ dirs' = dirs \cup {"index"}
              /\ raced' = (raced \/ OtherBusy(i))
<1> USE Orders DEF TypeInv, disks, queue, search, hist
<1>1. CASE ilock # None
    BY FinishShape, <1>1 DEF Lock
<1>2. CASE ilock = None
    <2>1. idx' = [idx EXCEPT ![i] = [idx[i] EXCEPT !.pc = "read"]]
        BY <1>2 DEF Lock
    <2> QED
        BY TaskBasics, <1>2, <2>1 DEF Lock, Becomes
<1> QED
    BY <1>1, <1>2

(* The test of the lock before a purge.                                    *)
LEMMA PurgeShape ==
    ASSUME TypeInv, NEW i \in Indexer, Purge(i)
    PROVE  \/ Becomes(i, NoTask)
           \/ \E p \in {"rename", "check"} : Becomes(i, [idx[i] EXCEPT !.pc = p])
<1> USE Orders DEF TypeInv, disks, queue, search, hist
<1>1. CASE "index" \in dirs /\ ilock # None
    BY FinishShape, <1>1 DEF Purge
<1>2. CASE ~("index" \in dirs /\ ilock # None)
    <2>1. PICK p \in {"rename", "check"} : idx' = [idx EXCEPT ![i].pc = p]
        BY <1>2 DEF Purge
    <2>2. idx' = [idx EXCEPT ![i] = [idx[i] EXCEPT !.pc = p]]
        BY <2>1
    <2> QED
        BY TaskBasics, <2>2 DEF Becomes
<1> QED
    BY <1>1, <1>2

(* The renamed directory is removed.                                       *)
LEMMA RmtreeShape ==
    ASSUME TypeInv, NEW i \in Indexer, Rmtree(i)
    PROVE  \E p \in {"reset", "check"} : Becomes(i, [idx[i] EXCEPT !.pc = p])
<1> USE Orders DEF TypeInv, disks, queue, search, hist
<1>1. PICK p \in {"reset", "check"} : idx' = [idx EXCEPT ![i].pc = p]
    BY DEF Rmtree
<1>2. idx' = [idx EXCEPT ![i] = [idx[i] EXCEPT !.pc = p]]
    BY <1>1
<1> QED
    BY TaskBasics, <1>2 DEF Becomes

(* The build that an update makes.                                         *)
NewVersion == 1 + (IF Absent THEN 1 ELSE VersionOf(disk["main_dict"]))
NewPackages(i) == idx[i].todo \cup (IF Absent THEN {} ELSE builds[disk["main_dict"]].pkgs)
NewRecord(i) == [ver |-> NewVersion, pkgs |-> NewPackages(i)]

(* An update is written to TMP, or the index is inconsistent.              *)
LEMMA WriteShape ==
    ASSUME TypeInv, InRange, NEW i \in Indexer, Write(i)
    PROVE  \/ /\ UNCHANGED <<builds, tmp, dirs>> /\ Unlock(i)
              /\ \/ Becomes(i, NoTask)
                 \/ Becomes(i, [idx[i] EXCEPT !.pc = "purge", !.op = "repair"])
           \/ /\ Absent \/ Consistent
              /\ NewRecord(i) \in Build /\ builds' = Append(builds, NewRecord(i))
              /\ tmp' = [f \in File |-> Len(builds')]
              /\ dirs' = dirs \cup {"index", "tmp"} /\ UNCHANGED ilock
              /\ Becomes(i, [idx[i] EXCEPT !.pc = "move", !.build = Len(builds'), !.at = 1,
                                           !.todo = {}])
<1> USE Orders DEF TypeInv, disks, queue, search, hist
<1>1. CASE ~(Absent \/ Consistent)
    <2>1. Inconsistent(i) /\ Unlock(i) /\ UNCHANGED <<builds, tmp, dirs>>
        BY <1>1 DEF Write
    <2> QED
        BY <2>1, Ends
<1>2. CASE Absent \/ Consistent
    <2>0. /\ builds' = Append(builds, NewRecord(i)) /\ tmp' = [f \in File |-> Len(builds')]
          /\ dirs' = dirs \cup {"index", "tmp"} /\ UNCHANGED ilock
          /\ idx' = [idx EXCEPT ![i].pc = "move", ![i].build = Len(builds'), ![i].at = 1,
                                ![i].todo = {}]
        BY <1>2 DEF Write, NewRecord, NewVersion, NewPackages
    <2>1. \A b \in 1 .. Len(builds) : builds[b] \in Build
        OBVIOUS
    <2>2. ~Absent => disk["main_dict"] \in 1 .. Len(builds)
        <3>1. ~Absent => disk["main_dict"] # 0
            BY <1>2 DEF Consistent, Present
        <3>2. disk["main_dict"] \in Nat /\ disk["main_dict"] <= Len(builds) /\ Len(builds) \in Nat
            BY DEF InRange
        <3> QED
            BY <3>1, <3>2
    <2>3. NewVersion \in Nat \ {0}
        BY <2>1, <2>2 DEF NewVersion, VersionOf, Build
    <2>4. NewPackages(i) \subseteq Pkg
        BY <2>1, <2>2, TaskFields DEF NewPackages, Build
    <2>5. NewRecord(i) \in Build
        BY <2>3, <2>4 DEF NewRecord, Build
    <2>6. Len(builds') \in Nat
        BY <2>0, <2>5
    <2>7. [idx[i] EXCEPT !.pc = "move", !.build = Len(builds'), !.at = 1, !.todo = {}] \in Task
        <3>1. idx[i] \in Task /\ "move" \in TaskPcs /\ 1 \in 1 .. 5 /\ {} \in SUBSET Pkg
            BY TaskBasics
        <3> QED
            BY <2>6, <3>1, TaskUpdates
    <2>8. idx' = [idx EXCEPT ![i] = [idx[i] EXCEPT !.pc = "move", !.build = Len(builds'),
                                                   !.at = 1, !.todo = {}]]
        BY <2>0
    <2> QED
        BY <1>2, <2>0, <2>5, <2>7, <2>8 DEF Becomes
<1> QED
    BY <1>1, <1>2

(* A file is moved, or it is not in TMP.                                   *)
LEMMA MoveShape ==
    ASSUME TypeInv, NEW i \in Indexer, Move(i)
    PROVE  /\ idx[i].at \in 1 .. 4 /\ MoveOrder[idx[i].at] \in File
           /\ \/ /\ tmp[MoveOrder[idx[i].at]] = 0 /\ UNCHANGED <<disk, tmp>>
                 /\ Unlock(i) /\ Becomes(i, NoTask)
              \/ /\ disk' = [disk EXCEPT ![MoveOrder[idx[i].at]] = tmp[MoveOrder[idx[i].at]]]
                 /\ tmp' = [tmp EXCEPT ![MoveOrder[idx[i].at]] = 0] /\ UNCHANGED ilock
                 /\ Becomes(i, [idx[i] EXCEPT !.at = idx[i].at + 1])
<1> USE Orders DEF TypeInv, disks, queue, search, hist
<1>1. idx[i].at \in 1 .. 4 /\ idx[i].at + 1 \in 1 .. 5
    BY TaskBasics DEF Move
<1>2. MoveOrder[idx[i].at] \in File
    BY <1>1, Positions
<1>3. [idx[i] EXCEPT !.at = idx[i].at + 1] \in Task
    BY <1>1, TaskBasics, TaskUpdates
<1>4. CASE tmp[MoveOrder[idx[i].at]] # 0
    <2>1. /\ idx' = [idx EXCEPT ![i] = [idx[i] EXCEPT !.at = idx[i].at + 1]]
          /\ disk' = [disk EXCEPT ![MoveOrder[idx[i].at]] = tmp[MoveOrder[idx[i].at]]]
          /\ tmp' = [tmp EXCEPT ![MoveOrder[idx[i].at]] = 0] /\ UNCHANGED ilock
        BY <1>4 DEF Move
    <2> QED
        BY <1>1, <1>2, <1>3, <2>1 DEF Becomes
<1>5. CASE tmp[MoveOrder[idx[i].at]] = 0
    BY <1>1, <1>2, <1>5, FinishShape DEF Move
<1> QED
    BY <1>4, <1>5

(* The directory is renamed, or that fails.  If pkgrepo does it, what the  *)
(* depot found in the index is lost.                                       *)
LEMMA RenameShape ==
    ASSUME TypeInv, NEW i \in Indexer, Rename(i)
    PROVE  \/ Becomes(i, NoTask) /\ UNCHANGED <<disk, tmp, dirs, ilock, straddled, raced>>
           \/ /\ disk' = NoFiles /\ tmp' = NoFiles /\ dirs' = {"old"} /\ ilock' = None
              /\ straddled' = (straddled \/ glock # None)
              /\ raced' = (raced \/ OtherBusy(i))
              /\ idx' \in [Indexer -> Task] /\ idx'[i].pc = "rmtree"
              /\ \A j \in Indexer : /\ j # i => idx'[j].pc = idx[j].pc
                                    /\ idx'[j].build = idx[j].build /\ idx'[j].at = idx[j].at
                                    /\ idx'[j].due = idx[j].due
              /\ Relies' => idx'[worker].lost
<1> USE Orders DEF TypeInv, disks, queue, search, hist
<1>0. idx[i] \in Task /\ idx[worker] \in Task /\ worker \in Indexer
    BY Actors
<1>1. CASE ~("index" \in dirs /\ "old" \notin dirs)
    BY <1>1, FinishShape DEF Rename
<1>2. CASE "index" \in dirs /\ "old" \notin dirs
    <2>1. /\ disk' = NoFiles /\ tmp' = NoFiles /\ dirs' = {"old"} /\ ilock' = None
          /\ straddled' = (straddled \/ glock # None) /\ raced' = (raced \/ OtherBusy(i))
          /\ idx' = [idx EXCEPT ![i].pc = "rmtree",
                                ![worker].lost = @ \/ (i # worker /\ Relies)]
        BY <1>2 DEF Rename
    <2>2. CASE i = worker
        <3>1. idx' = [idx EXCEPT ![i] = [idx[i] EXCEPT !.pc = "rmtree",
                                                       !.lost = idx[i].lost \/ FALSE]]
            BY <1>0, <2>1, <2>2
        <3>2. idx[i].lost \in BOOLEAN /\ "rmtree" \in TaskPcs
            BY TaskFields DEF TaskPcs
        <3>3. [idx[i] EXCEPT !.pc = "rmtree", !.lost = idx[i].lost \/ FALSE] \in Task
            BY <1>0, <3>2 DEF Task
        <3>4. /\ idx' \in [Indexer -> Task] /\ idx'[i].pc = "rmtree"
              /\ \A j \in Indexer : /\ j # i => idx'[j].pc = idx[j].pc
                                    /\ idx'[j].build = idx[j].build /\ idx'[j].at = idx[j].at
                                    /\ idx'[j].due = idx[j].due
            BY <1>0, <3>1, <3>3 DEF Task
        <3>5. ~Relies'
            BY <2>2, <3>4 DEF Relies, Busy
        <3> QED
            BY <2>1, <3>4, <3>5
    <2>3. CASE i # worker
        <3> DEFINE w == [idx[worker] EXCEPT !.lost = idx[worker].lost \/ Relies]
                   t == [idx[i] EXCEPT !.pc = "rmtree"]
        <3>1. idx' = [idx EXCEPT ![i] = t, ![worker] = w]
            BY <1>0, <2>1, <2>3
        <3>2. idx[worker].lost \in BOOLEAN /\ "rmtree" \in TaskPcs
            BY <1>0, TaskFields DEF TaskPcs
        <3>3. t \in Task /\ w \in Task
            BY <1>0, <3>2 DEF Task
        <3>4. /\ t.pc = "rmtree" /\ t.build = idx[i].build /\ t.at = idx[i].at /\ t.due = idx[i].due
              /\ w.pc = idx[worker].pc /\ w.build = idx[worker].build /\ w.at = idx[worker].at
              /\ w.due = idx[worker].due /\ (Relies => w.lost)
            BY <1>0 DEF Task
        <3>5. idx'[i] = t /\ idx'[worker] = w
              /\ \A j \in Indexer \ {i, worker} : idx'[j] = idx[j]
            BY <1>0, <2>3, <3>1
        <3>a. idx' \in [Indexer -> Task]
            BY <1>0, <3>1, <3>3
        <3> HIDE DEF w, t
        <3>6. Relies' => Relies
            BY <3>4, <3>5 DEF Relies, Busy
        <3>7. \A j \in Indexer : /\ j # i => idx'[j].pc = idx[j].pc
                                 /\ idx'[j].build = idx[j].build /\ idx'[j].at = idx[j].at
                                 /\ idx'[j].due = idx[j].due
            BY <3>4, <3>5
        <3> QED
            BY <2>1, <3>4, <3>5, <3>6, <3>7, <3>a
    <2> QED
        BY <2>2, <2>3
<1> QED
    BY <1>1, <1>2

-----------------------------------------------------------------------------
(* What a step does to the files and to the indexers: nothing, or one of   *)
(* six things.                                                             *)
Only(i) == idx' \in [Indexer -> Task] /\ \A j \in Indexer \ {i} : idx'[j] = idx[j]
Idle ==
    /\ UNCHANGED <<disk, tmp, dirs, builds, ilock, idx, cut, straddled, raced>>
    /\ catalog \subseteq catalog' /\ catalog' \subseteq Pkg
(* The task of a step that neither works on files nor has looked for what  *)
(* there is to do.                                                         *)
Plain(i, t) ==
    /\ t \in Task /\ t.pc \notin {"stub", "read", "move", "setup", "begin"}
    /\ t.build \in {0, idx[i].build} /\ t.due \in {idx[i].due, {}, catalog}
Looked(i, t) ==
    /\ t \in Task /\ t.pc \in {"setup", "begin"} /\ (t.pc = "setup" => ToIndex = {})
    /\ t.todo = ToIndex /\ t.lost = FALSE
    /\ t.build = idx[i].build /\ t.due = idx[i].due
(* An indexer stops to work on files, or did not.                          *)
Rests(i) ==
    /\ Only(i) /\ (Plain(i, idx'[i]) \/ Looked(i, idx'[i]))
    /\ UNCHANGED <<disk, builds, catalog, straddled, raced>> /\ cut' \in BOOLEAN
    /\ tmp' = tmp \/ (Busy(i) /\ tmp' = NoFiles)
    /\ "index" \in dirs => "index" \in dirs'
    /\ ilock' = ilock \/ Unlock(i)
    /\ Locking(i) => Unlock(i)
    /\ Alone /\ ~cut' => ~cut /\ ~(Moving(i) /\ idx[i].at \in 2 .. 4)
    /\ Alone /\ Moving(i) /\ i = worker /\ available' => idx[i].at = 5
(* It takes the lock of the index.                                         *)
Enters(i) ==
    /\ Only(i) /\ idx'[i] = [idx[i] EXCEPT !.pc = "read"]
    /\ idx[i].pc = "begin" /\ ilock = None /\ ilock' = i
    /\ "index" \in dirs' /\ raced' = (raced \/ OtherBusy(i))
    /\ UNCHANGED <<disk, tmp, builds, catalog, cut, straddled>>
(* It begins to write stubs.                                               *)
Stubs(i) ==
    /\ Only(i) /\ idx'[i] = [idx[i] EXCEPT !.pc = "stub", !.build = Len(builds'), !.at = 1]
    /\ idx[i].pc = "setup" /\ Absent /\ builds' = Append(builds, [ver |-> 1, pkgs |-> {}])
    /\ "index" \in dirs' /\ raced' = (raced \/ OtherBusy(i))
    /\ UNCHANGED <<disk, tmp, ilock, catalog, cut, straddled>>
(* It has written an update to TMP.                                        *)
Writes(i) ==
    /\ Only(i)
    /\ idx'[i] = [idx[i] EXCEPT !.pc = "move", !.build = Len(builds'), !.at = 1, !.todo = {}]
    /\ idx[i].pc = "read" /\ (Absent \/ Consistent)
    /\ NewRecord(i) \in Build /\ builds' = Append(builds, NewRecord(i))
    /\ tmp' = [f \in File |-> Len(builds')] /\ "index" \in dirs'
    /\ UNCHANGED <<disk, ilock, catalog, cut, straddled, raced>>
(* It puts a file in its place.                                            *)
Moves(i) ==
    /\ Only(i) /\ idx'[i] = [idx[i] EXCEPT !.at = idx[i].at + 1]
    /\ Moving(i) /\ idx[i].at \in 1 .. 4
    /\ \E b \in Nat : /\ disk' = [disk EXCEPT ![MoveOrder[idx[i].at]] = b]
                      /\ b <= Len(builds) /\ (Alone => b = idx[i].build)
    /\ tmp' \in {tmp, [tmp EXCEPT ![MoveOrder[idx[i].at]] = 0]}
    /\ UNCHANGED <<dirs, builds, ilock, catalog, cut, straddled, raced>>
(* It renames the directory of the index.                                  *)
Clears(i) ==
    /\ idx[i].pc = "rename" /\ idx' \in [Indexer -> Task] /\ idx'[i].pc = "rmtree"
    /\ \A j \in Indexer : /\ j # i => idx'[j].pc = idx[j].pc
                          /\ idx'[j].build = idx[j].build /\ idx'[j].at = idx[j].at
                          /\ idx'[j].due = idx[j].due
    /\ Relies' => idx'[worker].lost
    /\ disk' = NoFiles /\ tmp' = NoFiles /\ ilock' = None
    /\ straddled' = (straddled \/ glock # None) /\ raced' = (raced \/ OtherBusy(i))
    /\ UNCHANGED <<builds, catalog, cut>>

Kind ==
    Idle \/ \E i \in Indexer : Rests(i) \/ Enters(i) \/ Stubs(i) \/ Writes(i) \/ Moves(i) \/ Clears(i)

(* A task is replaced, those of others stay.                               *)
LEMMA OnlyOne ==
    ASSUME TypeInv, NEW i \in Indexer, NEW t, Becomes(i, t)
    PROVE  Only(i) /\ idx'[i] = t
BY DEF TypeInv, Becomes, Only

(* The tasks that are plain.                                               *)
LEMMA PlainTasks ==
    ASSUME TypeInv, NEW i \in Indexer,
           NEW p \in {"lock", "check", "purge", "rename", "rmtree", "reset"},
           NEW o \in {"refresh", "rebuild"}
    PROVE  /\ Plain(i, NoTask)
           /\ Plain(i, [idx[i] EXCEPT !.pc = p])
           /\ Plain(i, [idx[i] EXCEPT !.pc = p, !.op = "repair"])
           /\ Plain(i, [idx[i] EXCEPT !.pc = p, !.due = catalog])
           /\ Plain(i, [NoTask EXCEPT !.pc = p, !.op = o])
<1>1. idx[i] \in Task /\ p \in TaskPcs /\ catalog \in SUBSET Pkg /\ NoTask \in Task
    BY TaskFields, Starts DEF TaskPcs, TypeInv
<1>2. NoTask.pc = "idle" /\ NoTask.build = 0 /\ NoTask.due = {}
    BY DEF NoTask
<1>3. Plain(i, NoTask)
    BY <1>1, <1>2 DEF Plain
<1>4. Plain(i, [idx[i] EXCEPT !.pc = p])
    BY <1>1 DEF Plain, Task
<1>5. Plain(i, [idx[i] EXCEPT !.pc = p, !.op = "repair"])
    BY <1>1 DEF Plain, Task
<1>6. Plain(i, [idx[i] EXCEPT !.pc = p, !.due = catalog])
    BY <1>1 DEF Plain, Task
<1>7. Plain(i, [NoTask EXCEPT !.pc = p, !.op = o])
    BY <1>1, <1>2 DEF Plain, Task
<1> QED
    BY <1>3, <1>4, <1>5, <1>6, <1>7

(* A step of an indexer that is at rest before and after it.               *)
LEMMA RestsOnly ==
    ASSUME TypeInv, NEW i \in Indexer, NEW t, Becomes(i, t), Plain(i, t) \/ Looked(i, t),
           ~Busy(i), UNCHANGED <<disk, tmp, builds, catalog, ilock, cut, straddled, raced>>,
           "index" \in dirs => "index" \in dirs'
    PROVE  Rests(i)
<1>1. Only(i) /\ idx'[i] = t
    BY OnlyOne
<1>2. ~Moving(i) /\ ~Locking(i) /\ cut' \in BOOLEAN
    BY DEF Busy, Moving, Locking, TypeInv
<1> QED
    BY <1>1, <1>2 DEF Rests

(* The death of an indexer.                                                *)
LEMMA DeathRests ==
    ASSUME TypeInv, NEW i \in Indexer, Dies(i),
           UNCHANGED <<disk, tmp, dirs, builds, catalog, straddled, raced>>,
           i = worker => ~available'
    PROVE  Rests(i)
<1>1. Becomes(i, NoTask) /\ Plain(i, NoTask) /\ Unlock(i)
    BY Starts, PlainTasks DEF Dies, Becomes
<1>2. Only(i) /\ idx'[i] = NoTask
    BY <1>1, OnlyOne
<1>3. cut' \in BOOLEAN /\ (~cut' => ~cut /\ ~(Moving(i) /\ idx[i].at \in 2 .. 4))
    BY Orders DEF Dies, TypeInv, Moving
<1> QED
    BY <1>1, <1>2, <1>3 DEF Rests

(* Steps of the queue, of pkgrepo and of publications.                     *)
LEMMA QueueKinds ==
    ASSUME TypeInv,
           \/ PublishBegin \/ PublishEnd \/ Get \/ LockStore \/ Reset \/ Restart \/ KillPkgrepo
           \/ \E t \in Requests : Put(t)
           \/ \E t \in Commands : StartPkgrepo(t)
    PROVE  Kind
<1> USE Actors DEF disks, queue, search, hist, Kind
<1>0. \A t \in Requests \cup Commands : t \in {"refresh", "rebuild"}
    BY TasksAssumption
<1>t. catalog \subseteq Pkg /\ idx \in [Indexer -> Task]
    BY DEF TypeInv
<1>1. CASE PublishBegin
    BY <1>1, <1>t DEF PublishBegin, Idle
<1>2. CASE PublishEnd
    BY <1>2, <1>t DEF PublishEnd, Idle
<1>3. CASE \E t \in Requests : Put(t)
    BY <1>3, <1>t DEF Put, Idle
<1>4. CASE Get
    <2> DEFINE n == [NoTask EXCEPT !.pc = "lock", !.op = Head(tasks)]
    <2>1. Head(tasks) \in {"refresh", "rebuild"}
        BY <1>4 DEF Get, TypeInv
    <2>2. Plain(worker, n)
        BY <2>1, PlainTasks
    <2>3. Becomes(worker, n)
        BY <1>4, <2>2 DEF Get, Becomes, Plain
    <2>4. ~Busy(worker) /\ UNCHANGED <<disk, tmp, dirs, builds, catalog, ilock, cut, straddled, raced>>
        BY <1>4 DEF Get, Busy
    <2> HIDE DEF n
    <2> QED
        BY <2>2, <2>3, <2>4, RestsOnly
<1>5. ASSUME NEW t \in Commands, StartPkgrepo(t)
      PROVE  Kind
    <2>1. PICK p \in {"purge", "check"} : p = FirstStep(t)
        BY DEF FirstStep
    <2> DEFINE n == [NoTask EXCEPT !.pc = p, !.op = t]
    <2>2. Plain(pkgrepo, n)
        BY <1>0, PlainTasks
    <2>3. Becomes(pkgrepo, n)
        BY <1>5, <2>1, <2>2 DEF StartPkgrepo, Becomes, Plain
    <2>4. ~Busy(pkgrepo) /\ UNCHANGED <<disk, tmp, dirs, builds, catalog, ilock, cut, straddled, raced>>
        BY <1>5 DEF StartPkgrepo, Busy
    <2> HIDE DEF n
    <2> QED
        BY <2>2, <2>3, <2>4, RestsOnly
<1>6. CASE LockStore
    <2>1. ~Busy(worker) /\ UNCHANGED <<disk, tmp, dirs, builds, catalog, ilock, cut, straddled, raced>>
        BY <1>6 DEF LockStore, Busy
    <2>2. PICK p \in {"purge", "check"} : p = FirstStep(idx[worker].op)
        BY DEF FirstStep
    <2>3. CASE idx' = [idx EXCEPT ![worker].pc = p, ![worker].due = catalog]
        <3>1. Plain(worker, [idx[worker] EXCEPT !.pc = p, !.due = catalog])
            BY PlainTasks
        <3>2. idx' = [idx EXCEPT ![worker] = [idx[worker] EXCEPT !.pc = p, !.due = catalog]]
            BY <1>t, <2>3
        <3>3. Becomes(worker, [idx[worker] EXCEPT !.pc = p, !.due = catalog])
            BY <3>1, <3>2 DEF Becomes, Plain
        <3> QED
            BY <2>1, <3>1, <3>3, RestsOnly
    <2>4. CASE idx' = [idx EXCEPT ![worker] = NoTask]
        <3>1. Plain(worker, NoTask) /\ Becomes(worker, NoTask)
            BY <2>4, PlainTasks, Starts DEF Becomes
        <3> QED
            BY <2>1, <3>1, RestsOnly
    <2> QED
        BY <1>6, <2>2, <2>3, <2>4 DEF LockStore
<1>7. CASE Reset
    <2>1. ~Busy(worker) /\ UNCHANGED <<disk, tmp, dirs, builds, catalog, ilock, cut, straddled, raced>>
        BY <1>7 DEF Reset, Busy
    <2>2. Plain(worker, [idx[worker] EXCEPT !.pc = "check"])
        BY PlainTasks
    <2>3. idx' = [idx EXCEPT ![worker] = [idx[worker] EXCEPT !.pc = "check"]]
        BY <1>t, <1>7 DEF Reset
    <2>4. Becomes(worker, [idx[worker] EXCEPT !.pc = "check"])
        BY <2>2, <2>3 DEF Becomes, Plain
    <2> QED
        BY <2>1, <2>2, <2>4, RestsOnly
<1>8. CASE Restart
    BY <1>8, DeathRests DEF Restart
<1>9. CASE KillPkgrepo
    BY <1>9, DeathRests DEF KillPkgrepo
<1> QED
    BY <1>1, <1>2, <1>3, <1>4, <1>5, <1>6, <1>7, <1>8, <1>9

(* Steps of an indexer.                                                    *)
LEMMA IndexKinds ==
    ASSUME TypeInv, InRange, NEW i \in Indexer, IndexStep(i)
    PROVE  Kind
<1> USE DEF disks, queue, search, hist
<1>0. idx[i] \in Task
    BY TaskFields
<1>n. Plain(i, NoTask) /\ Plain(i, [idx[i] EXCEPT !.pc = "purge", !.op = "repair"])
      /\ \A p \in {"lock", "check", "purge", "rename", "rmtree", "reset"} :
            Plain(i, [idx[i] EXCEPT !.pc = p])
    BY PlainTasks
<1>1. CASE Check(i)
    <2>1. PICK p \in {"setup", "begin"} :
               /\ p = "setup" => ToIndex = {}
               /\ Becomes(i, [idx[i] EXCEPT !.pc = p, !.todo = ToIndex, !.lost = FALSE])
        BY <1>1, CheckShape
    <2>2. Looked(i, [idx[i] EXCEPT !.pc = p, !.todo = ToIndex, !.lost = FALSE])
        <3>1. [idx[i] EXCEPT !.pc = p, !.todo = ToIndex, !.lost = FALSE] \in Task
            BY <2>1 DEF Becomes
        <3> QED
            BY <1>0, <2>1, <3>1 DEF Looked, Task
    <2>3. ~Busy(i) /\ UNCHANGED <<disk, tmp, dirs, builds, catalog, ilock, cut, straddled, raced>>
        BY <1>1 DEF Check, Busy
    <2> QED
        BY <2>1, <2>2, <2>3, RestsOnly DEF Kind
<1>2. CASE Setup(i)
    <2>0. /\ idx[i].pc = "setup" /\ ~Busy(i) /\ "index" \in dirs'
          /\ UNCHANGED <<disk, tmp, catalog, ilock, cut, straddled>>
        BY <1>2 DEF Setup, Busy
    <2>1. CASE /\ UNCHANGED <<builds, raced>>
               /\ \/ Becomes(i, NoTask)
                  \/ Becomes(i, [idx[i] EXCEPT !.pc = "purge", !.op = "repair"])
        BY <1>n, <2>0, <2>1, RestsOnly DEF Kind
    <2>2. CASE /\ Absent /\ builds' = Append(builds, [ver |-> 1, pkgs |-> {}])
               /\ raced' = (raced \/ OtherBusy(i))
               /\ Becomes(i, [idx[i] EXCEPT !.pc = "stub", !.build = Len(builds'), !.at = 1])
        BY <2>0, <2>2, OnlyOne DEF Stubs, Kind
    <2> QED
        BY <1>2, <2>1, <2>2, SetupShape
<1>3. CASE Stub(i)
    <2>0. /\ idx[i].at \in 1 .. 4 /\ Moving(i) /\ Busy(i) /\ ~Locking(i)
          /\ UNCHANGED <<tmp, dirs, builds, ilock, catalog, cut, straddled, raced>>
        BY <1>3, StubShape DEF Stub, Moving, Busy, Locking
    <2>1. CASE "index" \notin dirs /\ UNCHANGED disk /\ Becomes(i, NoTask)
        <3>1. ~Alone
            BY <2>0, <2>1 DEF Alone
        <3>2. cut' \in BOOLEAN
            BY <2>0 DEF TypeInv
        <3>3. Only(i) /\ idx'[i] = NoTask
            BY <2>1, OnlyOne
        <3> QED
            BY <1>n, <2>0, <2>1, <3>1, <3>2, <3>3 DEF Rests, Kind
    <2>2. CASE /\ disk' = [disk EXCEPT ![MoveOrder[idx[i].at]] = idx[i].build]
               /\ Becomes(i, [idx[i] EXCEPT !.at = idx[i].at + 1])
        <3>1. Only(i) /\ idx'[i] = [idx[i] EXCEPT !.at = idx[i].at + 1]
            BY <2>2, OnlyOne
        <3>2. idx[i].build \in Nat /\ idx[i].build <= Len(builds)
            BY TaskFields DEF InRange
        <3>3. \E b \in Nat : /\ disk' = [disk EXCEPT ![MoveOrder[idx[i].at]] = b]
                             /\ b <= Len(builds) /\ (Alone => b = idx[i].build)
            BY <2>2, <3>2
        <3> QED
            BY <2>0, <3>1, <3>3 DEF Moves, Kind
    <2> QED
        BY <1>3, <2>1, <2>2, StubShape
<1>4. CASE StubDone(i)
    <2>0. /\ idx[i].at = 5 /\ ~Locking(i) /\ Becomes(i, NoTask)
          /\ UNCHANGED <<disk, tmp, dirs, builds, ilock, catalog, cut, straddled, raced>>
        BY <1>4, DoneShape DEF StubDone, Locking
    <2>1. Only(i) /\ idx'[i] = NoTask
        BY <2>0, OnlyOne
    <2>2. cut' \in BOOLEAN /\ idx[i].at \notin 2 .. 4
        BY <2>0 DEF TypeInv
    <2> QED
        BY <1>n, <2>0, <2>1, <2>2 DEF Rests, Kind
<1>5. CASE Lock(i)
    <2>0. idx[i].pc = "begin" /\ ~Busy(i) /\ UNCHANGED <<disk, tmp, builds, catalog, cut, straddled>>
        BY <1>5 DEF Lock, Busy
    <2>1. CASE Becomes(i, NoTask) /\ UNCHANGED <<dirs, ilock, raced>>
        BY <1>n, <2>0, <2>1, RestsOnly DEF Kind
    <2>2. CASE /\ Becomes(i, [idx[i] EXCEPT !.pc = "read"])
               /\ ilock' = i /\ dirs' = dirs \cup {"index"}
               /\ raced' = (raced \/ OtherBusy(i))
        <3>1. Only(i) /\ idx'[i] = [idx[i] EXCEPT !.pc = "read"]
            BY <2>2, OnlyOne
        <3>2. idx'[i].pc = "read"
            BY <1>0, <3>1 DEF Task
        <3>3. ilock = None
            <4>1. ASSUME ilock # None PROVE FALSE
                <5>1. Becomes(i, NoTask)
                    BY <1>5, <4>1, FinishShape DEF Lock
                <5>2. idx'[i].pc = "idle"
                    BY <5>1, OnlyOne DEF NoTask
                <5> QED
                    BY <3>2, <5>2
            <4> QED
                BY <4>1
        <3> QED
            BY <2>0, <2>2, <3>1, <3>3 DEF Enters, Kind
    <2> QED
        BY <1>5, <2>1, <2>2, LockShape
<1>6. CASE Write(i)
    <2>0. idx[i].pc = "read" /\ Busy(i) /\ ~Moving(i)
          /\ UNCHANGED <<disk, catalog, cut, straddled, raced>>
        BY <1>6 DEF Write, Busy, Moving
    <2>1. CASE /\ UNCHANGED <<builds, tmp, dirs>> /\ Unlock(i)
               /\ \/ Becomes(i, NoTask)
                  \/ Becomes(i, [idx[i] EXCEPT !.pc = "purge", !.op = "repair"])
        <3>1. Only(i) /\ Plain(i, idx'[i])
            BY <1>n, <2>1, OnlyOne
        <3>2. cut' \in BOOLEAN
            BY <2>0 DEF TypeInv
        <3> QED
            BY <2>0, <2>1, <3>1, <3>2 DEF Rests, Kind
    <2>2. CASE /\ Absent \/ Consistent
               /\ NewRecord(i) \in Build /\ builds' = Append(builds, NewRecord(i))
               /\ tmp' = [f \in File |-> Len(builds')]
               /\ dirs' = dirs \cup {"index", "tmp"} /\ UNCHANGED ilock
               /\ Becomes(i, [idx[i] EXCEPT !.pc = "move", !.build = Len(builds'), !.at = 1,
                                            !.todo = {}])
        BY <2>0, <2>2, OnlyOne DEF Writes, Kind
    <2> QED
        BY <1>6, <2>1, <2>2, WriteShape
<1>7. CASE Move(i)
    <2> DEFINE f == MoveOrder[idx[i].at]
    <2>0. /\ idx[i].at \in 1 .. 4 /\ f \in File /\ idx[i].pc = "move" /\ Moving(i) /\ Busy(i)
          /\ UNCHANGED <<dirs, builds, catalog, cut, straddled, raced>>
        BY <1>7, MoveShape DEF Move, Moving, Busy
    <2>a. Alone => tmp[f] = idx[i].build /\ idx[i].build # 0
        <3>1. Pos(f) = idx[i].at
            BY <2>0, Positions
        <3>2. idx[i].at >= idx[i].at
            BY <2>0
        <3> QED
            BY <2>0, <3>1, <3>2 DEF Alone
    <2>b. tmp[f] \in Nat /\ tmp[f] <= Len(builds)
        BY <2>0 DEF TypeInv, InRange
    <2> HIDE DEF f
    <2>1. CASE tmp[f] = 0 /\ UNCHANGED <<disk, tmp>> /\ Unlock(i) /\ Becomes(i, NoTask)
        <3>1. ~Alone
            BY <2>1, <2>a
        <3>2. cut' \in BOOLEAN
            BY <2>0 DEF TypeInv
        <3>3. Only(i) /\ idx'[i] = NoTask
            BY <2>1, OnlyOne
        <3> QED
            BY <1>n, <2>0, <2>1, <3>1, <3>2, <3>3 DEF Rests, Kind
    <2>2. CASE /\ disk' = [disk EXCEPT ![f] = tmp[f]]
               /\ tmp' = [tmp EXCEPT ![f] = 0] /\ UNCHANGED ilock
               /\ Becomes(i, [idx[i] EXCEPT !.at = idx[i].at + 1])
        <3>1. Only(i) /\ idx'[i] = [idx[i] EXCEPT !.at = idx[i].at + 1]
            BY <2>2, OnlyOne
        <3>2. \E b \in Nat : /\ disk' = [disk EXCEPT ![f] = b]
                             /\ b <= Len(builds) /\ (Alone => b = idx[i].build)
            BY <2>2, <2>a, <2>b
        <3> QED
            BY <2>0, <2>2, <3>1, <3>2 DEF Moves, Kind, f
    <2> QED
        BY <1>7, <2>1, <2>2, MoveShape DEF f
<1>8. CASE MoveDone(i)
    <2>0. /\ idx[i].at = 5 /\ Busy(i) /\ Unlock(i) /\ Becomes(i, NoTask) /\ tmp' = NoFiles
          /\ dirs' = dirs \ {"tmp"}
          /\ UNCHANGED <<disk, builds, catalog, cut, straddled, raced>>
        BY <1>8, DoneShape DEF MoveDone, Busy
    <2>1. Only(i) /\ idx'[i] = NoTask
        BY <2>0, OnlyOne
    <2>2. cut' \in BOOLEAN /\ idx[i].at \notin 2 .. 4
        BY <2>0 DEF TypeInv
    <2> QED
        BY <1>n, <2>0, <2>1, <2>2 DEF Rests, Kind
<1>9. CASE Purge(i)
    <2>0. ~Busy(i) /\ UNCHANGED <<disk, tmp, dirs, builds, catalog, ilock, cut, straddled, raced>>
        BY <1>9 DEF Purge, Busy
    <2>1. PICK t : Becomes(i, t) /\ Plain(i, t)
        BY <1>9, <1>n, PurgeShape
    <2> QED
        BY <2>0, <2>1, RestsOnly DEF Kind
<1>10. CASE Rename(i)
    <2>0. idx[i].pc = "rename" /\ ~Busy(i) /\ UNCHANGED <<builds, catalog, cut>>
        BY <1>10 DEF Rename, Busy
    <2>1. CASE Becomes(i, NoTask) /\ UNCHANGED <<disk, tmp, dirs, ilock, straddled, raced>>
        BY <1>n, <2>0, <2>1, RestsOnly DEF Kind
    <2>2. CASE ~(Becomes(i, NoTask) /\ UNCHANGED <<disk, tmp, dirs, ilock, straddled, raced>>)
        BY <1>10, <2>0, <2>2, RenameShape DEF Clears, Kind
    <2> QED
        BY <2>1, <2>2
<1>11. CASE Rmtree(i)
    <2>0. ~Busy(i) /\ UNCHANGED <<disk, tmp, builds, catalog, ilock, cut, straddled, raced>>
          /\ ("index" \in dirs => "index" \in dirs')
        BY <1>11 DEF Rmtree, Busy
    <2>1. PICK t : Becomes(i, t) /\ Plain(i, t)
        BY <1>11, <1>n, RmtreeShape
    <2> QED
        BY <2>0, <2>1, RestsOnly DEF Kind
<1> QED
    BY <1>1, <1>2, <1>3, <1>4, <1>5, <1>6, <1>7, <1>8, <1>9, <1>10, <1>11 DEF IndexStep

(* Queries leave the files and the indexers alone.                         *)
LEMMA QueriesReadOnly ==
    ASSUME NEW s \in Searcher, CheckSearch(s) \/ Retry(s) \/ QueryStep(s)
    PROVE  SearchUnchanged
BY DEF CheckSearch, Retry, QueryStep, ResetSearch, SetAvailable, InitGdd, LockGdd, OpenFile,
   StatFile, StatMissing, GiveUp, Compare, ReadDicts, Answer

(* Every step is of one kind.                                              *)
LEMMA Kinds ==
    ASSUME TypeInv, InRange, [Next]_vars
    PROVE  Kind
<1>1. CASE UNCHANGED vars
    BY <1>1 DEF vars, Kind, Idle, TypeInv
<1>2. ASSUME NEW s \in Searcher, CheckSearch(s) \/ Retry(s) \/ QueryStep(s)
      PROVE  Kind
    <2>1. SearchUnchanged
        BY <1>2, QueriesReadOnly
    <2> QED
        BY <2>1 DEF SearchUnchanged, disks, hist, Kind, Idle, TypeInv
<1> QED
    BY <1>1, <1>2, QueueKinds, IndexKinds DEF Next

(* The types of the files and the indexers are kept, and their builds are  *)
(* builds there are.                                                       *)
LEMMA KindTypes ==
    ASSUME TypeInv, InRange, Kind
    PROVE  /\ disk' \in [File -> Nat] /\ tmp' \in [File -> Nat]
           /\ builds' \in Seq(Build) /\ catalog' \subseteq Pkg
           /\ ilock' \in Indexer \cup {None} /\ idx' \in [Indexer -> Task]
           /\ cut' \in BOOLEAN /\ straddled' \in BOOLEAN /\ raced' \in BOOLEAN
           /\ InRange'
<1> DEFINE Goal == /\ disk' \in [File -> Nat] /\ tmp' \in [File -> Nat]
                   /\ builds' \in Seq(Build) /\ catalog' \subseteq Pkg
                   /\ ilock' \in Indexer \cup {None} /\ idx' \in [Indexer -> Task]
                   /\ cut' \in BOOLEAN /\ straddled' \in BOOLEAN /\ raced' \in BOOLEAN
                   /\ InRange'
<1> USE Orders
<1>a. /\ disk \in [File -> Nat] /\ tmp \in [File -> Nat] /\ builds \in Seq(Build)
      /\ catalog \subseteq Pkg /\ ilock \in Indexer \cup {None} /\ idx \in [Indexer -> Task]
      /\ cut \in BOOLEAN /\ straddled \in BOOLEAN /\ raced \in BOOLEAN /\ Len(builds) \in Nat
    BY DEF TypeInv
<1>b. \A f \in File : disk[f] \in Nat /\ disk[f] <= Len(builds)
                      /\ tmp[f] \in Nat /\ tmp[f] <= Len(builds)
    BY <1>a DEF InRange
<1>c. \A j \in Indexer : idx[j].build \in Nat /\ idx[j].build <= Len(builds) /\ idx[j] \in Task
    BY TaskFields DEF InRange
<1>z. \A f \in File : NoFiles[f] = 0
    BY DEF NoFiles
<1>y. NoFiles \in [File -> Nat]
    BY DEF NoFiles
<1>d. ASSUME NEW i \in Indexer, NEW r \in Build, builds' = Append(builds, r),
             Only(i), idx'[i].build = Len(builds'), UNCHANGED disk,
             tmp' = tmp \/ tmp' = [f \in File |-> Len(builds')]
      PROVE  builds' \in Seq(Build) /\ InRange' /\ tmp' \in [File -> Nat]
    <2>1. builds' \in Seq(Build) /\ Len(builds') = Len(builds) + 1
        BY <1>a, <1>d
    <2>2. \A j \in Indexer : idx'[j].build <= Len(builds')
        <3>1. \A j \in Indexer \ {i} : idx'[j].build = idx[j].build
            BY <1>d DEF Only
        <3> QED
            BY <1>a, <1>c, <1>d, <2>1, <3>1
    <2>3. \A f \in File : tmp'[f] \in Nat /\ tmp'[f] <= Len(builds')
        BY <1>a, <1>b, <1>d, <2>1
    <2>4. tmp' \in [File -> Nat]
        BY <1>a, <1>d, <2>1
    <2>5. \A f \in File : disk'[f] <= Len(builds')
        BY <1>a, <1>b, <1>d, <2>1
    <2> QED
        BY <2>1, <2>2, <2>3, <2>4, <2>5 DEF InRange
<1>1. CASE Idle
    BY <1>1, <1>a, InRange DEF Idle, InRange
<1>2. ASSUME NEW i \in Indexer, Rests(i) PROVE Goal
    <2>1. \A j \in Indexer : idx'[j].build <= Len(builds)
        <3>1. idx'[i].build \in {0, idx[i].build} /\ \A j \in Indexer \ {i} : idx'[j] = idx[j]
            BY <1>2 DEF Rests, Only, Plain, Looked
        <3> QED
            BY <1>a, <1>c, <3>1
    <2>2. tmp' \in {tmp, NoFiles} /\ disk' = disk /\ builds' = builds
        BY <1>2 DEF Rests
    <2>3. InRange'
        BY <1>a, <1>b, <1>z, <2>1, <2>2 DEF InRange
    <2>4. ilock' \in Indexer \cup {None}
        BY <1>a, <1>2 DEF Rests, Unlock
    <2> QED
        BY <1>2, <1>a, <1>y, <2>2, <2>3, <2>4 DEF Rests, Only
<1>3. ASSUME NEW i \in Indexer, Enters(i) PROVE Goal
    <2>1. \A j \in Indexer : idx'[j].build = idx[j].build
        BY <1>3, <1>c DEF Enters, Only, Task
    <2>2. InRange' /\ raced' \in BOOLEAN
        BY <1>3, <1>a, <2>1 DEF Enters, InRange
    <2> QED
        BY <1>3, <1>a, <2>2 DEF Enters, Only
<1>4. ASSUME NEW i \in Indexer, Stubs(i) PROVE Goal
    <2>1. [ver |-> 1, pkgs |-> {}] \in Build
        BY DEF Build
    <2>2. idx'[i].build = Len(builds')
        BY <1>4, <1>c DEF Stubs, Task
    <2>3. builds' \in Seq(Build) /\ InRange' /\ tmp' \in [File -> Nat]
        BY <1>4, <1>d, <2>1, <2>2 DEF Stubs
    <2> QED
        BY <1>4, <1>a, <2>3 DEF Stubs, Only
<1>5. ASSUME NEW i \in Indexer, Writes(i) PROVE Goal
    <2>2. idx'[i].build = Len(builds')
        BY <1>5, <1>c DEF Writes, Task
    <2>3. builds' \in Seq(Build) /\ InRange' /\ tmp' \in [File -> Nat]
        BY <1>5, <1>d, <2>2 DEF Writes
    <2> QED
        BY <1>5, <1>a, <2>3 DEF Writes, Only
<1>6. ASSUME NEW i \in Indexer, Moves(i) PROVE Goal
    <2> DEFINE f == MoveOrder[idx[i].at]
    <2>1. PICK b \in Nat : disk' = [disk EXCEPT ![f] = b] /\ b <= Len(builds)
        BY <1>6 DEF Moves
    <2>2. f \in File
        BY <1>6, Positions DEF Moves
    <2>3. tmp' \in {tmp, [tmp EXCEPT ![f] = 0]} /\ builds' = builds
        BY <1>6 DEF Moves
    <2> HIDE DEF f
    <2>4. disk' \in [File -> Nat] /\ tmp' \in [File -> Nat]
        BY <1>a, <2>1, <2>2, <2>3
    <2>5. \A g \in File : disk'[g] <= Len(builds)
        BY <1>a, <1>b, <2>1, <2>2
    <2>6. \A g \in File : tmp'[g] <= Len(builds)
        BY <1>a, <1>b, <2>2, <2>3
    <2>7. \A j \in Indexer : idx'[j].build = idx[j].build
        BY <1>6, <1>c DEF Moves, Only, Task
    <2>8. InRange'
        BY <1>c, <2>3, <2>5, <2>6, <2>7 DEF InRange
    <2> QED
        BY <1>6, <1>a, <2>4, <2>8 DEF Moves, Only
<1>7. ASSUME NEW i \in Indexer, Clears(i) PROVE Goal
    <2>1. \A f \in File : disk'[f] = 0 /\ tmp'[f] = 0
        BY <1>7, <1>z DEF Clears
    <2>2. InRange'
        BY <1>7, <1>a, <1>c, <2>1 DEF Clears, InRange
    <2> QED
        BY <1>7, <1>a, <1>y, <2>2 DEF Clears
<1> QED
    BY <1>1, <1>2, <1>3, <1>4, <1>5, <1>6, <1>7 DEF Kind

(* Steps of indexers and of the queue keep the types.                      *)
LEMMA IndexTypes ==
    ASSUME TypeInv, InRange,
           \/ PublishBegin \/ PublishEnd \/ Get \/ LockStore \/ Reset
           \/ Restart \/ KillPkgrepo
           \/ \E t \in Requests : Put(t)
           \/ \E t \in Commands : StartPkgrepo(t)
           \/ \E i \in Indexer : IndexStep(i)
    PROVE  TypeInv'
<1> USE DEF disks, queue, search, hist
<1>0. Kind
    BY QueueKinds, IndexKinds
<1>a. /\ gdd = NoEntry \/ gdd \in [Shared -> Dict]
      /\ glock \in Searcher \cup {None} /\ query \in [Searcher -> Query]
      /\ tasks \in Seq({"refresh", "rebuild"})
    BY DEF TypeInv
<1> DEFINE Goal == /\ tasks' \in Seq({"refresh", "rebuild"})
                   /\ gdd' = NoEntry \/ gdd' \in [Shared -> Dict]
                   /\ glock' \in Searcher \cup {None} /\ query' \in [Searcher -> Query]
<1>1. ASSUME \/ PublishBegin \/ PublishEnd \/ LockStore \/ KillPkgrepo
             \/ \E t \in Commands : StartPkgrepo(t)
      PROVE  Goal
    BY <1>1, <1>a DEF PublishBegin, PublishEnd, LockStore, KillPkgrepo, StartPkgrepo
<1>2. ASSUME Get PROVE Goal
    <2>1. Tail(tasks) \in Seq({"refresh", "rebuild"})
        BY <1>2, <1>a DEF Get
    <2> QED
        BY <1>2, <1>a, <2>1 DEF Get
<1>3. ASSUME Reset PROVE Goal
    BY <1>3, <1>a DEF Reset
<1>4. ASSUME Restart PROVE Goal
    <2>1. <<"refresh">> \in Seq({"refresh", "rebuild"})
        OBVIOUS
    <2> QED
        BY <1>4, <2>1, Starts DEF Restart
<1>5. ASSUME NEW t \in Requests, Put(t) PROVE Goal
    <2>1. Append(tasks, t) \in Seq({"refresh", "rebuild"})
        BY <1>a, TasksAssumption
    <2> QED
        BY <1>5, <1>a, <2>1 DEF Put
<1>6. ASSUME NEW i \in Indexer, IndexStep(i) PROVE Goal
    <2>1. UNCHANGED <<gdd, glock, query>>
        BY <1>6 DEF IndexStep, Check, Setup, Stub, StubDone, Lock, Write, Move, MoveDone, Purge,
           Rename, Rmtree
    <2>2. UNCHANGED tasks
        BY <1>6 DEF IndexStep, Check, Setup, Stub, StubDone, Lock, Write, Move, MoveDone, Purge,
           Rename, Rmtree, Finish, Inconsistent
    <2> QED
        BY <1>a, <2>1, <2>2
<1>7. Goal
    BY <1>1, <1>2, <1>3, <1>4, <1>5, <1>6
<1> QED
    BY <1>0, <1>7, KindTypes DEF TypeInv

(* The fields of a query.                                                  *)
LEMMA QueryFields ==
    ASSUME TypeInv, NEW s \in Searcher
    PROVE  /\ query[s] \in Query /\ query[s].at \in 1 .. 3 /\ query[s].hand \in [File -> Nat]
           /\ query[s].got \in [Shared -> Nat] /\ query[s].pc \in QueryPcs
           /\ Current(s) \in File
           /\ query[s].at < 3 => query[s].at + 1 \in 1 .. 3
           /\ query[s].at # 3 => query[s].at + 1 \in 1 .. 3
           /\ query[s].at < 2 => query[s].at + 1 \in 1 .. 3
<1>1. query[s] \in Query
    BY DEF TypeInv
<1>2. /\ query[s].at \in 1 .. 3 /\ query[s].hand \in [File -> Nat]
      /\ query[s].got \in [Shared -> Nat] /\ query[s].pc \in QueryPcs
    BY <1>1 DEF Query
<1>3. Current(s) \in File
    BY <1>2, Orders DEF Current
<1> QED
    BY <1>1, <1>2, <1>3

(* The steps of a query keep the types.                                    *)
LEMMA QueryTypes ==
    ASSUME TypeInv, CacheLock, NEW s \in Searcher,
           CheckSearch(s) \/ Retry(s) \/ QueryStep(s)
    PROVE  TypeInv'
<1> USE Orders, Starts DEF TypeInv, disks, queue, hist, SearchUnchanged
<1> DEFINE q == query[s]
<1>a. /\ q \in Query /\ q.at \in 1 .. 3 /\ q.hand \in [File -> Nat]
      /\ q.got \in [Shared -> Nat] /\ q.pc \in QueryPcs
    BY QueryFields
<1>b. Current(s) \in File
    BY QueryFields
<1>c. ASSUME At(s, "open") \/ At(s, "stat") \/ At(s, "compare") \/ At(s, "read")
      PROVE  gdd \in [Shared -> Dict] /\ \A f \in Shared : gdd[f] \in Dict
    BY <1>c DEF CacheLock, Holding, At
<1>d. ASSUME NEW l \in QueryPcs
      PROVE  [q EXCEPT !.pc = l] \in Query
    BY <1>a DEF Query
<1>e. ASSUME NEW l \in QueryPcs, Goto(s, l)
      PROVE  query' \in [Searcher -> Query]
    <2>1. query' = [query EXCEPT ![s] = [q EXCEPT !.pc = l]]
        BY <1>e DEF Goto
    <2> QED
        BY <2>1, <1>d
<1>f. ASSUME Fail(s)
      PROVE  query' \in [Searcher -> Query] /\ glock' \in Searcher \cup {None}
    BY <1>f DEF Fail
<1>g. ASSUME At(s, "open") \/ At(s, "stat") \/ At(s, "compare"), CloseAll
      PROVE  gdd' \in [Shared -> Dict]
    <2>1. gdd \in [Shared -> Dict]
        BY <1>c, <1>g
    <2>2. \A f \in Shared : [gdd[f] EXCEPT !.open = FALSE] \in Dict
        BY <2>1 DEF Dict
    <2>3. gdd' = [f \in Shared |-> [gdd[f] EXCEPT !.open = FALSE]]
        BY <2>1, <1>g DEF CloseAll
    <2> QED
        BY <2>2, <2>3
<1>h. 1 \in 1 .. 3 /\ {"open", "read", "compare"} \subseteq QueryPcs
    BY DEF QueryPcs
<1>1. CASE CheckSearch(s)
    BY <1>1, <1>e DEF CheckSearch, QueryPcs
<1>2. CASE ResetSearch(s)
    BY <1>2, <1>e DEF ResetSearch, QueryPcs
<1>3. CASE SetAvailable(s)
    BY <1>3, <1>e DEF SetAvailable, QueryPcs
<1>4. CASE InitGdd(s)
    BY <1>4, <1>e DEF InitGdd, QueryPcs
<1>5. CASE LockGdd(s)
    <2>1. ASSUME NEW l \in QueryPcs
          PROVE  [NoQuery EXCEPT !.pc = l] \in Query
        BY DEF Query
    <2>2. "dead" \in QueryPcs /\ "open" \in QueryPcs
        BY DEF QueryPcs
    <2> QED
        BY <1>5, <2>1, <2>2 DEF LockGdd
<1>6. CASE OpenFile(s)
    <2> DEFINE f == Current(s)
               b == disk[f]
    <2>0. b \in Nat /\ At(s, "open") /\ gdd \in [Shared -> Dict]
        BY <1>6, <1>b, <1>c DEF OpenFile
    <2>1. CASE Fail(s) /\ UNCHANGED gdd
        BY <1>6, <2>1, <1>f DEF OpenFile
    <2>2. CASE CloseAll /\ Goto(s, "retry") /\ UNCHANGED glock
        BY <1>6, <2>0, <2>2, <1>e, <1>g DEF OpenFile, QueryPcs
    <2>3. CASE /\ query' = [query EXCEPT ![s].pc = "stat", ![s].hand[f] = b]
               /\ gdd' = IF f \in Shared THEN [gdd EXCEPT ![f].open = TRUE] ELSE gdd
               /\ UNCHANGED glock
        <3>1. query' = [query EXCEPT ![s] = [q EXCEPT !.pc = "stat",
                                                      !.hand = [q.hand EXCEPT ![f] = b]]]
            BY <2>3, ZenonT(60)
        <3>2. [q.hand EXCEPT ![f] = b] \in [File -> Nat] /\ "stat" \in QueryPcs
            BY <1>a, <2>0 DEF QueryPcs
        <3>3. [q EXCEPT !.pc = "stat", !.hand = [q.hand EXCEPT ![f] = b]] \in Query
            BY <1>a, <3>2 DEF Query
        <3>4. gdd' \in [Shared -> Dict]
            <4>1. ASSUME f \in Shared PROVE [gdd[f] EXCEPT !.open = TRUE] \in Dict
                BY <2>0, <4>1 DEF Dict
            <4> QED
                BY <2>0, <2>3, <4>1
        <3> QED
            BY <1>6, <2>3, <3>1, <3>3, <3>4 DEF OpenFile
    <2>4. CASE /\ query[s].at < Len(OpenOrder)
               /\ query' = [query EXCEPT ![s].at = @ + 1, ![s].hand[f] = 0]
               /\ UNCHANGED <<gdd, glock>>
        <3>1. query' = [query EXCEPT ![s] = [q EXCEPT !.at = q.at + 1,
                                                      !.hand = [q.hand EXCEPT ![f] = 0]]]
            BY <2>4, ZenonT(60)
        <3>2. [q.hand EXCEPT ![f] = 0] \in [File -> Nat]
            BY <1>a, <1>b
        <3>a. q.at + 1 \in 1 .. 3
            BY <2>4, QueryFields
        <3>3. [q EXCEPT !.at = q.at + 1, !.hand = [q.hand EXCEPT ![f] = 0]] \in Query
            BY <1>a, <3>2, <3>a DEF Query
        <3> QED
            BY <1>6, <2>4, <3>1, <3>3 DEF OpenFile
    <2> QED
        BY <1>6, <2>1, <2>2, <2>3, <2>4 DEF OpenFile
<1>7. CASE StatFile(s)
    <2> DEFINE f == Current(s)
               examine == f \in Shared /\ gdd[f].stat = 0
    <2>0. At(s, "stat") /\ gdd \in [Shared -> Dict] /\ disk[f] \in Nat
        BY <1>7, <1>b, <1>c DEF StatFile
    <2>1. CASE /\ gdd' = [g \in Shared |-> [gdd[g] EXCEPT
                              !.open = FALSE,
                              !.stat = IF g = f /\ examine THEN disk[f] ELSE @]]
               /\ Goto(s, "retry")
        <3>1. ASSUME NEW g \in Shared
              PROVE  [gdd[g] EXCEPT !.open = FALSE,
                                    !.stat = IF g = f /\ examine THEN disk[f] ELSE @] \in Dict
            BY <2>0 DEF Dict
        <3> QED
            BY <1>7, <1>e, <2>1, <3>1 DEF StatFile, QueryPcs
    <2>2. CASE /\ gdd' = IF examine THEN [gdd EXCEPT ![f].stat = disk[f]] ELSE gdd
               /\ query' = IF query[s].at = Len(OpenOrder)
                           THEN [query EXCEPT ![s].at = 1,
                                     ![s].pc = IF query[s].again THEN "read" ELSE "compare"]
                           ELSE [query EXCEPT ![s].at = @ + 1, ![s].pc = "open"]
        <3>1. gdd' \in [Shared -> Dict]
            <4>1. ASSUME f \in Shared PROVE [gdd[f] EXCEPT !.stat = disk[f]] \in Dict
                BY <2>0, <4>1 DEF Dict
            <4> QED
                BY <2>0, <2>2, <4>1
        <3>2. query' \in [Searcher -> Query]
            <4>1. CASE query[s].at = Len(OpenOrder)
                <5>1. PICK l \in {"read", "compare"} :
                        query' = [query EXCEPT ![s] = [q EXCEPT !.at = 1, !.pc = l]]
                    BY <2>2, <4>1
                <5>2. [q EXCEPT !.at = 1, !.pc = l] \in Query
                    BY <1>a, <1>h DEF Query
                <5> QED
                    BY <5>1, <5>2
            <4>2. CASE query[s].at # Len(OpenOrder)
                <5>1. query' = [query EXCEPT ![s] = [q EXCEPT !.at = q.at + 1, !.pc = "open"]]
                    BY <2>2, <4>2
                <5>2. q.at + 1 \in 1 .. 3
                    BY <4>2, QueryFields
                <5>3. [q EXCEPT !.at = q.at + 1, !.pc = "open"] \in Query
                    BY <1>a, <5>2 DEF Query, QueryPcs
                <5> QED
                    BY <5>1, <5>3
            <4> QED
                BY <4>1, <4>2
        <3> QED
            BY <1>7, <3>1, <3>2 DEF StatFile
    <2> QED
        BY <1>7, <2>1, <2>2 DEF StatFile
<1>8. CASE StatMissing(s)
    BY <1>8, <1>e, <1>g DEF StatMissing, QueryPcs
<1>9. CASE Retry(s)
    <2>1. query' = [query EXCEPT ![s] = [q EXCEPT !.pc = "open", !.at = 1,
                                                  !.hand = NoQuery.hand]]
        BY <1>9 DEF Retry
    <2>2. NoQuery.hand \in [File -> Nat]
        BY DEF NoQuery
    <2>3. [q EXCEPT !.pc = "open", !.at = 1, !.hand = NoQuery.hand] \in Query
        BY <1>a, <1>h, <2>2 DEF Query
    <2> QED
        BY <1>9, <2>1, <2>3 DEF Retry
<1>10. CASE GiveUp(s)
    BY <1>10, <1>f DEF GiveUp
<1>11. CASE Compare(s)
    <2>0. At(s, "compare") /\ gdd \in [Shared -> Dict]
        BY <1>11, <1>c DEF Compare
    <2>1. CASE Fail(s) /\ UNCHANGED gdd
        BY <1>11, <2>1, <1>f DEF Compare
    <2>2. CASE /\ gdd' = NewEntry /\ UNCHANGED glock
               /\ query' = [query EXCEPT ![s] = [NoQuery EXCEPT !.pc = "open", !.again = TRUE]]
        <3>1. [NoQuery EXCEPT !.pc = "open", !.again = TRUE] \in Query
            BY DEF Query, QueryPcs
        <3> QED
            BY <1>11, <2>2, <3>1 DEF Compare
    <2>3. CASE /\ query[s].at < Cardinality(Shared)
               /\ query' = [query EXCEPT ![s].at = @ + 1] /\ UNCHANGED <<gdd, glock>>
        <3>1. q.at + 1 \in 1 .. 3
            BY <2>3, QueryFields, SharedCount
        <3>2. [q EXCEPT !.at = q.at + 1] \in Query
            BY <1>a, <3>1 DEF Query
        <3>3. query' = [query EXCEPT ![s] = [q EXCEPT !.at = q.at + 1]]
            BY <2>3
        <3> QED
            BY <1>11, <2>3, <3>2, <3>3 DEF Compare
    <2>4. CASE /\ CloseAll /\ glock' = None
               /\ query' = [query EXCEPT ![s].pc = "search",
                                         ![s].got = [g \in Shared |-> gdd[g].data]]
        <3>1. [g \in Shared |-> gdd[g].data] \in [Shared -> Nat]
            BY <2>0 DEF Dict
        <3>2. [q EXCEPT !.pc = "search", !.got = [g \in Shared |-> gdd[g].data]] \in Query
            BY <1>a, <3>1 DEF Query, QueryPcs
        <3>3. query' = [query EXCEPT ![s] = [q EXCEPT !.pc = "search",
                                                !.got = [g \in Shared |-> gdd[g].data]]]
            BY <2>4
        <3>4. gdd' \in [Shared -> Dict]
            BY <1>g, <2>0, <2>4
        <3>5. query' \in [Searcher -> Query]
            BY <3>2, <3>3
        <3> QED
            BY <1>11, <2>4, <3>4, <3>5 DEF Compare
    <2> QED
        BY <1>11, <2>1, <2>2, <2>3, <2>4 DEF Compare
<1>12. CASE ReadDicts(s)
    <2>0. gdd \in [Shared -> Dict]
        BY <1>12, <1>c DEF ReadDicts
    <2>1. ASSUME NEW f \in Shared
          PROVE  [gdd[f] EXCEPT !.data = query[s].hand[f], !.open = FALSE] \in Dict
        BY <2>0, <1>a DEF Dict
    <2>2. [f \in Shared |-> query[s].hand[f]] \in [Shared -> Nat]
        BY <1>a
    <2>3. [q EXCEPT !.pc = "search", !.got = [f \in Shared |-> query[s].hand[f]]] \in Query
        BY <1>a, <2>2 DEF Query, QueryPcs
    <2>4. query' = [query EXCEPT ![s] = [q EXCEPT !.pc = "search",
                                            !.got = [f \in Shared |-> query[s].hand[f]]]]
        BY <1>12 DEF ReadDicts
    <2> QED
        BY <1>12, <2>1, <2>3, <2>4, ZenonT(60) DEF ReadDicts
<1>13. CASE Answer(s)
    BY <1>13 DEF Answer
<1> QED
    BY <1>1, <1>2, <1>3, <1>4, <1>5, <1>6, <1>7, <1>8, <1>9, <1>10, <1>11, <1>12, <1>13
       DEF QueryStep

-----------------------------------------------------------------------------
(* Without a race an indexer that works on files stays alone.              *)
LEMMA AloneStep ==
    ASSUME TypeInv, Alone, Kind, ~raced'
    PROVE  Alone'
<1> USE Actors
<1>a. \A j \in Indexer : idx[j] \in Task /\ idx[j].at \in 1 .. 5
    BY TaskFields
<1>b. /\ \A j \in Indexer : ilock = j <=> Locking(j)
      /\ \A j, k \in Indexer : Busy(j) /\ Busy(k) => j = k
      /\ \A j \in Indexer : Busy(j) => "index" \in dirs
      /\ \A j \in Indexer : idx[j].pc = "move" =>
             /\ idx[j].build # 0
             /\ \A f \in File : Pos(f) >= idx[j].at => tmp[f] = idx[j].build
    BY DEF Alone
<1>c. \A j \in Indexer : Locking(j) => Busy(j)
    BY DEF Locking, Busy
<1>d. ASSUME NEW i \in Indexer, Only(i)
      PROVE  \A j \in Indexer \ {i} :
                 /\ Busy(j)' <=> Busy(j)
                 /\ Locking(j)' <=> Locking(j)
                 /\ idx'[j] = idx[j]
    BY <1>d DEF Only, Busy, Locking
<1>e. ASSUME NEW i \in Indexer, Only(i), \A j \in Indexer \ {i} : ~Busy(j), "index" \in dirs',
             ilock' = i <=> Locking(i)', ilock' \in {i, None},
             idx'[i].pc = "move" => /\ idx'[i].build # 0
                                    /\ \A f \in File : Pos(f) >= idx'[i].at => tmp'[f] = idx'[i].build
      PROVE  Alone'
    <2>1. \A j \in Indexer \ {i} : ~Busy(j)' /\ ~Locking(j)' /\ idx'[j].pc # "move"
        BY <1>c, <1>d, <1>e DEF Busy
    <2>2. \A j \in Indexer : ilock' = j <=> Locking(j)'
        BY <1>e, <2>1
    <2> QED
        BY <1>e, <2>1, <2>2 DEF Alone
<1>1. CASE Idle
    BY <1>1, <1>b DEF Idle, Alone, Busy, Locking
<1>2. ASSUME NEW i \in Indexer, Rests(i) PROVE Alone'
    <2>0. Only(i) /\ idx'[i].pc \notin {"stub", "read", "move"}
        BY <1>2 DEF Rests, Plain, Looked
    <2>1. ~Busy(i)' /\ ~Locking(i)'
        BY <2>0 DEF Busy, Locking
    <2>2. \A j \in Indexer \ {i} : ilock' = j <=> ilock = j
        BY <1>2, <1>b DEF Rests, Unlock
    <2>3. ilock' # i
        BY <1>2, <1>b DEF Rests, Unlock
    <2>4. \A j \in Indexer : ilock' = j <=> Locking(j)'
        BY <1>b, <1>d, <2>0, <2>1, <2>2, <2>3
    <2>5. \A j \in Indexer \ {i} : Busy(j)' => tmp' = tmp /\ "index" \in dirs'
        BY <1>2, <1>b, <1>d, <2>0 DEF Rests
    <2>6. \A j \in Indexer : idx'[j].pc = "move" => j # i /\ Busy(j)' /\ idx'[j] = idx[j]
        BY <1>d, <2>0 DEF Busy
    <2>7. \A j \in Indexer : idx'[j].pc = "move" =>
             /\ idx'[j].build # 0
             /\ \A f \in File : Pos(f) >= idx'[j].at => tmp'[f] = idx'[j].build
        BY <1>b, <2>5, <2>6
    <2>8. \A j, k \in Indexer : Busy(j)' /\ Busy(k)' => j = k
        BY <1>b, <1>d, <2>0, <2>1
    <2>9. \A j \in Indexer : Busy(j)' => "index" \in dirs'
        BY <2>1, <2>5
    <2> QED
        BY <2>4, <2>7, <2>8, <2>9 DEF Alone
<1>3. ASSUME NEW i \in Indexer, Enters(i) PROVE Alone'
    <2>1. idx'[i].pc = "read" /\ Only(i) /\ ilock' = i /\ "index" \in dirs'
        BY <1>3, <1>a DEF Enters, Task
    <2>2. \A j \in Indexer \ {i} : ~Busy(j)
        BY <1>3 DEF Enters, OtherBusy
    <2>3. Locking(i)'
        BY <2>1 DEF Locking
    <2> QED
        BY <1>e, <2>1, <2>2, <2>3
<1>4. ASSUME NEW i \in Indexer, Stubs(i) PROVE Alone'
    <2>1. idx'[i].pc = "stub" /\ Only(i) /\ ilock' = ilock /\ "index" \in dirs'
        BY <1>4, <1>a DEF Stubs, Task
    <2>2. \A j \in Indexer \ {i} : ~Busy(j)
        BY <1>4 DEF Stubs, OtherBusy
    <2>3. ~Locking(i)' /\ ~Locking(i)
        BY <1>4, <2>1 DEF Locking, Stubs
    <2>4. ilock = None
        BY <1>b, <1>c, <2>2, <2>3 DEF TypeInv
    <2> QED
        BY <1>e, <2>1, <2>2, <2>3, <2>4
<1>5. ASSUME NEW i \in Indexer, Writes(i) PROVE Alone'
    <2>1. /\ idx'[i].pc = "move" /\ idx'[i].build = Len(builds')
          /\ Only(i) /\ ilock' = ilock /\ "index" \in dirs'
        BY <1>5, <1>a DEF Writes, Task
    <2>2. Busy(i) /\ Locking(i) /\ Locking(i)'
        BY <1>5, <2>1 DEF Writes, Busy, Locking
    <2>3. \A j \in Indexer \ {i} : ~Busy(j)
        BY <1>b, <2>2
    <2>4. ilock = i
        BY <1>b, <2>2
    <2>5. Len(builds') # 0
        BY <1>5 DEF Writes, TypeInv
    <2>6. \A f \in File : tmp'[f] = Len(builds')
        BY <1>5 DEF Writes
    <2> QED
        BY <1>e, <2>1, <2>2, <2>3, <2>4, <2>5, <2>6
<1>6. ASSUME NEW i \in Indexer, Moves(i) PROVE Alone'
    <2>1. /\ idx'[i].pc = idx[i].pc /\ idx'[i].build = idx[i].build /\ idx'[i].at = idx[i].at + 1
          /\ Only(i) /\ ilock' = ilock /\ dirs' = dirs
        BY <1>6, <1>a DEF Moves, Task
    <2>2. Busy(i) /\ (Locking(i)' <=> Locking(i))
        BY <1>6, <2>1 DEF Moves, Busy, Moving, Locking
    <2>3. "index" \in dirs' /\ \A j \in Indexer \ {i} : ~Busy(j)
        BY <1>b, <2>1, <2>2
    <2>4. ilock = i <=> Locking(i)
        BY <1>b
    <2>5. ilock \in {i, None}
        BY <1>b, <1>c, <2>3 DEF TypeInv
    <2>6. ASSUME idx[i].pc = "move", NEW f \in File, Pos(f) >= idx[i].at + 1
          PROVE  tmp'[f] = idx[i].build
        <3>1. Pos(f) \in 1 .. 4 /\ idx[i].at \in 1 .. 4 /\ Pos(MoveOrder[idx[i].at]) = idx[i].at
            BY <1>6, Positions DEF Moves
        <3>2. Pos(f) >= idx[i].at /\ f # MoveOrder[idx[i].at]
            BY <2>6, <3>1
        <3>3. tmp'[f] = tmp[f]
            BY <1>6, <3>2 DEF Moves, TypeInv
        <3> QED
            BY <1>b, <2>6, <3>2, <3>3
    <2> QED
        BY <1>b, <1>e, <2>1, <2>2, <2>3, <2>4, <2>5, <2>6
<1>7. ASSUME NEW i \in Indexer, Clears(i) PROVE Alone'
    <2>1. \A j \in Indexer : ~Busy(j)'
        BY <1>7 DEF Clears, OtherBusy, Busy
    <2>2. \A j \in Indexer : ~Locking(j)' /\ idx'[j].pc # "move" /\ ilock' # j
        BY <1>7, <2>1 DEF Busy, Locking, Clears
    <2> QED
        BY <2>1, <2>2 DEF Alone
<1> QED
    BY <1>1, <1>2, <1>3, <1>4, <1>5, <1>6, <1>7 DEF Kind

(* What a step without a race does to the files, the builds and the        *)
(* indexers that replace files: nothing, or one of four things.            *)
SameMoves(i) == (Moving(i)' <=> Moving(i)) /\ (Moving(i) => idx'[i] = idx[i])
Quiet ==
    /\ UNCHANGED <<disk, builds, straddled>> /\ (~cut' => ~cut)
    /\ \A i \in Indexer : SameMoves(i)
(* An indexer has new files to put in their places: stubs or an update.    *)
StartMove(i) ==
    /\ \A j \in Indexer : ~Moving(j)
    /\ \/ /\ Absent /\ builds' = Append(builds, [ver |-> 1, pkgs |-> {}])
          /\ idx[i].pc = "setup" /\ idx'[i].pc = "stub"
       \/ /\ Absent \/ Consistent
          /\ NewRecord(i) \in Build /\ builds' = Append(builds, NewRecord(i))
          /\ idx[i].pc = "read" /\ idx'[i].pc = "move"
    /\ idx'[i].build = Len(builds') /\ idx'[i].at = 1
    /\ idx'[i].due = idx[i].due /\ idx'[i].lost = idx[i].lost
    /\ UNCHANGED <<disk, cut, straddled>>
    /\ \A j \in Indexer \ {i} : SameMoves(j)
(* It puts one in its place.                                               *)
MoveOne(i) ==
    /\ Moving(i) /\ Moving(i)' /\ idx[i].at \in 1 .. 4
    /\ disk' = [disk EXCEPT ![MoveOrder[idx[i].at]] = idx[i].build]
    /\ idx'[i] = [idx[i] EXCEPT !.at = idx[i].at + 1]
    /\ idx'[i].build = idx[i].build /\ idx'[i].at = idx[i].at + 1
    /\ UNCHANGED <<builds, cut, straddled>>
    /\ \A j \in Indexer \ {i} : SameMoves(j)
(* It is done, or it dies.                                                 *)
StopMove(i) ==
    /\ Moving(i) /\ ~Moving(i)'
    /\ ~cut' => ~cut /\ idx[i].at \notin 2 .. 4
    /\ UNCHANGED <<disk, builds, straddled>>
    /\ \A j \in Indexer \ {i} : SameMoves(j)
(* The index is purged.                                                    *)
Clear ==
    /\ \A i \in Indexer : ~Moving(i) /\ ~Moving(i)'
    /\ disk' = NoFiles /\ (Relies' => idx'[worker].lost)
    /\ straddled' = (straddled \/ glock # None)
    /\ UNCHANGED <<builds, cut>>

Effect == Quiet \/ Clear \/ \E i \in Indexer : StartMove(i) \/ MoveOne(i) \/ StopMove(i)

(* Every step has one of these effects.                                    *)
LEMMA Effects ==
    ASSUME TypeInv, Alone, Kind, ~raced'
    PROVE  Effect
<1>a. \A j \in Indexer : idx[j] \in Task
    BY TaskFields
<1>b. \A j \in Indexer : Moving(j) => Busy(j)
    BY DEF Moving, Busy
<1>c. \A j, k \in Indexer : Busy(j) /\ Busy(k) => j = k
    BY DEF Alone
<1>d. ASSUME NEW i \in Indexer, Only(i)
      PROVE  \A j \in Indexer \ {i} : SameMoves(j)
    BY <1>d DEF Only, SameMoves, Moving
<1>1. CASE Idle
    BY <1>1 DEF Idle, Effect, Quiet, SameMoves, Moving
<1>2. ASSUME NEW i \in Indexer, Rests(i) PROVE Effect
    <2>0. Only(i) /\ ~Moving(i)' /\ UNCHANGED <<disk, builds, straddled>>
        BY <1>2 DEF Rests, Plain, Looked, Moving
    <2>1. ~cut' => ~cut /\ ~(Moving(i) /\ idx[i].at \in 2 .. 4)
        BY <1>2 DEF Rests
    <2>2. CASE Moving(i)
        BY <1>d, <2>0, <2>1, <2>2 DEF Effect, StopMove
    <2>3. CASE ~Moving(i)
        <3>1. \A j \in Indexer : SameMoves(j)
            BY <1>d, <2>0, <2>3 DEF SameMoves
        <3> QED
            BY <2>0, <2>1, <3>1 DEF Effect, Quiet
    <2> QED
        BY <2>2, <2>3
<1>3. ASSUME NEW i \in Indexer, Enters(i) PROVE Effect
    <2>1. Only(i) /\ ~Moving(i)' /\ ~Moving(i) /\ UNCHANGED <<disk, builds, cut, straddled>>
        BY <1>3, <1>a DEF Enters, Moving, Task
    <2>2. \A j \in Indexer : SameMoves(j)
        BY <1>d, <2>1 DEF SameMoves
    <2> QED
        BY <2>1, <2>2 DEF Effect, Quiet
<1>4. ASSUME NEW i \in Indexer, Stubs(i) PROVE Effect
    <2>1. /\ idx'[i].pc = "stub" /\ idx'[i].build = Len(builds') /\ idx'[i].at = 1
          /\ idx'[i].due = idx[i].due /\ idx'[i].lost = idx[i].lost /\ Only(i)
        BY <1>4, <1>a DEF Stubs, Task
    <2>2. \A j \in Indexer : ~Moving(j)
        BY <1>4, <1>b DEF Stubs, OtherBusy, Moving
    <2> QED
        BY <1>4, <1>d, <2>1, <2>2 DEF Stubs, Effect, StartMove
<1>5. ASSUME NEW i \in Indexer, Writes(i) PROVE Effect
    <2>1. /\ idx'[i].pc = "move" /\ idx'[i].build = Len(builds') /\ idx'[i].at = 1
          /\ idx'[i].due = idx[i].due /\ idx'[i].lost = idx[i].lost /\ Only(i)
        BY <1>5, <1>a DEF Writes, Task
    <2>2. Busy(i) /\ ~Moving(i)
        BY <1>5 DEF Writes, Busy, Moving
    <2>3. \A j \in Indexer : ~Moving(j)
        BY <1>b, <1>c, <2>2
    <2> QED
        BY <1>5, <1>d, <2>1, <2>3 DEF Writes, Effect, StartMove
<1>6. ASSUME NEW i \in Indexer, Moves(i) PROVE Effect
    <2>1. /\ idx'[i].pc = idx[i].pc /\ idx'[i].build = idx[i].build /\ idx'[i].at = idx[i].at + 1
          /\ idx'[i] = [idx[i] EXCEPT !.at = idx[i].at + 1] /\ Only(i)
        BY <1>6, <1>a DEF Moves, Task
    <2>2. Moving(i) /\ Moving(i)'
        BY <1>6, <2>1 DEF Moves, Moving
    <2>3. disk' = [disk EXCEPT ![MoveOrder[idx[i].at]] = idx[i].build]
        BY <1>6 DEF Moves
    <2> QED
        BY <1>6, <1>d, <2>1, <2>2, <2>3 DEF Moves, Effect, MoveOne
<1>7. ASSUME NEW i \in Indexer, Clears(i) PROVE Effect
    <2>1. \A j \in Indexer : ~Moving(j) /\ ~Moving(j)'
        BY <1>7, <1>b DEF Clears, OtherBusy, Moving
    <2> QED
        BY <1>7, <2>1 DEF Clears, Effect, Clear
<1> QED
    BY <1>1, <1>2, <1>3, <1>4, <1>5, <1>6, <1>7 DEF Kind

-----------------------------------------------------------------------------
(* What a step does to the queries and to the cache: nothing; the cache is *)
(* dropped while nobody has its lock; the depot restarts; or a query takes *)
(* a step, and another one that has the lock finds all as it left it.      *)
Dropped == glock = None /\ gdd' = NoEntry /\ UNCHANGED <<glock, query>>
Restarted == gdd' = NoEntry /\ glock' = None /\ query' = [s \in Searcher |-> NoQuery]
Turn(s) ==
    /\ CheckSearch(s) \/ Retry(s) \/ QueryStep(s)
    /\ UNCHANGED <<disk, builds, idx, straddled>>
    /\ \A t \in Searcher \ {s} : /\ query'[t] = query[t]
                                 /\ query[t].pc \in Holding => UNCHANGED <<gdd, glock>>

(* Every step does one of these to the queries and to the cache.           *)
LEMMA Turns ==
    ASSUME TypeInv, CacheLock, [Next]_vars
    PROVE  \/ UNCHANGED <<gdd, glock, query>>
           \/ Dropped \/ Restarted
           \/ \E s \in Searcher : Turn(s)
<1> USE DEF search
<1>1. CASE UNCHANGED vars
    BY <1>1 DEF vars
<1>2. CASE PublishBegin \/ PublishEnd \/ Get \/ LockStore
    BY <1>2 DEF PublishBegin, PublishEnd, Get, LockStore
<1>3. CASE Reset
    BY <1>3 DEF Reset, Dropped
<1>4. CASE Restart
    BY <1>4 DEF Restart, Restarted
<1>5. CASE KillPkgrepo
    BY <1>5 DEF KillPkgrepo
<1>6. CASE (\E t \in Requests : Put(t)) \/ (\E t \in Commands : StartPkgrepo(t))
    BY <1>6 DEF Put, StartPkgrepo
<1>7. CASE \E i \in Indexer : IndexStep(i)
    BY <1>7 DEF IndexStep, Check, Setup, Stub, StubDone, Lock, Write, Move, MoveDone, Purge,
       Rename, Rmtree
<1>8. ASSUME NEW s \in Searcher, CheckSearch(s) \/ Retry(s) \/ QueryStep(s)
      PROVE  Turn(s)
    <2>1. SearchUnchanged
        BY <1>8, QueriesReadOnly
    <2>2. query \in [Searcher -> Query]
        BY DEF TypeInv
    <2>a. \E r : query' = [query EXCEPT ![s] = r]
        <3>1. ASSUME NEW l, Goto(s, l)
              PROVE  query' = [query EXCEPT ![s] = [query[s] EXCEPT !.pc = l]]
            BY <2>2, <3>1 DEF Goto
        <3>2. CASE CheckSearch(s)
            BY <3>1, <3>2 DEF CheckSearch
        <3>3. CASE ResetSearch(s)
            BY <3>1, <3>3 DEF ResetSearch
        <3>4. CASE SetAvailable(s)
            BY <3>1, <3>4 DEF SetAvailable
        <3>5. CASE InitGdd(s)
            BY <3>1, <3>5 DEF InitGdd
        <3>6. CASE LockGdd(s)
            BY <3>6 DEF LockGdd
        <3>7. CASE OpenFile(s)
            BY <3>1, <3>7 DEF OpenFile, Fail
        <3>8. CASE StatFile(s)
            BY <3>1, <3>8 DEF StatFile
        <3>9. CASE StatMissing(s)
            BY <3>1, <3>9 DEF StatMissing
        <3>10. CASE GiveUp(s)
            BY <3>10 DEF GiveUp, Fail
        <3>11. CASE Compare(s)
            BY <3>11 DEF Compare, Fail
        <3>12. CASE ReadDicts(s) \/ Answer(s) \/ Retry(s)
            BY <3>12 DEF ReadDicts, Answer, Retry
        <3> QED
            BY <1>8, <3>2, <3>3, <3>4, <3>5, <3>6, <3>7, <3>8, <3>9, <3>10, <3>11, <3>12
               DEF QueryStep
    <2>3. \A t \in Searcher \ {s} : query'[t] = query[t]
        BY <2>2, <2>a
    <2>4. ASSUME NEW t \in Searcher \ {s}, query[t].pc \in Holding
          PROVE  UNCHANGED <<gdd, glock>>
        <3>1. glock = t /\ gdd # NoEntry /\ glock # None /\ query[s].pc \notin Holding
            BY <2>4, ActorsAssumption DEF CacheLock
        <3>2. CASE CheckSearch(s) \/ SetAvailable(s) \/ InitGdd(s) \/ Answer(s) \/ Retry(s)
            BY <3>1, <3>2 DEF CheckSearch, SetAvailable, InitGdd, Answer, Retry
        <3>3. ~ResetSearch(s) /\ ~LockGdd(s)
            BY <3>1 DEF ResetSearch, LockGdd
        <3>4. /\ ~OpenFile(s) /\ ~StatFile(s) /\ ~StatMissing(s) /\ ~GiveUp(s)
              /\ ~Compare(s) /\ ~ReadDicts(s)
            BY <3>1 DEF Holding, At, OpenFile, StatFile, StatMissing, GiveUp, Compare, ReadDicts
        <3> QED
            BY <1>8, <3>2, <3>3, <3>4 DEF QueryStep
    <2> QED
        BY <1>8, <2>1, <2>3, <2>4 DEF Turn, SearchUnchanged, disks, hist
<1> QED
    BY <1>1, <1>2, <1>3, <1>4, <1>5, <1>6, <1>7, <1>8 DEF Next

(* The lock of the cache stays with the query that opens files.            *)
LEMMA CacheStep ==
    ASSUME TypeInv, CacheLock, [Next]_vars
    PROVE  CacheLock'
<1>2. ASSUME NEW s \in Searcher, query'[s].pc \in Holding
      PROVE  glock' = s /\ gdd' # NoEntry
    <2>1. CASE UNCHANGED <<gdd, glock, query>>
        BY <1>2, <2>1 DEF CacheLock
    <2>2. CASE Dropped
        BY <1>2, <2>2, ActorsAssumption DEF Dropped, CacheLock
    <2>3. CASE Restarted
        BY <1>2, <2>3 DEF Restarted, NoQuery, Holding
    <2>4. ASSUME NEW t \in Searcher \ {s}, Turn(t)
          PROVE  glock' = s /\ gdd' # NoEntry
        BY <1>2, <2>4 DEF Turn, CacheLock
    <2>5. CASE Turn(s)
        <3> USE Orders, Starts
        <3>0. query \in [Searcher -> Query] /\ query[s] \in Query
            BY DEF TypeInv
        <3>a. ASSUME NEW l, Goto(s, l) PROVE query'[s].pc = l
            BY <3>0, <3>a DEF Goto, Query
        <3>b. ASSUME Fail(s) PROVE query'[s].pc = "idle"
            BY <3>0, <3>b DEF Fail, NoQuery
        <3>c. ASSUME query[s].pc \in Holding
              PROVE  glock = s /\ gdd # NoEntry /\ gdd \in [Shared -> Dict]
            BY <3>c DEF CacheLock, TypeInv
        <3>d. ASSUME query[s].pc \in Holding, CloseAll PROVE gdd' # NoEntry
            <4>1. DOMAIN gdd' = Shared
                BY <3>c, <3>d DEF CloseAll
            <4> QED
                BY <4>1 DEF NoEntry, Shared
        <3>e. ASSUME gdd' \in [Shared -> Dict] PROVE gdd' # NoEntry
            BY <3>e
        <3>1. ~CheckSearch(s) /\ ~ResetSearch(s) /\ ~SetAvailable(s) /\ ~InitGdd(s)
            BY <1>2, <3>a DEF CheckSearch, ResetSearch, SetAvailable, InitGdd, Holding
        <3>2. CASE LockGdd(s)
            BY <1>2, <3>2, <3>0 DEF LockGdd, Holding, Query, NoQuery
        <3>3. CASE OpenFile(s)
            <4>1. query[s].pc \in Holding /\ ~Fail(s)
                BY <1>2, <3>3, <3>b DEF OpenFile, At, Holding
            <4>2. CASE CloseAll /\ UNCHANGED glock
                BY <3>c, <3>d, <4>1, <4>2
            <4>3. CASE UNCHANGED <<gdd, glock>>
                BY <3>c, <4>1, <4>3
            <4>4. CASE /\ gdd' = IF Current(s) \in Shared
                                 THEN [gdd EXCEPT ![Current(s)].open = TRUE] ELSE gdd
                       /\ UNCHANGED glock
                <5>1. DOMAIN gdd' = Shared
                    BY <3>c, <4>1, <4>4
                <5> QED
                    BY <3>c, <4>1, <4>4, <5>1 DEF NoEntry, Shared
            <4> QED
                BY <3>3, <4>1, <4>2, <4>3, <4>4 DEF OpenFile
        <3>4. CASE StatFile(s)
            <4>1. query[s].pc \in Holding /\ UNCHANGED glock
                BY <3>4 DEF StatFile, At, Holding
            <4>2. DOMAIN gdd' = Shared
                BY <3>4, <3>c, <4>1 DEF StatFile
            <4> QED
                BY <3>c, <4>1, <4>2 DEF NoEntry, Shared
        <3>5. CASE StatMissing(s)
            BY <3>5, <3>c, <3>d DEF StatMissing, At, Holding
        <3>6. CASE GiveUp(s)
            BY <1>2, <3>6, <3>b DEF GiveUp, Holding
        <3>7. CASE Compare(s)
            <4>1. query[s].pc \in Holding /\ ~Fail(s)
                BY <1>2, <3>7, <3>b DEF Compare, At, Holding
            <4>2. CASE UNCHANGED <<gdd, glock>>
                BY <3>c, <4>1, <4>2
            <4>3. CASE gdd' = NewEntry /\ UNCHANGED glock
                BY <3>c, <4>1, <4>3
            <4>4. CASE query' = [query EXCEPT ![s].pc = "search",
                                              ![s].got = [g \in Shared |-> gdd[g].data]]
                BY <1>2, <3>0, <4>4 DEF Query, Holding
            <4> QED
                BY <3>7, <4>1, <4>2, <4>3, <4>4 DEF Compare
        <3>8. CASE ReadDicts(s)
            <4>1. query'[s].pc = "search"
                BY <3>0, <3>8 DEF ReadDicts, Query
            <4> QED
                BY <1>2, <4>1 DEF Holding
        <3>9. CASE Answer(s)
            BY <1>2, <3>0, <3>9 DEF Answer, NoQuery, Holding
        <3>10. CASE Retry(s)
            BY <3>10, <3>c DEF Retry, At, Holding
        <3> QED
            BY <2>5, <3>1, <3>2, <3>3, <3>4, <3>5, <3>6, <3>7, <3>8, <3>9, <3>10
               DEF Turn, QueryStep
    <2> QED
        BY <2>1, <2>2, <2>3, <2>4, <2>5, Turns
<1> QED
    BY <1>2 DEF CacheLock

-----------------------------------------------------------------------------
(* A build was in the place of file f, or still is: no indexer has yet to  *)
(* move it there.  Then it never comes (back) to that place.               *)
Seen(f, b) ==
    /\ b \in 1 .. Len(builds)
    /\ \A i \in Indexer : Moving(i) /\ idx[i].build = b => idx[i].at > Pos(f)
Past(f, b) == Seen(f, b) /\ disk[f] # b

(* A file that is moved earlier is never older, even if the migration was  *)
(* cut; and files of one version are of one build.                         *)
Ordered ==
    \A f, g \in File : disk[g] # 0 /\ Pos(f) <= Pos(g) =>
        disk[f] # 0 /\ VersionOf(disk[f]) >= VersionOf(disk[g])
SameVersion ==
    \A f, g \in File :
        disk[f] # 0 /\ disk[g] # 0 /\ VersionOf(disk[f]) = VersionOf(disk[g]) => disk[f] = disk[g]
(* The files that an indexer has moved are of its build, the others of one *)
(* older build, or there are none.                                         *)
MigrationOf(i) ==
    /\ idx[i].build \in 1 .. Len(builds)
    /\ \A f \in File : Pos(f) < idx[i].at => disk[f] = idx[i].build
    /\ \A f, g \in File : Pos(f) >= idx[i].at /\ Pos(g) >= idx[i].at => disk[f] = disk[g]
    /\ \A f \in File : Pos(f) >= idx[i].at /\ disk[f] # 0
           => VersionOf(disk[f]) < VersionOf(idx[i].build)
Migration == \A i \in Indexer : Moving(i) => MigrationOf(i)
OnDisk == \A f \in File : disk[f] # 0 => Seen(f, disk[f])
DiskInv == OnDisk /\ Ordered /\ SameVersion /\ Migration

(* The builds there are keep their version and their packages.             *)
LEMMA BuildsGrow ==
    ASSUME TypeInv, Effect
    PROVE  /\ Len(builds) \in Nat /\ Len(builds') \in Nat /\ Len(builds') >= Len(builds)
           /\ \A b \in 1 .. Len(builds) :
                 b \in 1 .. Len(builds') /\ builds'[b] = builds[b] /\ builds[b] \in Build
           /\ \A b \in 1 .. Len(builds) : VersionOf(b)' = VersionOf(b) /\ VersionOf(b) \in Nat \ {0}
<1>1. builds \in Seq(Build) /\ Len(builds) \in Nat
      /\ \A b \in 1 .. Len(builds) : builds[b] \in Build
    BY DEF TypeInv
<1>2. builds' = builds \/ \E r : builds' = Append(builds, r)
    BY DEF Effect, Quiet, Clear, StartMove, MoveOne, StopMove
<1>3. /\ Len(builds') \in Nat /\ Len(builds') >= Len(builds)
      /\ \A b \in 1 .. Len(builds) : b \in 1 .. Len(builds') /\ builds'[b] = builds[b]
    <2>1. CASE builds' = builds
        BY <1>1, <2>1
    <2>2. ASSUME NEW r, builds' = Append(builds, r)
          PROVE  <1>3!1 /\ <1>3!2
        BY <1>1, <2>2
    <2> QED
        BY <1>2, <2>1, <2>2
<1> QED
    BY <1>1, <1>3 DEF VersionOf, Build

(* What is new is behind the builds there were.                            *)
LEMMA NewBuild ==
    ASSUME TypeInv, NEW r, builds' = Append(builds, r)
    PROVE  /\ Len(builds) \in Nat /\ Len(builds') = Len(builds) + 1
           /\ builds'[Len(builds')] = r /\ Len(builds') \notin 1 .. Len(builds)
BY DEF TypeInv

(* At most one indexer replaces files.                                     *)
LEMMA OneMover ==
    ASSUME Alone
    PROVE  \A i, j \in Indexer : Moving(i) /\ Moving(j) => i = j
BY DEF Alone, Moving, Busy

(* New files take the place of files of one older build, or of none.       *)
LEMMA NewFiles ==
    ASSUME TypeInv, DiskInv, NEW i \in Indexer, StartMove(i)
    PROVE  \E r \in Build :
               /\ builds' = Append(builds, r) /\ builds'[Len(builds')] = r
               /\ \A f, g \in File : disk[f] = disk[g]
               /\ \A f \in File : disk[f] # 0 =>
                      VersionOf(disk[f]) \in Nat /\ VersionOf(disk[f]) < r.ver
<1>0. "main_dict" \in File
    BY Orders
<1>1. CASE Absent
    <2>1. [ver |-> 1, pkgs |-> {}] \in Build
        BY DEF Build
    <2>2. PICK r \in Build : builds' = Append(builds, r)
        BY <2>1 DEF StartMove
    <2>3. builds'[Len(builds')] = r
        BY <2>2, NewBuild
    <2> QED
        BY <1>1, <2>2, <2>3 DEF Absent
<1>2. CASE ~Absent
    <2>1. Consistent /\ NewRecord(i) \in Build /\ builds' = Append(builds, NewRecord(i))
        BY <1>2 DEF StartMove
    <2>2. builds'[Len(builds')] = NewRecord(i)
        BY <2>1, NewBuild
    <2>3. \A f \in File : disk[f] # 0 /\ disk[f] = disk["main_dict"]
        BY <1>0, <2>1 DEF Consistent, Present, DiskInv, SameVersion
    <2>4. disk["main_dict"] \in 1 .. Len(builds)
        BY <1>0, <2>3 DEF DiskInv, OnDisk, Seen
    <2>5. VersionOf(disk["main_dict"]) \in Nat
        <3>1. builds[disk["main_dict"]] \in Build
            BY <2>4 DEF TypeInv
        <3> QED
            BY <3>1 DEF VersionOf, Build
    <2>6. NewRecord(i).ver = 1 + VersionOf(disk["main_dict"])
        BY <1>2 DEF NewRecord, NewVersion
    <2>7. VersionOf(disk["main_dict"]) < NewRecord(i).ver
        BY <2>5, <2>6
    <2>8. /\ \A f, g \in File : disk[f] = disk[g]
          /\ \A f \in File : VersionOf(disk[f]) \in Nat /\ VersionOf(disk[f]) < NewRecord(i).ver
        BY <2>3, <2>5, <2>7
    <2> QED
        BY <2>1, <2>2, <2>8
<1> QED
    BY <1>1, <1>2

(* Every step keeps what the files on disk have in common.                 *)
LEMMA DiskStep ==
    ASSUME TypeInv, Alone, DiskInv, Effect
    PROVE  DiskInv'
<1>a. disk \in [File -> Nat] /\ \A f \in File : disk[f] \in Nat
    BY DEF TypeInv
<1>b. \A i \in Indexer : idx[i].at \in 1 .. 5 /\ idx[i].build \in Nat
    BY TaskFields
<1>c. \A f \in File : disk[f] # 0 => disk[f] \in 1 .. Len(builds)
    BY DEF DiskInv, OnDisk, Seen
<1>d. \A b \in 1 .. Len(builds) : VersionOf(b)' = VersionOf(b) /\ VersionOf(b) \in Nat \ {0}
    BY BuildsGrow
<1>e. \A i \in Indexer : Moving(i) => idx[i].build \in 1 .. Len(builds)
    BY DEF DiskInv, Migration, MigrationOf
<1>f. \A f \in File : Pos(f) \in 1 .. 4
    BY Positions
<1>1. CASE Quiet
    <2>1. OnDisk'
        BY <1>1 DEF Quiet, DiskInv, OnDisk, Seen, SameMoves
    <2>2. Ordered' /\ SameVersion'
        BY <1>1 DEF Quiet, DiskInv, Ordered, SameVersion, VersionOf
    <2>3. Migration'
        BY <1>1 DEF Quiet, DiskInv, Migration, MigrationOf, SameMoves, VersionOf
    <2> QED
        BY <2>1, <2>2, <2>3 DEF DiskInv
<1>2. CASE Clear
    <2>1. \A f \in File : disk'[f] = 0
        BY <1>2 DEF Clear, NoFiles
    <2>2. \A i \in Indexer : ~Moving(i)'
        BY <1>2 DEF Clear
    <2> QED
        BY <2>1, <2>2 DEF DiskInv, OnDisk, Ordered, SameVersion, Migration
<1>4. ASSUME NEW i \in Indexer, StartMove(i)
      PROVE  DiskInv'
    <2> DEFINE n == Len(builds')
    <2>0. n = Len(builds) + 1 /\ Len(builds) \in Nat
        BY <1>4, NewFiles, NewBuild
    <2>1. \A j \in Indexer : Moving(j)' => j = i
        BY <1>4 DEF StartMove, SameMoves
    <2>2. idx'[i].build = n /\ idx'[i].at = 1 /\ disk' = disk
        BY <1>4 DEF StartMove
    <2>3. OnDisk'
        BY <1>c, <2>0, <2>1, <2>2 DEF OnDisk, Seen
    <2>4. Ordered' /\ SameVersion'
        <3>1. \A f \in File : disk[f] # 0 => builds'[disk[f]] = builds[disk[f]]
            BY <1>c, BuildsGrow
        <3>2. Ordered'
            BY <2>2, <3>1 DEF DiskInv, Ordered, VersionOf
        <3>3. SameVersion'
            BY <2>2, <3>1 DEF DiskInv, SameVersion, VersionOf
        <3> QED
            BY <3>2, <3>3
    <2>5. MigrationOf(i)'
        <3>1. PICK r \in Build :
                 /\ builds'[n] = r /\ \A f, g \in File : disk[f] = disk[g]
                 /\ \A f \in File : disk[f] # 0 => VersionOf(disk[f]) < r.ver
            BY <1>4, NewFiles
        <3>2. \A f \in File : disk[f] # 0 => builds'[disk[f]] = builds[disk[f]]
            BY <1>c, BuildsGrow
        <3> QED
            BY <1>f, <2>0, <2>2, <3>1, <3>2 DEF MigrationOf, VersionOf
    <2> QED
        BY <2>1, <2>3, <2>4, <2>5 DEF DiskInv, Migration
<1>5. ASSUME NEW i \in Indexer, MoveOne(i)
      PROVE  DiskInv'
    <2> DEFINE k == idx[i].at
               c == idx[i].build
    <2>0. /\ k \in 1 .. 4 /\ idx'[i].at = k + 1 /\ idx'[i].build = c /\ builds' = builds
          /\ Moving(i) /\ Moving(i)' /\ MigrationOf(i)
          /\ disk' = [disk EXCEPT ![MoveOrder[k]] = c]
        BY <1>5 DEF MoveOne, DiskInv, Migration
    <2>1. \A j \in Indexer : Moving(j)' => j = i
        BY <1>5, OneMover DEF MoveOne, SameMoves
    <2>2. \A f \in File : disk'[f] = IF Pos(f) = k THEN c ELSE disk[f]
        <3>1. \A f \in File : Pos(f) = k <=> f = MoveOrder[k]
            BY <2>0, Positions
        <3> QED
            BY <1>a, <2>0, <3>1
    <2>3. /\ \A f \in File : Pos(f) <= k => disk'[f] = c
          /\ \A f \in File : Pos(f) > k => disk'[f] = disk[f]
          /\ \A f \in File : Pos(f) > k /\ disk[f] # 0 => VersionOf(disk[f]) < VersionOf(c)
          /\ \A f, g \in File : Pos(f) > k /\ Pos(g) > k => disk[f] = disk[g]
          /\ c \in 1 .. Len(builds) /\ VersionOf(c) \in Nat
        <3>1. /\ \A f \in File : Pos(f) < k => disk[f] = c
              /\ \A f, g \in File : Pos(f) >= k /\ Pos(g) >= k => disk[f] = disk[g]
              /\ \A f \in File : Pos(f) >= k /\ disk[f] # 0 => VersionOf(disk[f]) < VersionOf(c)
              /\ c \in 1 .. Len(builds)
            BY <2>0 DEF MigrationOf
        <3>2. VersionOf(c) \in Nat
            BY <1>d, <3>1
        <3> HIDE DEF k, c
        <3> QED
            BY <1>f, <2>0, <2>2, <3>1, <3>2
    <2>4. \A b \in 1 .. Len(builds) : VersionOf(b)' = VersionOf(b) /\ VersionOf(b) \in Nat
        BY <1>d
    <2>5. OnDisk'
        <3>1. ASSUME NEW f \in File, disk'[f] # 0
              PROVE  /\ disk'[f] \in 1 .. Len(builds')
                     /\ \A j \in Indexer : Moving(j)' /\ idx'[j].build = disk'[f]
                                           => idx'[j].at > Pos(f)
            <4>1. disk'[f] \in 1 .. Len(builds')
                BY <1>c, <2>0, <2>2, <2>3, <3>1
            <4>2. Pos(f) > k => disk[f] # c
                BY <1>c, <2>3, <2>4, <3>1
            <4>3. disk'[f] = c => k + 1 > Pos(f)
                <5>1. Pos(f) > k \/ k + 1 > Pos(f)
                    BY <1>f, <2>0
                <5> QED
                    BY <2>3, <4>2, <5>1
            <4> QED
                BY <2>0, <2>1, <4>1, <4>3
        <3> QED
            BY <3>1 DEF OnDisk, Seen
    <2>6. Ordered'
        <3>1. ASSUME NEW f \in File, NEW g \in File, disk'[g] # 0, Pos(f) <= Pos(g)
              PROVE  disk'[f] # 0 /\ builds[disk'[f]].ver >= builds[disk'[g]].ver
            <4>1. CASE Pos(g) <= k
                <5>1. Pos(f) <= k
                    BY <1>f, <2>0, <3>1, <4>1
                <5>2. disk'[f] = c /\ disk'[g] = c /\ c # 0 /\ VersionOf(c) \in Nat
                    BY <2>3, <4>1, <5>1
                <5> QED
                    BY <5>2 DEF VersionOf
            <4>2. CASE Pos(g) > k /\ Pos(f) <= k
                <5>1. disk'[f] = c /\ disk'[g] = disk[g] /\ c # 0
                    BY <2>3, <4>2
                <5>2. VersionOf(disk[g]) < VersionOf(c) /\ VersionOf(disk[g]) \in Nat
                      /\ VersionOf(c) \in Nat
                    BY <1>c, <1>d, <2>3, <3>1, <4>2, <5>1
                <5> QED
                    BY <5>1, <5>2 DEF VersionOf
            <4>3. CASE Pos(g) > k /\ Pos(f) > k
                BY <1>f, <2>3, <3>1, <4>3 DEF DiskInv, Ordered, VersionOf
            <4> QED
                BY <1>f, <2>0, <4>1, <4>2, <4>3
        <3> QED
            BY <2>0, <3>1 DEF Ordered, VersionOf
    <2>7. SameVersion'
        <3>1. ASSUME NEW f \in File, NEW g \in File, disk'[f] # 0, disk'[g] # 0,
                     builds[disk'[f]].ver = builds[disk'[g]].ver
              PROVE  disk'[f] = disk'[g]
            <4>0. \A h \in File : Pos(h) <= k \/ Pos(h) > k
                BY <1>f, <2>0
            <4>1. \A h \in File : Pos(h) > k /\ disk[h] # 0 =>
                      VersionOf(disk[h]) \in Nat /\ VersionOf(disk[h]) < VersionOf(c)
                BY <1>c, <1>d, <2>3
            <4>2. \A h \in File : Pos(h) > k /\ disk'[h] # 0 =>
                      builds[disk'[h]].ver # VersionOf(c)
                BY <2>3, <4>1 DEF VersionOf
            <4>3. \A h \in File : Pos(h) <= k => disk'[h] = c /\ builds[disk'[h]].ver = VersionOf(c)
                BY <2>3 DEF VersionOf
            <4>4. CASE Pos(f) > k /\ Pos(g) > k
                BY <2>3, <4>4
            <4> QED
                BY <3>1, <4>0, <4>2, <4>3, <4>4
        <3> QED
            BY <2>0, <3>1 DEF SameVersion, VersionOf
    <2>8. MigrationOf(i)'
        BY <1>f, <2>0, <2>3, SMTT(30) DEF MigrationOf, VersionOf
    <2> QED
        BY <2>1, <2>5, <2>6, <2>7, <2>8 DEF DiskInv, Migration
<1>6. ASSUME NEW i \in Indexer, StopMove(i)
      PROVE  DiskInv'
    <2>1. disk' = disk /\ builds' = builds
        BY <1>6 DEF StopMove
    <2>2. \A j \in Indexer : ~Moving(j)'
        BY <1>6, OneMover DEF StopMove, SameMoves
    <2> QED
        BY <2>1, <2>2 DEF DiskInv, OnDisk, Seen, Ordered, SameVersion, Migration, VersionOf
<1> QED
    BY <1>1, <1>2, <1>4, <1>5, <1>6 DEF Effect

-----------------------------------------------------------------------------
(* A query has build b of file f, which it opened since it got the lock of *)
(* the cache: as long as there is no purge the file gets no older, and its *)
(* version number means b.                                                 *)
Held(f, b) ==
    /\ b \in 1 .. Len(builds)
    /\ disk[f] # 0 /\ VersionOf(disk[f]) >= VersionOf(b)
    /\ \A g \in File : disk[g] # 0 /\ VersionOf(disk[g]) = VersionOf(b) => disk[g] = b
    /\ \A i \in Indexer : Moving(i) /\ VersionOf(idx[i].build) = VersionOf(b)
           => idx[i].build = b

(* A build that was in a place does not come there again.                  *)
LEMMA SeenStays ==
    ASSUME TypeInv, DiskInv, Effect, NEW f \in File, NEW b, Seen(f, b)
    PROVE  Seen(f, b)' /\ (Past(f, b) => Past(f, b)')
<1>a. b \in 1 .. Len(builds) /\ b \in 1 .. Len(builds') /\ b # 0
    BY BuildsGrow DEF Seen
<1>b. \A i \in Indexer : Moving(i) /\ idx[i].build = b => idx[i].at > Pos(f)
    BY DEF Seen
<1>c. ASSUME NEW i \in Indexer, SameMoves(i), Moving(i)', idx'[i].build = b
      PROVE  idx'[i].at > Pos(f)
    BY <1>b, <1>c DEF SameMoves
<1>1. CASE Quiet
    BY <1>1, <1>a, <1>c DEF Quiet, Seen, Past
<1>2. CASE Clear
    BY <1>2, <1>a DEF Clear, NoFiles, Seen, Past
<1>4. ASSUME NEW i \in Indexer, StartMove(i)
      PROVE  Seen(f, b)' /\ (Past(f, b) => Past(f, b)')
    <2>1. Len(builds') # b
        BY <1>4, <1>a, NewFiles, NewBuild
    <2> QED
        BY <1>4, <1>a, <1>c, <2>1 DEF StartMove, Seen, Past
<1>5. ASSUME NEW i \in Indexer, MoveOne(i)
      PROVE  Seen(f, b)' /\ (Past(f, b) => Past(f, b)')
    <2>1. Moving(i) /\ idx[i].at \in 1 .. 4 /\ idx'[i].at = idx[i].at + 1
          /\ idx'[i].build = idx[i].build
        BY <1>5 DEF MoveOne
    <2>2. Pos(f) \in 1 .. 4
        BY Positions
    <2>a. idx[i].build = b => idx[i].at > Pos(f)
        BY <1>b, <2>1
    <2>3. idx'[i].build = b => idx'[i].at > Pos(f)
        BY <2>1, <2>2, <2>a
    <2>4. Seen(f, b)'
        BY <1>5, <1>a, <1>c, <2>3 DEF MoveOne, Seen
    <2>5. ASSUME disk[f] # b PROVE disk'[f] # b
        <3>1. CASE f = MoveOrder[idx[i].at]
            <4>1. Pos(f) = idx[i].at
                BY <2>1, <3>1, Positions
            <4>2. idx[i].build # b
                BY <1>b, <2>1, <2>2, <4>1
            <4> QED
                BY <1>5, <3>1, <4>2 DEF MoveOne, TypeInv
        <3>2. CASE f # MoveOrder[idx[i].at]
            BY <1>5, <2>5, <3>2 DEF MoveOne, TypeInv
        <3> QED
            BY <3>1, <3>2
    <2> QED
        BY <2>4, <2>5 DEF Past
<1>6. ASSUME NEW i \in Indexer, StopMove(i)
      PROVE  Seen(f, b)' /\ (Past(f, b) => Past(f, b)')
    BY <1>6, <1>a, <1>c DEF StopMove, Seen, Past
<1> QED
    BY <1>1, <1>2, <1>4, <1>5, <1>6 DEF Effect

(* Without a purge no file goes away, and none gets older.                 *)
LEMMA FilesStay ==
    ASSUME TypeInv, DiskInv, Effect, ~Clear, NEW f \in File, disk[f] # 0
    PROVE  disk'[f] # 0 /\ VersionOf(disk[f])' >= VersionOf(disk[f])
<1>a. disk[f] \in 1 .. Len(builds) /\ VersionOf(disk[f]) \in Nat
    BY BuildsGrow DEF DiskInv, OnDisk, Seen
<1>b. builds'[disk[f]] = builds[disk[f]]
    BY <1>a, BuildsGrow
<1>1. CASE disk' = disk
    BY <1>1, <1>a, <1>b DEF VersionOf
<1>2. ASSUME NEW i \in Indexer, MoveOne(i)
      PROVE  disk'[f] # 0 /\ VersionOf(disk[f])' >= VersionOf(disk[f])
    <2>1. MigrationOf(i) /\ idx[i].at \in 1 .. 4 /\ builds' = builds
        BY <1>2 DEF MoveOne, DiskInv, Migration
    <2>2. CASE f = MoveOrder[idx[i].at]
        <3>1. Pos(f) = idx[i].at /\ disk'[f] = idx[i].build
            BY <1>2, <2>1, <2>2, Positions DEF MoveOne, TypeInv
        <3>2. VersionOf(disk[f]) < VersionOf(idx[i].build) /\ idx[i].build # 0
              /\ VersionOf(idx[i].build) \in Nat
            BY <2>1, <3>1, BuildsGrow DEF MigrationOf
        <3> QED
            BY <1>a, <2>1, <3>1, <3>2 DEF VersionOf
    <2>3. CASE f # MoveOrder[idx[i].at]
        <3>1. disk'[f] = disk[f]
            BY <1>2, <2>3 DEF MoveOne, TypeInv
        <3> QED
            BY <1>a, <1>b, <3>1 DEF VersionOf
    <2> QED
        BY <2>2, <2>3
<1> QED
    BY <1>1, <1>2 DEF Effect, Quiet, StartMove, StopMove

(* Without a purge what a query has of a file keeps its meaning.           *)
LEMMA HeldStays ==
    ASSUME TypeInv, Alone, DiskInv, Effect, ~Clear, NEW f \in File, NEW b, Held(f, b)
    PROVE  Held(f, b)'
<1>a. /\ b \in 1 .. Len(builds) /\ b \in 1 .. Len(builds') /\ builds'[b] = builds[b]
      /\ VersionOf(b) \in Nat /\ VersionOf(b)' = VersionOf(b)
    BY BuildsGrow DEF Held
<1>b. \A g \in File : disk[g] # 0 => disk[g] \in 1 .. Len(builds) /\ VersionOf(disk[g]) \in Nat
    BY BuildsGrow DEF DiskInv, OnDisk, Seen
<1>c. disk'[f] # 0 /\ builds'[disk'[f]].ver >= builds[b].ver
    <2>1. disk'[f] # 0 /\ VersionOf(disk[f])' >= VersionOf(disk[f])
        BY FilesStay DEF Held
    <2>2. VersionOf(disk[f]) >= VersionOf(b)
        BY DEF Held
    <2>3. disk'[f] \in 1 .. Len(builds') /\ builds'[disk'[f]].ver \in Nat
        <3>1. DiskInv'
            BY DiskStep
        <3>2. disk'[f] \in 1 .. Len(builds')
            BY <2>1, <3>1 DEF DiskInv, OnDisk, Seen
        <3>3. CASE disk'[f] \in 1 .. Len(builds)
            BY <3>3, BuildsGrow DEF VersionOf
        <3>4. CASE disk'[f] \notin 1 .. Len(builds)
            <4>1. ~Quiet
                BY <1>b, <3>4 DEF Held, Quiet
            <4>2. ASSUME NEW i \in Indexer, MoveOne(i)
                  PROVE  FALSE
                BY <1>b, <3>4, <4>2 DEF Held, MoveOne, TypeInv, DiskInv, Migration, MigrationOf
            <4> QED
                BY <1>b, <3>4, <4>1, <4>2 DEF Effect, StartMove, StopMove, Held
        <3> QED
            BY <3>2, <3>3, <3>4
    <2> QED
        BY <1>a, <1>b, <2>1, <2>2, <2>3 DEF VersionOf, Held
<1>1. CASE Quiet
    BY <1>1 DEF Quiet, Held, SameMoves, VersionOf
<1>3. ASSUME NEW i \in Indexer, StartMove(i)
      PROVE  Held(f, b)'
    <2>1. PICK r \in Build :
             /\ builds'[Len(builds')] = r
             /\ \A g \in File : disk[g] # 0 => VersionOf(disk[g]) < r.ver
        BY <1>3, NewFiles
    <2>2. \A j \in Indexer : Moving(j)' => j = i /\ idx'[j].build = Len(builds')
        BY <1>3 DEF StartMove, SameMoves
    <2>3. disk' = disk /\ r.ver > VersionOf(b) /\ r.ver \in Nat
        <3>1. VersionOf(disk[f]) < r.ver /\ VersionOf(disk[f]) >= VersionOf(b)
            BY <2>1 DEF Held
        <3>2. VersionOf(disk[f]) \in Nat /\ r.ver \in Nat
            BY <1>b DEF Held, Build
        <3> QED
            BY <1>3, <1>a, <3>1, <3>2 DEF StartMove
    <2>4. \A g \in File : disk[g] # 0 => builds'[disk[g]] = builds[disk[g]]
        BY <1>b, BuildsGrow
    <2>5. \A g \in File : disk[g] # 0 /\ builds'[disk[g]].ver = builds[b].ver => disk[g] = b
        BY <2>4 DEF Held, VersionOf
    <2>6. builds[b].ver # r.ver
        <3>1. VersionOf(b) # r.ver
            BY <1>a, <2>3
        <3> QED
            BY <3>1 DEF VersionOf
    <2> QED
        BY <1>a, <1>c, <2>1, <2>2, <2>3, <2>5, <2>6 DEF Held, VersionOf
<1>4. ASSUME NEW i \in Indexer, MoveOne(i)
      PROVE  Held(f, b)'
    <2>1. /\ builds' = builds /\ Moving(i) /\ idx'[i].build = idx[i].build
          /\ idx[i].build \in 1 .. Len(builds)
        BY <1>4 DEF MoveOne, DiskInv, Migration, MigrationOf
    <2>2. \A j \in Indexer : Moving(j)' => j = i
        BY <1>4, OneMover DEF MoveOne, SameMoves
    <2>3. VersionOf(idx[i].build) = VersionOf(b) => idx[i].build = b
        BY <2>1 DEF Held
    <2>4. \A g \in File : disk'[g] = disk[g] \/ disk'[g] = idx[i].build
        BY <1>4 DEF MoveOne, TypeInv
    <2>5. \A g \in File : disk'[g] # 0 /\ VersionOf(disk'[g]) = VersionOf(b) => disk'[g] = b
        BY <2>3, <2>4 DEF Held
    <2> QED
        BY <1>a, <1>c, <2>1, <2>2, <2>3, <2>5 DEF Held, VersionOf
<1>5. ASSUME NEW i \in Indexer, StopMove(i)
      PROVE  Held(f, b)'
    <2>1. \A j \in Indexer : ~Moving(j)'
        BY <1>5, OneMover DEF StopMove, SameMoves
    <2> QED
        BY <1>5, <2>1 DEF StopMove, Held, VersionOf
<1> QED
    BY <1>1, <1>3, <1>4, <1>5 DEF Effect

(* A query that opens a file holds it, and the files it has of the same    *)
(* version are of the same build.                                          *)
LEMMA OpeningHolds ==
    ASSUME TypeInv, DiskInv, NEW f \in File, disk[f] # 0
    PROVE  Held(f, disk[f])
<1>a. disk[f] \in 1 .. Len(builds)
    BY DEF DiskInv, OnDisk, Seen
<1>b. builds[disk[f]] \in Build
    BY <1>a DEF TypeInv
<1>1. disk[f] \in 1 .. Len(builds) /\ VersionOf(disk[f]) \in Nat
    BY <1>a, <1>b DEF VersionOf, Build
<1>2. ASSUME NEW i \in Indexer, Moving(i), VersionOf(idx[i].build) = VersionOf(disk[f])
      PROVE  idx[i].build = disk[f]
    <2>1. Pos(f) \in 1 .. 4 /\ idx[i].at \in 1 .. 5
        BY Positions, TaskFields
    <2>2. Pos(f) < idx[i].at \/ Pos(f) >= idx[i].at
        BY <2>1
    <2> QED
        BY <1>1, <1>2, <2>2 DEF DiskInv, Migration, MigrationOf
<1> QED
    BY <1>1, <1>2 DEF Held, DiskInv, SameVersion

-----------------------------------------------------------------------------
(* The examination of the offsets tells that b is cached, or that it is    *)
(* not: the file that was examined is b, or one that never comes back.     *)
Examined(d, b) == d["offsets"].stat = b \/ Past("offsets", d["offsets"].stat)

(* The cache d: its dictionaries were read from one build, and the         *)
(* examination of the offsets is about that build or about a past one.     *)
CachedAs(d) ==
    /\ d["manf"].data = d["offsets"].data
    /\ d["offsets"].stat # 0 => Seen("offsets", d["offsets"].stat)
    /\ d["offsets"].data # 0 => Examined(d, d["offsets"].data)

(* A query q that has the lock of the cache d.  What it opened it holds,   *)
(* and of one version means of one build.  If the offsets were replaced    *)
(* between the opening and the examination, the main dictionary, which is  *)
(* moved before, has another version when it is opened.                    *)
HandsAre(q) ==
    /\ \A f \in File : q.hand[f] # 0 => Held(f, q.hand[f])
    /\ \A f \in File : /\ q.hand["manf"] # 0 /\ q.hand[f] # 0
                       /\ VersionOf(q.hand[f]) = VersionOf(q.hand["manf"])
                       => q.hand[f] = q.hand["manf"]
OpeningAs(q, d) ==
    /\ q.pc = "open" /\ q.at = 1 => \A f \in File : q.hand[f] = 0
    /\ q.pc = "stat" => q.hand["manf"] # 0 /\ q.hand[OpenOrder[q.at]] # 0
    /\ q.pc \in {"open", "stat"} /\ q.at = 3 /\ q.hand["manf"] # 0
           => q.hand["offsets"] = q.hand["manf"]
    /\ q.pc = "stat" /\ q.at = 2
           => d["offsets"].stat = 0 \/ Examined(d, q.hand["offsets"])
    /\ q.pc = "open" /\ q.at = 3 /\ q.hand["manf"] # 0
           => \/ Examined(d, q.hand["manf"])
              \/ /\ disk["main_dict"] # 0
                 /\ VersionOf(disk["main_dict"]) > VersionOf(q.hand["manf"])
    /\ q.pc = "stat" /\ q.at = 3
           => \/ Examined(d, q.hand["manf"])
              \/ VersionOf(q.hand["main_dict"]) > VersionOf(q.hand["manf"])
OpenAs(q, d) ==
    /\ q.pc = "compare" => q.at \in 1 .. 2
    /\ q.pc \in {"compare", "read"} =>
           /\ q.hand["manf"] # 0 /\ q.hand["offsets"] = q.hand["manf"]
           /\ q.hand["main_dict"] = q.hand["manf"] /\ Examined(d, q.hand["manf"])
HoldsAs(q, d) == HandsAre(q) /\ OpeningAs(q, d) /\ OpenAs(q, d)

Coherent(q) == \A f \in Shared : q.got[f] = q.hand["main_dict"]

QueryInv ==
    ~straddled =>
        /\ gdd # NoEntry => CachedAs(gdd)
        /\ \A s \in Searcher : /\ query[s].pc \in Holding => HoldsAs(query[s], gdd)
                               /\ query[s].pc = "search" => Coherent(query[s])

(* What is said of the cache outlives every step that does not change it.  *)
LEMMA CachedStays ==
    ASSUME TypeInv, DiskInv, Effect, NEW d, CachedAs(d)
    PROVE  CachedAs(d)'
<1>0. "offsets" \in File
    BY Orders
<1>1. d["offsets"].stat # 0 => Seen("offsets", d["offsets"].stat)'
    BY <1>0, SeenStays DEF CachedAs
<1>2. d["offsets"].data # 0 => Examined(d, d["offsets"].data)'
    BY <1>0, SeenStays DEF CachedAs, Examined, Past
<1> QED
    BY <1>1, <1>2 DEF CachedAs

(* So does what is said of a query and the cache, except for a purge.      *)
LEMMA HoldsStays ==
    ASSUME TypeInv, Alone, DiskInv, Effect, ~Clear,
           NEW q \in Query, NEW d, HoldsAs(q, d)
    PROVE  HoldsAs(q, d)'
<1>0. "offsets" \in File /\ "manf" \in File /\ "main_dict" \in File
    BY Orders
<1>1. \A f \in File : q.hand[f] # 0 => Held(f, q.hand[f])'
    BY HeldStays DEF HoldsAs, HandsAre
<1>2. \A f \in File : q.hand[f] # 0 =>
          /\ VersionOf(q.hand[f])' = VersionOf(q.hand[f]) /\ VersionOf(q.hand[f]) \in Nat
    BY BuildsGrow DEF HoldsAs, HandsAre, Held
<1>3. HandsAre(q)'
    BY <1>0, <1>1, <1>2 DEF HoldsAs, HandsAre
<1>4. ASSUME NEW b, Examined(d, b) PROVE Examined(d, b)'
    BY <1>0, <1>4, SeenStays DEF Examined, Past
<1>5. ASSUME q.hand["manf"] # 0, disk["main_dict"] # 0,
             VersionOf(disk["main_dict"]) > VersionOf(q.hand["manf"])
      PROVE  /\ disk'["main_dict"] # 0
             /\ VersionOf(disk["main_dict"])' > VersionOf(q.hand["manf"])'
    <2>1. disk'["main_dict"] # 0 /\ VersionOf(disk["main_dict"])' >= VersionOf(disk["main_dict"])
        BY <1>0, <1>5, FilesStay
    <2>2. VersionOf(disk["main_dict"]) \in Nat /\ VersionOf(disk["main_dict"])' \in Nat
        <3>1. Held("main_dict", disk["main_dict"])
            BY <1>0, <1>5, OpeningHolds
        <3>2. disk["main_dict"] \in 1 .. Len(builds)
            BY <3>1 DEF Held
        <3>3. VersionOf(disk["main_dict"]) \in Nat
            BY <3>2, BuildsGrow
        <3>4. CASE disk'["main_dict"] = disk["main_dict"]
            BY <3>2, <3>4, BuildsGrow DEF VersionOf
        <3>5. CASE disk'["main_dict"] # disk["main_dict"]
            <4>1. PICK i \in Indexer : MoveOne(i)
                BY <1>0, <1>5, <3>5 DEF Effect, Quiet, StartMove, StopMove
            <4>2. disk'["main_dict"] = idx[i].build /\ idx[i].build \in 1 .. Len(builds)
                BY <1>0, <3>5, <4>1 DEF MoveOne, TypeInv, DiskInv, Migration, MigrationOf
            <4> QED
                BY <3>3, <4>2, BuildsGrow DEF VersionOf
        <3> QED
            BY <3>4, <3>5
    <2> QED
        BY <1>0, <1>2, <1>5, <2>1, <2>2
<1>6. OpeningAs(q, d)'
    <2>0. OpeningAs(q, d)
        BY DEF HoldsAs
    <2>1. q.pc = "stat" => q.hand["manf"] # 0 /\ q.hand[OpenOrder[q.at]] # 0
        BY <2>0 DEF OpeningAs
    <2>2. q.pc = "stat" /\ q.at = 2 => d["offsets"].stat = 0 \/ Examined(d, q.hand["offsets"])'
        BY <2>0, <1>4 DEF OpeningAs
    <2>3. q.pc = "open" /\ q.at = 3 /\ q.hand["manf"] # 0
           => \/ Examined(d, q.hand["manf"])'
              \/ /\ disk'["main_dict"] # 0
                 /\ VersionOf(disk["main_dict"])' > VersionOf(q.hand["manf"])'
        BY <2>0, <1>4, <1>5 DEF OpeningAs
    <2>4. q.pc = "stat" /\ q.at = 3
           => \/ Examined(d, q.hand["manf"])'
              \/ VersionOf(q.hand["main_dict"])' > VersionOf(q.hand["manf"])'
        <3>1. q.pc = "stat" /\ q.at = 3 => q.hand["main_dict"] # 0
            BY <2>1, Orders
        <3> QED
            BY <1>0, <2>0, <2>1, <3>1, <1>2, <1>4 DEF OpeningAs
    <2> QED
        BY <2>0, <2>1, <2>2, <2>3, <2>4 DEF OpeningAs
<1>7. OpenAs(q, d)'
    BY <1>4 DEF HoldsAs, OpenAs
<1> QED
    BY <1>3, <1>6, <1>7 DEF HoldsAs

-----------------------------------------------------------------------------
(* What is said does not depend on the handles of the cache.               *)
SameDicts(d, e) == \A f \in Shared : e[f].stat = d[f].stat /\ e[f].data = d[f].data

(* Opening and closing the handles of the cache changes nothing.           *)
LEMMA HandlesDoNotMatter ==
    ASSUME NEW d, NEW e, SameDicts(d, e)
    PROVE  /\ CachedAs(d) => CachedAs(e)
           /\ \A q : HoldsAs(q, d) => HoldsAs(q, e)
<1>1. /\ e["offsets"].stat = d["offsets"].stat /\ e["offsets"].data = d["offsets"].data
      /\ e["manf"].data = d["manf"].data
    BY Orders DEF SameDicts
<1>2. \A b : Examined(d, b) <=> Examined(e, b)
    BY <1>1 DEF Examined
<1>3. CachedAs(d) => CachedAs(e)
    BY <1>1, <1>2 DEF CachedAs
<1>4. ASSUME NEW q, HoldsAs(q, d) PROVE HoldsAs(q, e)
    <2>1. OpeningAs(q, e)
        BY <1>1, <1>2, <1>4 DEF HoldsAs, OpeningAs
    <2>2. OpenAs(q, e)
        BY <1>2, <1>4 DEF HoldsAs, OpenAs
    <2> QED
        BY <1>4, <2>1, <2>2 DEF HoldsAs
<1> QED
    BY <1>3, <1>4

(* The new cache, a query that starts to open, one that starts over.       *)
LEMMA FreshStart ==
    /\ CachedAs(NewEntry)
    /\ \A q, d : q.pc = "open" /\ q.at = 1 /\ q.hand = NoQuery.hand => HoldsAs(q, d)
    /\ \A q, d : HandsAre(q) /\ q.pc = "retry" => HoldsAs(q, d)
<1>1. CachedAs(NewEntry)
    BY Orders DEF CachedAs, NewEntry, NewDict
<1>2. NoQuery.hand = [f \in File |-> 0]
    BY DEF NoQuery
<1>3. ASSUME NEW q, NEW d, q.pc = "open", q.at = 1, q.hand = NoQuery.hand
      PROVE  HoldsAs(q, d)
    <2>1. \A f \in File : q.hand[f] = 0
        BY <1>2, <1>3
    <2> QED
        BY <1>3, <2>1 DEF HoldsAs, HandsAre, OpeningAs, OpenAs
<1>4. ASSUME NEW q, NEW d, HandsAre(q), q.pc = "retry"
      PROVE  HoldsAs(q, d)
    BY <1>4 DEF HoldsAs, OpeningAs, OpenAs
<1> QED
    BY <1>1, <1>3, <1>4

(* A query that has the lock opens a file that is there.  If it opens the  *)
(* offsets, the file that was examined is this one or one that is gone; if *)
(* it opens the main dictionary, this one has the version it must have.    *)
LEMMA Opened ==
    ASSUME TypeInv, DiskInv, NEW q \in Query, NEW d, HoldsAs(q, d), CachedAs(d), q.pc = "open",
           NEW f \in File, f = OpenOrder[q.at], disk[f] # 0, q.at # 1 => q.hand["manf"] # 0,
           NEW r, r = [q EXCEPT !.pc = "stat", !.hand[f] = disk[f]]
    PROVE  HoldsAs(r, d)
<1>0. "offsets" \in File /\ "manf" \in File /\ "main_dict" \in File
    BY Orders
<1>1. /\ r.pc = "stat" /\ r.at = q.at /\ q.at \in 1 .. 3
      /\ r.hand = [q.hand EXCEPT ![f] = disk[f]] /\ q.hand \in [File -> Nat]
    BY DEF Query
<1>2. r.hand[f] = disk[f] /\ \A g \in File \ {f} : r.hand[g] = q.hand[g]
    BY <1>1
<1>3. Held(f, disk[f])
    BY OpeningHolds
<1>4. r.hand["manf"] # 0
    BY <1>0, <1>1, <1>2, Orders
<1>5. HandsAre(r)
    <2>1. \A g \in File : r.hand[g] # 0 => Held(g, r.hand[g])
        BY <1>2, <1>3 DEF HoldsAs, HandsAre
    <2>2. ASSUME NEW g \in File, r.hand[g] # 0, VersionOf(r.hand[g]) = VersionOf(r.hand["manf"])
          PROVE  r.hand[g] = r.hand["manf"]
        <3>1. CASE q.at = 1
            BY <1>0, <1>2, <2>2, <3>1, Orders DEF HoldsAs, OpeningAs
        <3>2. CASE q.at # 1
            <4>1. f # "manf" /\ r.hand["manf"] = q.hand["manf"]
                BY <1>0, <1>1, <1>2, <3>2, Orders
            <4>2. CASE g = f
                <5>1. Held("manf", q.hand["manf"])
                    BY <1>0, <3>2 DEF HoldsAs, HandsAre
                <5> QED
                    BY <1>2, <2>2, <4>1, <4>2, <5>1 DEF Held
            <4>3. CASE g # f
                BY <1>2, <2>2, <3>2, <4>1, <4>3 DEF HoldsAs, HandsAre
            <4> QED
                BY <4>2, <4>3
        <3> QED
            BY <3>1, <3>2
    <2> QED
        BY <2>1, <2>2 DEF HandsAre
<1>6. OpeningAs(r, d)
    <2>1. r.hand[OpenOrder[r.at]] # 0
        BY <1>1, <1>2
    <2>2. CASE q.at = 1
        BY <1>1, <1>4, <2>1, <2>2 DEF OpeningAs
    <2>3. CASE q.at = 2
        <3>1. f = "offsets"
            BY <2>3, Orders
        <3>2. d["offsets"].stat = 0 \/ Examined(d, r.hand["offsets"])
            BY <1>2, <3>1 DEF CachedAs, Examined, Past
        <3> QED
            BY <1>1, <1>4, <2>1, <2>3, <3>2 DEF OpeningAs
    <2>4. CASE q.at = 3
        <3>1. /\ f = "main_dict" /\ r.hand["manf"] = q.hand["manf"] /\ q.hand["manf"] # 0
              /\ r.hand["offsets"] = q.hand["offsets"]
            BY <1>0, <1>2, <2>4, Orders
        <3>2. r.hand["offsets"] = r.hand["manf"]
            BY <2>4, <3>1 DEF HoldsAs, OpeningAs
        <3>3. \/ Examined(d, r.hand["manf"])
              \/ VersionOf(r.hand["main_dict"]) > VersionOf(r.hand["manf"])
            BY <1>2, <2>4, <3>1 DEF HoldsAs, OpeningAs
        <3> QED
            BY <1>1, <1>4, <2>1, <2>4, <3>2, <3>3 DEF OpeningAs
    <2> QED
        BY <1>1, <2>2, <2>3, <2>4
<1> QED
    BY <1>1, <1>5, <1>6 DEF HoldsAs, OpenAs

(* A query that found no list of packages passes over the other files.     *)
LEMMA Skipped ==
    ASSUME NEW q \in Query, NEW d, HoldsAs(q, d), q.pc = "open", q.at < 3,
           q.at # 1 => q.hand["manf"] = 0, NEW f \in File, f = OpenOrder[q.at],
           NEW r, r = [q EXCEPT !.at = @ + 1, !.hand[f] = 0]
    PROVE  HoldsAs(r, d)
<1>0. "offsets" \in File /\ "manf" \in File /\ "main_dict" \in File
    BY Orders
<1>1. /\ r.pc = "open" /\ r.at = q.at + 1 /\ q.at \in 1 .. 3
      /\ r.hand = [q.hand EXCEPT ![f] = 0] /\ q.hand \in [File -> Nat]
    BY DEF Query
<1>2. r.hand[f] = 0 /\ \A g \in File \ {f} : r.hand[g] = q.hand[g]
    BY <1>1
<1>3. r.hand["manf"] = 0
    BY <1>0, <1>1, <1>2, Orders
<1>4. HandsAre(r)
    BY <1>2, <1>3 DEF HoldsAs, HandsAre
<1>5. OpeningAs(r, d) /\ OpenAs(r, d)
    BY <1>1, <1>3 DEF OpeningAs, OpenAs
<1> QED
    BY <1>4, <1>5 DEF HoldsAs

(* A file of the cache that is there is examined for the first time: it    *)
(* was not read before.                                                    *)
LEMMA FirstLook ==
    ASSUME TypeInv, DiskInv, NEW d, CachedAs(d), NEW f \in Shared,
           d[f].stat = 0, disk[f] # 0,
           NEW e, e[f].stat = disk[f], \A g \in Shared : e[g].data = d[g].data,
           \A g \in Shared \ {f} : e[g].stat = d[g].stat
    PROVE  CachedAs(e)
<1>0. "offsets" \in File /\ "offsets" \in Shared /\ "manf" \in Shared
    BY Orders
<1>1. CASE f = "manf"
    <2>1. e["offsets"].stat = d["offsets"].stat
        BY <1>0, <1>1
    <2> QED
        BY <1>0, <2>1 DEF CachedAs, Examined
<1>2. CASE f = "offsets"
    <2>1. Seen("offsets", disk["offsets"])
        BY <1>0, <1>2 DEF DiskInv, OnDisk
    <2>2. d["offsets"].data = 0
        BY <1>2 DEF CachedAs, Examined, Past, Seen
    <2> QED
        BY <1>0, <1>2, <2>1, <2>2 DEF CachedAs
<1> QED
    BY <1>1, <1>2, Orders

(* The file that was opened has the version of the first: the query goes   *)
(* on, with d, or with e in which the file was examined.                   *)
LEMMA Agreed ==
    ASSUME TypeInv, DiskInv, NEW q \in Query, NEW d, HoldsAs(q, d), CachedAs(d), q.pc = "stat",
           NEW f \in File, f = OpenOrder[q.at],
           VersionOf(q.hand["manf"]) = VersionOf(q.hand[f]),
           NEW e,
           IF f \in Shared /\ d[f].stat = 0
           THEN disk[f] # 0 /\ e[f].stat = disk[f] /\ \A g \in Shared \ {f} : e[g] = d[g]
           ELSE e = d,
           NEW r, r.hand = q.hand,
           \/ q.at < 3 /\ r.pc = "open" /\ r.at = q.at + 1
           \/ q.at = 3 /\ r.pc \in {"compare", "read"} /\ r.at = 1
    PROVE  HoldsAs(r, e)
<1>0. /\ "offsets" \in File /\ "manf" \in File /\ "main_dict" \in File
      /\ "offsets" \in Shared /\ "main_dict" \notin Shared
    BY Orders
<1>1. q.hand["manf"] # 0 /\ q.hand[f] # 0 /\ q.at \in 1 .. 3
    BY DEF HoldsAs, OpeningAs, Query
<1>2. q.hand[f] = q.hand["manf"]
    BY <1>1 DEF HoldsAs, HandsAre
<1>3. HandsAre(r)
    BY DEF HoldsAs, HandsAre
<1>4. CASE q.at = 1
    BY <1>3, <1>4 DEF HoldsAs, OpeningAs, OpenAs
<1>5. CASE q.at = 2
    <2> DEFINE m == q.hand["manf"]
    <2>1. f = "offsets" /\ r.hand["offsets"] = m /\ r.hand["manf"] = m
        BY <1>2, <1>5, Orders
    <2>2. \/ Examined(e, m)
          \/ disk["main_dict"] # 0 /\ VersionOf(disk["main_dict"]) > VersionOf(m)
        <3>1. CASE d["offsets"].stat # 0
            BY <1>0, <1>5, <2>1, <3>1 DEF HoldsAs, OpeningAs
        <3>2. CASE d["offsets"].stat = 0
            <4>1. e["offsets"].stat = disk["offsets"]
                BY <1>0, <2>1, <3>2
            <4>2. Held("offsets", m)
                BY <1>0, <1>1, <2>1 DEF HoldsAs, HandsAre
            <4>3. CASE VersionOf(disk["offsets"]) = VersionOf(m)
                BY <1>0, <4>1, <4>2, <4>3 DEF Held, Examined
            <4>4. CASE VersionOf(disk["offsets"]) # VersionOf(m)
                <5>1. Pos("main_dict") <= Pos("offsets")
                    BY DEF Pos
                <5>2. /\ disk["main_dict"] # 0 /\ disk["offsets"] # 0
                      /\ VersionOf(disk["main_dict"]) >= VersionOf(disk["offsets"])
                    BY <1>0, <4>2, <5>1 DEF Held, DiskInv, Ordered
                <5>3. /\ VersionOf(disk["main_dict"]) \in Nat
                      /\ VersionOf(disk["offsets"]) \in Nat /\ VersionOf(m) \in Nat
                    <6>1. /\ disk["main_dict"] \in 1 .. Len(builds)
                          /\ disk["offsets"] \in 1 .. Len(builds) /\ m \in 1 .. Len(builds)
                        BY <1>0, <4>2, <5>2 DEF Held, DiskInv, OnDisk, Seen
                    <6>2. \A b \in 1 .. Len(builds) : builds[b] \in Build
                        BY DEF TypeInv
                    <6> QED
                        BY <6>1, <6>2 DEF VersionOf, Build
                <5>4. VersionOf(disk["offsets"]) >= VersionOf(m)
                    BY <4>2 DEF Held
                <5> QED
                    BY <4>4, <5>2, <5>3, <5>4
            <4> QED
                BY <4>3, <4>4
        <3> QED
            BY <3>1, <3>2
    <2> QED
        BY <1>3, <1>5, <2>1, <2>2 DEF HoldsAs, OpeningAs, OpenAs
<1>6. CASE q.at = 3
    <2>1. f = "main_dict" /\ e = d
        BY <1>0, <1>6, Orders
    <2>2. q.hand["offsets"] = q.hand["manf"] /\ q.hand["main_dict"] = q.hand["manf"]
        BY <1>1, <1>2, <1>6, <2>1 DEF HoldsAs, OpeningAs
    <2>3. VersionOf(q.hand["manf"]) \in Nat
        <3>1. q.hand["manf"] \in 1 .. Len(builds)
            BY <1>0, <1>1 DEF HoldsAs, HandsAre, Held
        <3>2. builds[q.hand["manf"]] \in Build
            BY <3>1 DEF TypeInv
        <3> QED
            BY <3>2 DEF VersionOf, Build
    <2>4. Examined(d, q.hand["manf"])
        BY <1>6, <2>2, <2>3 DEF HoldsAs, OpeningAs
    <2> QED
        BY <1>1, <1>3, <1>6, <2>1, <2>2, <2>4 DEF HoldsAs, OpeningAs, OpenAs
<1> QED
    BY <1>1, <1>4, <1>5, <1>6

(* The offsets are those that were examined, and were read: they are of    *)
(* the build of the files the query opened.                                *)
LEMMA Fresh ==
    ASSUME NEW q, NEW d, HoldsAs(q, d), CachedAs(d), q.pc = "compare",
           disk["offsets"] = d["offsets"].stat, d["offsets"].data # 0
    PROVE  \A f \in Shared : d[f].data = q.hand["main_dict"]
BY Orders DEF HoldsAs, OpenAs, CachedAs, Examined, Past

-----------------------------------------------------------------------------
(* The step of a query leaves the cache, and itself, as they must be with  *)
(* respect to the files of before the step, which it does not change.      *)
Settled(q, d) ==
    /\ d # NoEntry => CachedAs(d)
    /\ q.pc \in Holding => HoldsAs(q, d)
    /\ q.pc = "search" => Coherent(q)

(* Every step of a query does so, action by action.                        *)
LEMMA TurnSettles ==
    ASSUME TypeInv, CacheLock, DiskInv, QueryInv, ~straddled, NEW s \in Searcher,
           CheckSearch(s) \/ Retry(s) \/ QueryStep(s)
    PROVE  Settled(query'[s], gdd')
<1> DEFINE q == query[s]
           r == query'[s]
<1>a. /\ query \in [Searcher -> Query] /\ q \in Query /\ q.at \in 1 .. 3
      /\ q.hand \in [File -> Nat] /\ q.got \in [Shared -> Nat] /\ q.pc \in QueryPcs
    BY DEF TypeInv, Query
<1>b. /\ gdd # NoEntry => CachedAs(gdd) /\ gdd \in [Shared -> Dict]
      /\ q.pc \in Holding => HoldsAs(q, gdd) /\ gdd # NoEntry
    BY DEF QueryInv, CacheLock, TypeInv
<1>c. NoQuery.pc = "idle" /\ "idle" \notin Holding /\ "search" \notin Holding /\ "dead" \notin Holding
    BY DEF NoQuery, Holding
<1>d. ASSUME Fail(s), UNCHANGED gdd
      PROVE  Settled(r, gdd')
    <2>1. r = NoQuery
        BY <1>a, <1>d DEF Fail
    <2> QED
        BY <1>b, <1>c, <1>d, <2>1 DEF Settled
<1>e. ASSUME NEW l, Goto(s, l)
      PROVE  r = [q EXCEPT !.pc = l] /\ r.pc = l
    BY <1>a, <1>e DEF Goto, Query
<1>f. ASSUME NEW l, Goto(s, l), l \notin Holding, l # "search",
             gdd' = NoEntry \/ gdd' = gdd \/ gdd' = NewEntry
      PROVE  Settled(r, gdd')
    BY <1>b, <1>e, <1>f, FreshStart DEF Settled
<1>g. ASSUME q.pc \in Holding
      PROVE  /\ gdd \in [Shared -> Dict] /\ \A f \in Shared : gdd[f] \in Dict
             /\ CachedAs(gdd) /\ HoldsAs(q, gdd)
    BY <1>b, <1>g
<1>h. ASSUME q.pc \in Holding, CloseAll
      PROVE  SameDicts(gdd, gdd')
    BY <1>g, <1>h DEF CloseAll, SameDicts, Dict
<1>i. ASSUME q.pc \in Holding, CachedAs(gdd'), Goto(s, "retry")
      PROVE  Settled(r, gdd')
    <2>1. r.hand = q.hand /\ r.pc = "retry"
        BY <1>a, <1>e, <1>i DEF Query
    <2>2. HandsAre(r)
        BY <1>g, <1>i, <2>1 DEF HoldsAs, HandsAre
    <2> QED
        BY <1>i, <2>1, <2>2, FreshStart DEF Settled
<1>1. CASE CheckSearch(s)
    BY <1>1, <1>f DEF CheckSearch, Holding
<1>2. CASE ResetSearch(s)
    BY <1>2, <1>f DEF ResetSearch, Holding
<1>3. CASE SetAvailable(s)
    BY <1>3, <1>f DEF SetAvailable, Holding
<1>4. CASE InitGdd(s)
    <2>1. gdd' = NewEntry \/ gdd' = gdd
        BY <1>4 DEF InitGdd
    <2> QED
        BY <1>4, <1>f, <2>1 DEF InitGdd, Holding
<1>5. CASE LockGdd(s)
    <2>1. r = [NoQuery EXCEPT !.pc = IF gdd = NoEntry THEN "dead" ELSE "open"] /\ gdd' = gdd
        BY <1>5, <1>a DEF LockGdd
    <2>2. r.at = 1 /\ r.hand = NoQuery.hand /\ r.pc \in {"dead", "open"}
        BY <2>1 DEF NoQuery
    <2> QED
        BY <1>b, <1>c, <2>1, <2>2, FreshStart DEF Settled
<1>6. CASE OpenFile(s)
    <2> DEFINE f == OpenOrder[q.at]
    <2>0. f \in File /\ q.pc = "open" /\ q.pc \in Holding /\ f = Current(s)
        BY <1>6, <1>a, Orders DEF OpenFile, At, Holding, Current
    <2>1. CASE Fail(s) /\ UNCHANGED gdd
        BY <1>d, <2>1
    <2>2. CASE /\ disk[f] # 0 /\ (q.at # 1 => q.hand["manf"] # 0)
               /\ query' = [query EXCEPT ![s].pc = "stat", ![s].hand[f] = disk[f]]
               /\ gdd' = IF f \in Shared THEN [gdd EXCEPT ![f].open = TRUE] ELSE gdd
        <3>1. r = [q EXCEPT !.pc = "stat", !.hand[f] = disk[f]] /\ r.pc = "stat"
            BY <1>a, <2>2 DEF Query
        <3>2. SameDicts(gdd, gdd')
            BY <1>g, <2>0, <2>2 DEF SameDicts, Dict
        <3>3. HoldsAs(r, gdd)
            BY <1>a, <1>g, <2>0, <2>2, <3>1, Opened
        <3> QED
            BY <1>g, <2>0, <3>1, <3>2, <3>3, HandlesDoNotMatter DEF Settled
    <2>3. CASE CloseAll /\ Goto(s, "retry")
        BY <1>g, <1>h, <1>i, <2>0, <2>3, HandlesDoNotMatter
    <2>4. CASE /\ q.at < 3 /\ (q.at # 1 => q.hand["manf"] = 0)
               /\ query' = [query EXCEPT ![s].at = @ + 1, ![s].hand[f] = 0] /\ gdd' = gdd
        <3>1. r = [q EXCEPT !.at = @ + 1, !.hand[f] = 0] /\ r.pc = "open"
            BY <1>a, <2>0, <2>4 DEF Query
        <3>2. HoldsAs(r, gdd)
            BY <1>a, <1>g, <2>0, <2>4, <3>1, Skipped
        <3> QED
            BY <1>g, <2>0, <2>4, <3>1, <3>2 DEF Settled
    <2> QED
        BY <1>6, <2>0, <2>1, <2>2, <2>3, <2>4, Orders DEF OpenFile
<1>7. CASE StatFile(s)
    <2> DEFINE f == OpenOrder[q.at]
               examine == f \in Shared /\ gdd[f].stat = 0
    <2>0. f \in File /\ q.pc = "stat" /\ q.pc \in Holding /\ f = Current(s) /\ (examine => disk[f] # 0)
        BY <1>7, <1>a, Orders DEF StatFile, At, Holding, Current
    <2>1. CASE VersionOf(q.hand["manf"]) # VersionOf(q.hand[f])
        <3>1. /\ Goto(s, "retry")
              /\ gdd' = [g \in Shared |-> [gdd[g] EXCEPT
                              !.open = FALSE,
                              !.stat = IF g = f /\ examine THEN disk[f] ELSE @]]
            BY <1>7, <2>0, <2>1, Orders DEF StatFile
        <3>2. \A g \in Shared : /\ gdd'[g].data = gdd[g].data
                                /\ gdd'[g].stat = IF g = f /\ examine THEN disk[f] ELSE gdd[g].stat
            BY <1>g, <2>0, <3>1 DEF Dict
        <3>3. CASE examine
            <4>1. CachedAs(gdd')
                BY <1>g, <2>0, <3>2, <3>3, FirstLook
            <4> QED
                BY <1>i, <2>0, <3>1, <4>1
        <3>4. CASE ~examine
            <4>1. SameDicts(gdd, gdd')
                BY <3>2, <3>4 DEF SameDicts
            <4> QED
                BY <1>g, <1>i, <2>0, <3>1, <4>1, HandlesDoNotMatter
        <3> QED
            BY <3>3, <3>4
    <2>2. CASE VersionOf(q.hand["manf"]) = VersionOf(q.hand[f])
        <3>1. /\ gdd' = IF examine THEN [gdd EXCEPT ![f].stat = disk[f]] ELSE gdd
              /\ query' = IF q.at = 3
                          THEN [query EXCEPT ![s].at = 1,
                                   ![s].pc = IF q.again THEN "read" ELSE "compare"]
                          ELSE [query EXCEPT ![s].at = @ + 1, ![s].pc = "open"]
            BY <1>7, <2>0, <2>2, Orders DEF StatFile
        <3>2. /\ r.hand = q.hand
              /\ \/ q.at < 3 /\ r.pc = "open" /\ r.at = q.at + 1
                 \/ q.at = 3 /\ r.pc \in {"compare", "read"} /\ r.at = 1
            <4>1. CASE q.at = 3
                BY <1>a, <3>1, <4>1 DEF Query
            <4>2. CASE q.at # 3
                BY <1>a, <3>1, <4>2 DEF Query
            <4> QED
                BY <4>1, <4>2
        <3>3. CASE examine
            <4>1. /\ gdd'[f].stat = disk[f] /\ \A g \in Shared : gdd'[g].data = gdd[g].data
                  /\ \A g \in Shared \ {f} : gdd'[g] = gdd[g]
                BY <1>g, <2>0, <3>1, <3>3 DEF Dict
            <4>2. CachedAs(gdd')
                BY <1>g, <2>0, <3>3, <4>1, FirstLook
            <4>3. HoldsAs(r, gdd')
                BY <1>a, <1>g, <2>0, <2>2, <3>2, <3>3, <4>1, Agreed
            <4> QED
                BY <3>2, <4>2, <4>3 DEF Settled
        <3>4. CASE ~examine
            <4>1. gdd' = gdd
                BY <3>1, <3>4
            <4>2. HoldsAs(r, gdd)
                BY <1>a, <1>g, <2>0, <2>2, <3>2, <3>4, Agreed
            <4> QED
                BY <1>g, <2>0, <3>2, <4>1, <4>2 DEF Settled
        <3> QED
            BY <3>3, <3>4
    <2> QED
        BY <2>1, <2>2
<1>8. CASE StatMissing(s)
    <2>1. q.pc \in Holding /\ CloseAll /\ Goto(s, "retry")
        BY <1>8 DEF StatMissing, At, Holding
    <2> QED
        BY <1>g, <1>h, <1>i, <2>1, HandlesDoNotMatter
<1>9. CASE GiveUp(s)
    BY <1>9, <1>d DEF GiveUp
<1>10. CASE Compare(s)
    <2> DEFINE f == OpenOrder[q.at]
    <2>0. q.pc = "compare" /\ q.pc \in Holding /\ q.at \in 1 .. 2
        BY <1>10, <1>g DEF Compare, At, Holding, HoldsAs, OpenAs
    <2>1. CASE Fail(s) /\ UNCHANGED gdd
        BY <1>d, <2>1
    <2>2. CASE /\ gdd' = NewEntry
               /\ query' = [query EXCEPT ![s] = [NoQuery EXCEPT !.pc = "open", !.again = TRUE]]
        <3>1. r.pc = "open" /\ r.at = 1 /\ r.hand = NoQuery.hand
            BY <1>a, <2>2 DEF NoQuery
        <3> QED
            BY <2>2, <3>1, FreshStart DEF Settled
    <2>3. CASE /\ disk[f] # 0 /\ ~Changed(f) /\ q.at < 2
               /\ query' = [query EXCEPT ![s].at = @ + 1] /\ gdd' = gdd
        <3>1. r.pc = "compare" /\ r.at = 2 /\ r.hand = q.hand
            BY <1>a, <2>0, <2>3 DEF Query
        <3>2. HoldsAs(r, gdd)
            BY <1>g, <2>0, <3>1 DEF HoldsAs, HandsAre, OpeningAs, OpenAs
        <3> QED
            BY <1>g, <2>0, <2>3, <3>1, <3>2 DEF Settled
    <2>4. CASE /\ disk[f] # 0 /\ ~Changed(f) /\ ~(q.at < 2) /\ CloseAll
               /\ query' = [query EXCEPT ![s].pc = "search",
                                         ![s].got = [g \in Shared |-> gdd[g].data]]
        <3>1. r.pc = "search" /\ r.got = [g \in Shared |-> gdd[g].data] /\ r.hand = q.hand
            BY <1>a, <2>4 DEF Query
        <3>2. f = "offsets" /\ disk["offsets"] = gdd["offsets"].stat /\ gdd["offsets"].data # 0
            BY <2>0, <2>4, Orders DEF Changed
        <3>3. \A g \in Shared : gdd[g].data = q.hand["main_dict"]
            BY <1>g, <2>0, <3>2, Fresh
        <3>4. CachedAs(gdd')
            BY <1>g, <1>h, <2>0, <2>4, HandlesDoNotMatter
        <3> QED
            BY <1>c, <3>1, <3>3, <3>4 DEF Settled, Coherent
    <2> QED
        BY <1>10, <2>1, <2>2, <2>3, <2>4, SharedCount DEF Compare
<1>11. CASE ReadDicts(s)
    <2>1. /\ q.pc = "read" /\ q.pc \in Holding
          /\ gdd' = [f \in Shared |-> [gdd[f] EXCEPT !.data = q.hand[f], !.open = FALSE]]
          /\ query' = [query EXCEPT ![s].pc = "search", ![s].got = [f \in Shared |-> q.hand[f]]]
        BY <1>11 DEF ReadDicts, At, Holding
    <2>2. r.pc = "search" /\ r.got = [f \in Shared |-> q.hand[f]] /\ r.hand = q.hand
        BY <1>a, <2>1 DEF Query
    <2>3. \A f \in Shared : gdd'[f].data = q.hand[f] /\ gdd'[f].stat = gdd[f].stat
        BY <1>g, <2>1 DEF Dict
    <2>4. CachedAs(gdd') /\ \A f \in Shared : q.hand[f] = q.hand["main_dict"]
        <3>1. HoldsAs(q, gdd) /\ CachedAs(gdd)
            BY <1>g, <2>1
        <3>2. CachedAs(gdd')
            BY <2>1, <2>3, <3>1, Orders DEF HoldsAs, OpenAs, CachedAs, Examined, Past
        <3> QED
            BY <2>1, <3>1, <3>2, Orders DEF HoldsAs, OpenAs
    <2> QED
        BY <1>c, <2>2, <2>4 DEF Settled, Coherent
<1>12. CASE Answer(s)
    <2>1. r = NoQuery /\ gdd' = gdd
        BY <1>12, <1>a DEF Answer
    <2> QED
        BY <1>b, <1>c, <2>1 DEF Settled
<1>13. CASE Retry(s)
    <2>1. q.pc \in Holding /\ gdd' = gdd /\ r.pc = "open" /\ r.at = 1 /\ r.hand = NoQuery.hand
        BY <1>13, <1>a DEF Retry, At, Holding, Query
    <2> QED
        BY <1>g, <2>1, FreshStart DEF Settled
<1> QED
    BY <1>1, <1>2, <1>3, <1>4, <1>5, <1>6, <1>7, <1>8, <1>9, <1>10, <1>11, <1>12, <1>13
       DEF QueryStep

(* What is said of the cache and of the queries outlives every step; after *)
(* a purge that a query straddles nothing is said any more.                *)
LEMMA QueryStays ==
    ASSUME TypeInv, CacheLock, Alone, DiskInv, QueryInv, Effect, [Next]_vars
    PROVE  QueryInv'
<1> SUFFICES ASSUME ~straddled'
             PROVE  /\ gdd' # NoEntry => CachedAs(gdd)'
                    /\ \A s \in Searcher :
                           /\ query'[s].pc \in Holding => HoldsAs(query[s], gdd)'
                           /\ query'[s].pc = "search" => Coherent(query[s])'
    BY DEF QueryInv
<1>a. Effect
    OBVIOUS
<1>b. ~straddled
    BY <1>a DEF Effect, Quiet, Clear, StartMove, MoveOne, StopMove, TypeInv
<1>c. /\ gdd # NoEntry => CachedAs(gdd)
      /\ \A s \in Searcher : /\ query[s].pc \in Holding => HoldsAs(query[s], gdd)
                             /\ query[s].pc = "search" => Coherent(query[s])
    BY <1>b DEF QueryInv
<1>d. \A s \in Searcher : query[s] \in Query
    BY DEF TypeInv
<1>1. CASE UNCHANGED <<gdd, glock, query>>
    <2>1. gdd' # NoEntry => CachedAs(gdd)'
        <3>1. ASSUME NEW d, CachedAs(d), d = gdd' PROVE CachedAs(gdd)'
            <4>1. CachedAs(d)'
                BY <1>a, <3>1, CachedStays
            <4> QED
                BY <3>1, <4>1 DEF CachedAs, Examined, Past, Seen
        <3> QED
            BY <1>1, <1>c, <3>1
    <2>2. ASSUME NEW s \in Searcher, query'[s].pc \in Holding
          PROVE  HoldsAs(query[s], gdd)'
        <3>1. query[s].pc \in Holding /\ HoldsAs(query[s], gdd) /\ glock = s
            BY <1>1, <1>c, <2>2 DEF CacheLock
        <3>2. ~Clear
            BY <3>1, ActorsAssumption DEF Clear
        <3>3. ASSUME NEW q \in Query, NEW d, HoldsAs(q, d), q = query'[s], d = gdd'
              PROVE  HoldsAs(query[s], gdd)'
            <4>1. HoldsAs(q, d)'
                BY <1>a, <3>2, <3>3, HoldsStays
            <4> QED
                BY <3>3, <4>1 DEF HoldsAs
        <3> QED
            BY <1>1, <1>d, <3>1, <3>3
    <2>3. ASSUME NEW s \in Searcher, query'[s].pc = "search"
          PROVE  Coherent(query[s])'
        BY <1>1, <1>c, <2>3 DEF Coherent
    <2> QED
        BY <2>1, <2>2, <2>3
<1>2. CASE Dropped
    BY <1>2, <1>c, ActorsAssumption DEF Dropped, CacheLock, Coherent
<1>3. CASE Restarted
    BY <1>3 DEF Restarted, NoQuery, Holding
<1>4. ASSUME NEW s \in Searcher, Turn(s)
      PROVE  /\ gdd' # NoEntry => CachedAs(gdd)'
             /\ \A t \in Searcher :
                    /\ query'[t].pc \in Holding => HoldsAs(query[t], gdd)'
                    /\ query'[t].pc = "search" => Coherent(query[t])'
    <2>1. Settled(query'[s], gdd')
        BY <1>4, <1>b, TurnSettles DEF Turn
    <2>2. UNCHANGED <<disk, builds, idx>>
        BY <1>4 DEF Turn
    <2>3. CachedAs(gdd)' <=> CachedAs(gdd')
        BY <2>2 DEF CachedAs, Examined, Past, Seen, Moving
    <2>4. \A t \in Searcher : HoldsAs(query[t], gdd)' <=> HoldsAs(query'[t], gdd')
        BY <2>2 DEF HoldsAs, HandsAre, OpeningAs, OpenAs, Held, Examined, Past, Seen, Moving, VersionOf
    <2>5. ASSUME NEW t \in Searcher \ {s}
          PROVE  /\ query'[t].pc \in Holding => HoldsAs(query'[t], gdd')
                 /\ query'[t].pc = "search" => Coherent(query[t])'
        BY <1>4, <1>c, <2>5 DEF Turn, Coherent
    <2>6. /\ gdd' # NoEntry => CachedAs(gdd')
          /\ query'[s].pc \in Holding => HoldsAs(query'[s], gdd')
          /\ query'[s].pc = "search" => Coherent(query[s])'
        BY <2>1 DEF Settled, Coherent
    <2> QED
        BY <2>3, <2>4, <2>5, <2>6
<1> QED
    BY <1>1, <1>2, <1>3, <1>4, Turns

-----------------------------------------------------------------------------
(* The packages of the list that check_for_updates() reads.                *)
Listed == IF disk["full_fmri"] = 0 THEN {} ELSE builds[disk["full_fmri"]].pkgs

(* What the worker has to index is in the catalog, and in the list or on   *)
(* its way: from the look at the list until the lock, whatever pkgrepo     *)
(* moves meanwhile, and in the build that it makes then.                   *)
DueInv == idx[worker].due \subseteq catalog
LookInv ==
    idx[worker].pc \in {"setup", "begin", "read"} /\ ~idx[worker].lost =>
        /\ idx[worker].due \subseteq idx[worker].todo \cup Listed
        /\ idx[worker].pc = "setup" => idx[worker].todo = {}
BuiltInv ==
    Moving(worker) /\ ~idx[worker].lost => idx[worker].due \subseteq builds[idx[worker].build].pkgs
(* Moving files loses no package, and stubs are written where none was.    *)
GrowInv == \A i \in Indexer : Moving(i) => Listed \subseteq builds[idx[i].build].pkgs
StubInv == \A i \in Indexer : idx[i].pc = "stub" => builds[idx[i].build].pkgs = {}
IndexInv == DueInv /\ LookInv /\ BuiltInv /\ GrowInv /\ StubInv /\ WholeAtRest

(* Without a purge no package goes from the list; and only a move of the   *)
(* list changes it.                                                        *)
LEMMA ListGrows ==
    ASSUME TypeInv, DiskInv, GrowInv, Effect, ~Clear
    PROVE  /\ Listed \subseteq Listed'
           /\ (\A i \in Indexer : ~MoveOne(i)) => Listed' = Listed
           /\ \A i \in Indexer : MoveOne(i) => Listed' \in {Listed, builds[idx[i].build].pkgs}
<1>0. "full_fmri" \in File
    BY Orders
<1>1. disk["full_fmri"] # 0 => disk["full_fmri"] \in 1 .. Len(builds)
    BY <1>0 DEF DiskInv, OnDisk, Seen
<1>2. disk["full_fmri"] # 0 => builds'[disk["full_fmri"]] = builds[disk["full_fmri"]]
    BY <1>1, BuildsGrow
<1>3. ASSUME disk' = disk PROVE Listed' = Listed
    BY <1>2, <1>3 DEF Listed
<1>4. (\A i \in Indexer : ~MoveOne(i)) => Listed' = Listed
    BY <1>3 DEF Effect, Quiet, StartMove, StopMove
<1>5. ASSUME NEW i \in Indexer, MoveOne(i)
      PROVE  Listed' \in {Listed, builds[idx[i].build].pkgs} /\ Listed \subseteq Listed'
    <2>1. builds' = builds /\ Moving(i) /\ idx[i].build # 0
        BY <1>5 DEF MoveOne, DiskInv, Migration, MigrationOf
    <2>2. disk'["full_fmri"] \in {disk["full_fmri"], idx[i].build}
        BY <1>0, <1>5 DEF MoveOne, TypeInv
    <2>3. Listed \subseteq builds[idx[i].build].pkgs
        BY <2>1 DEF GrowInv
    <2>4. Listed' \in {Listed, builds[idx[i].build].pkgs}
        BY <2>1, <2>2 DEF Listed
    <2> QED
        BY <2>3, <2>4
<1> QED
    BY <1>4, <1>5

(* The build of an update has the packages of the list, and those that the *)
(* indexer found missing in it.                                            *)
LEMMA NewHasListed ==
    ASSUME TypeInv, DiskInv, NEW i \in Indexer, Absent \/ Consistent
    PROVE  idx[i].todo \cup Listed \subseteq NewRecord(i).pkgs
<1>0. "main_dict" \in File /\ "full_fmri" \in File
    BY Orders
<1>1. NewRecord(i).pkgs = NewPackages(i)
    BY DEF NewRecord
<1>2. CASE Absent
    BY <1>0, <1>1, <1>2 DEF NewPackages, Listed, Absent
<1>3. CASE ~Absent
    <2>1. disk["full_fmri"] = disk["main_dict"] /\ disk["full_fmri"] # 0
        BY <1>0, <1>3 DEF Consistent, Present, DiskInv, SameVersion
    <2> QED
        BY <1>1, <1>3, <2>1 DEF NewPackages, Listed
<1> QED
    BY <1>2, <1>3

(* What the worker has to index is in the catalog, which only grows.       *)
LEMMA DueStep ==
    ASSUME TypeInv, DueInv, Kind
    PROVE  DueInv'
<1> USE Actors
<1>0. \A j \in Indexer : idx[j] \in Task
    BY TaskFields
<1>1. idx'[worker].due \in {idx[worker].due, {}, catalog}
    <2>1. ASSUME NEW i \in Indexer, Only(i), idx'[i].due = idx[i].due
          PROVE  idx'[worker].due = idx[worker].due
        BY <2>1 DEF Only
    <2>2. CASE Idle
        BY <2>2 DEF Idle
    <2>3. ASSUME NEW i \in Indexer, Rests(i) PROVE <1>1
        BY <2>3 DEF Rests, Plain, Looked, Only
    <2>4. ASSUME NEW i \in Indexer, Enters(i) \/ Stubs(i) \/ Writes(i) \/ Moves(i)
          PROVE  Only(i) /\ idx'[i].due = idx[i].due
        BY <1>0, <2>4 DEF Enters, Stubs, Writes, Moves, Task
    <2>5. ASSUME NEW i \in Indexer, Clears(i) PROVE <1>1
        BY <2>5 DEF Clears
    <2> QED
        BY <2>1, <2>2, <2>3, <2>4, <2>5 DEF Kind
<1>2. catalog \subseteq catalog'
    BY DEF Kind, Idle, Rests, Enters, Stubs, Writes, Moves, Clears
<1> QED
    BY <1>1, <1>2 DEF DueInv

(* Nothing that is due gets lost between the look at the list and the lock *)
(* of the index: pkgrepo, if it moves files meanwhile, only adds packages. *)
LEMMA LookStep ==
    ASSUME TypeInv, Alone, DiskInv, DueInv, LookInv, GrowInv, Kind, ~raced'
    PROVE  LookInv'
<1> USE Actors
<1> SUFFICES ASSUME idx'[worker].pc \in {"setup", "begin", "read"}, ~idx'[worker].lost
             PROVE  /\ idx'[worker].due \subseteq idx'[worker].todo \cup Listed'
                    /\ idx'[worker].pc = "setup" => idx'[worker].todo = {}
    BY DEF LookInv
<1>0. \A j \in Indexer : idx[j] \in Task
    BY TaskFields
<1>1. ~Clear
    BY DEF Clear, Relies, Busy
<1>2. Effect
    BY Effects
<1>3. Listed \subseteq Listed'
    BY <1>1, <1>2, ListGrows
<1>a. ASSUME idx'[worker].due = idx[worker].due, idx'[worker].todo = idx[worker].todo,
             idx'[worker].lost = idx[worker].lost, idx[worker].pc \in {"setup", "begin", "read"},
             idx'[worker].pc = "setup" => idx[worker].pc = "setup"
      PROVE  /\ idx'[worker].due \subseteq idx'[worker].todo \cup Listed'
             /\ idx'[worker].pc = "setup" => idx'[worker].todo = {}
    BY <1>3, <1>a DEF LookInv
<1>b. ASSUME idx'[worker] = idx[worker]
      PROVE  /\ idx'[worker].due \subseteq idx'[worker].todo \cup Listed'
             /\ idx'[worker].pc = "setup" => idx'[worker].todo = {}
    BY <1>a, <1>b
<1>4. CASE Idle
    BY <1>4, <1>b DEF Idle
<1>5. ASSUME NEW i \in Indexer, Only(i), i # worker
      PROVE  idx'[worker] = idx[worker]
    BY <1>5 DEF Only
<1>6. CASE Rests(worker)
    <2>1. Looked(worker, idx'[worker])
        BY <1>6 DEF Rests, Plain
    <2>2. ToIndex = catalog \ Listed
        BY DEF ToIndex, Listed
    <2> QED
        BY <1>3, <2>1, <2>2 DEF Looked, DueInv
<1>7. CASE Enters(worker)
    BY <1>0, <1>7, <1>a DEF Enters, Task
<1>8. ASSUME Stubs(worker) \/ Writes(worker) \/ Moves(worker)
      PROVE  FALSE
    BY <1>0, <1>8 DEF Stubs, Writes, Moves, Moving, Task
<1>9. ASSUME NEW i \in Indexer, Clears(i)
      PROVE  FALSE
    BY <1>9 DEF Clears, Relies, Busy
<1>10. ASSUME NEW i \in Indexer, Rests(i) \/ Enters(i) \/ Stubs(i) \/ Writes(i) \/ Moves(i)
       PROVE  Only(i)
    BY <1>10 DEF Rests, Enters, Stubs, Writes, Moves
<1> QED
    BY <1>4, <1>5, <1>6, <1>7, <1>8, <1>9, <1>10, <1>b DEF Kind

(* The build that an indexer moves has the packages it must have.          *)
LEMMA BuiltStep ==
    ASSUME TypeInv, Alone, DiskInv, LookInv, BuiltInv, GrowInv, StubInv, Effect
    PROVE  BuiltInv' /\ GrowInv' /\ StubInv'
<1> USE Actors
<1>a. \A i \in Indexer : Moving(i) => idx[i].build \in 1 .. Len(builds)
    BY DEF DiskInv, Migration, MigrationOf
<1>b. \A i \in Indexer : Moving(i) => builds'[idx[i].build] = builds[idx[i].build]
    BY <1>a, BuildsGrow
<1>c. \A i \in Indexer : idx'[i].pc = "stub" => Moving(i)'
    BY DEF Moving
<1>d. \A i \in Indexer : idx[i] \in Task
    BY TaskFields
<1>1. CASE Quiet
    <2>1. \A i \in Indexer : Moving(i)' => Moving(i) /\ idx'[i] = idx[i]
        BY <1>1 DEF Quiet, SameMoves
    <2>3. Listed' = Listed
        BY <1>1 DEF Quiet, Listed
    <2> QED
        BY <1>b, <1>c, <2>1, <2>3 DEF BuiltInv, GrowInv, StubInv
<1>2. CASE \A i \in Indexer : ~Moving(i)'
    BY <1>2, <1>c DEF BuiltInv, GrowInv, StubInv
<1>3. ASSUME NEW i \in Indexer, StartMove(i)
      PROVE  BuiltInv' /\ GrowInv' /\ StubInv'
    <2>0. /\ \A j \in Indexer : Moving(j)' => j = i
          /\ idx'[i].build = Len(builds') /\ idx'[i].due = idx[i].due /\ idx'[i].lost = idx[i].lost
        BY <1>3 DEF StartMove, SameMoves
    <2>1. Listed' = Listed
        <3>1. disk["full_fmri"] # 0 => disk["full_fmri"] \in 1 .. Len(builds)
            BY Orders DEF DiskInv, OnDisk, Seen
        <3>2. disk["full_fmri"] # 0 => builds'[disk["full_fmri"]] = builds[disk["full_fmri"]]
            BY <3>1, BuildsGrow
        <3> QED
            BY <1>3, <3>2 DEF StartMove, Listed
    <2>2. CASE /\ Absent /\ builds' = Append(builds, [ver |-> 1, pkgs |-> {}])
               /\ idx[i].pc = "setup" /\ idx'[i].pc = "stub"
        <3>1. builds'[Len(builds')].pkgs = {}
            BY <2>2, NewBuild
        <3>2. Listed = {}
            BY <2>2, Orders DEF Absent, Listed
        <3>3. i = worker /\ ~idx[i].lost => idx[i].due = {}
            BY <2>2, <3>2 DEF LookInv
        <3> QED
            BY <1>c, <2>0, <2>1, <3>1, <3>2, <3>3 DEF BuiltInv, GrowInv, StubInv
    <2>3. CASE /\ Absent \/ Consistent
               /\ NewRecord(i) \in Build /\ builds' = Append(builds, NewRecord(i))
               /\ idx[i].pc = "read" /\ idx'[i].pc = "move"
        <3>1. builds'[Len(builds')] = NewRecord(i)
            BY <2>3, NewBuild
        <3>2. idx[i].todo \cup Listed \subseteq NewRecord(i).pkgs
            BY <2>3, NewHasListed
        <3>3. i = worker /\ ~idx[i].lost => idx[i].due \subseteq NewRecord(i).pkgs
            BY <2>3, <3>2 DEF LookInv
        <3> QED
            BY <1>c, <2>0, <2>1, <2>3, <3>1, <3>2, <3>3 DEF BuiltInv, GrowInv, StubInv
    <2> QED
        BY <1>3, <2>2, <2>3 DEF StartMove
<1>4. ASSUME NEW i \in Indexer, MoveOne(i)
      PROVE  BuiltInv' /\ GrowInv' /\ StubInv'
    <2>0. \A j \in Indexer : Moving(j)' => j = i
        BY <1>4, OneMover DEF MoveOne, SameMoves
    <2>1. /\ idx'[i].pc = idx[i].pc /\ idx'[i].build = idx[i].build /\ idx'[i].due = idx[i].due
          /\ idx'[i].lost = idx[i].lost /\ builds' = builds /\ Moving(i)
        BY <1>4, <1>d DEF MoveOne, Task
    <2>2. Listed' \subseteq builds[idx[i].build].pkgs
        <3>1. disk'["full_fmri"] \in {disk["full_fmri"], idx[i].build}
            BY <1>4, Orders DEF MoveOne, TypeInv
        <3>2. idx[i].build # 0
            BY <1>a, <2>1
        <3> QED
            BY <2>1, <3>1, <3>2 DEF Listed, GrowInv
    <2> QED
        BY <1>c, <2>0, <2>1, <2>2 DEF BuiltInv, GrowInv, StubInv
<1>5. CASE Clear
    BY <1>2, <1>5 DEF Clear
<1>6. ASSUME NEW i \in Indexer, StopMove(i)
      PROVE  \A j \in Indexer : ~Moving(j)'
    BY <1>6, OneMover DEF StopMove, SameMoves
<1> QED
    BY <1>1, <1>2, <1>3, <1>4, <1>5, <1>6 DEF Effect

(* An index where nobody replaces files is whole, unless an indexer died.  *)
LEMMA WholeStep ==
    ASSUME TypeInv, Alone, DiskInv, ~raced, WholeAtRest, Effect
    PROVE  WholeAtRest'
<1>1. CASE Quiet
    BY <1>1 DEF Quiet, SameMoves, Moving, WholeAtRest
<1>2. CASE Clear
    BY <1>2 DEF Clear, NoFiles, WholeAtRest
<1>3. ASSUME NEW i \in Indexer, StartMove(i) \/ MoveOne(i)
      PROVE  WholeAtRest'
    BY <1>3 DEF StartMove, MoveOne, Moving, WholeAtRest
<1>4. ASSUME NEW i \in Indexer, StopMove(i), ~cut'
      PROVE  \A f, g \in File : disk'[f] = disk'[g]
    <2>1. idx[i].at = 1 \/ idx[i].at = 5
        BY <1>4, TaskFields DEF StopMove
    <2>2. MigrationOf(i) /\ disk' = disk
        BY <1>4 DEF StopMove, DiskInv, Migration
    <2>3. \A f \in File : Pos(f) \in 1 .. 4
        BY Positions
    <2> QED
        BY <2>1, <2>2, <2>3 DEF MigrationOf
<1> QED
    BY <1>1, <1>2, <1>3, <1>4 DEF Effect, WholeAtRest

(* What a task of the worker that updated the index leaves behind.         *)
LEMMA RefreshStep ==
    ASSUME TypeInv, InRange, Alone, DiskInv, IndexInv, Kind, Updated, ~idx[worker].lost
    PROVE  idx[worker].due \subseteq Indexed'
<1> USE Actors
<1>a. \A j \in Indexer : idx[j] \in Task /\ idx[j].at \in 1 .. 5
    BY TaskFields
<1>b. "main_dict" \in File /\ "full_fmri" \in File /\ Pos("main_dict") = 3
    BY Orders DEF Pos
<1>c. /\ idx[worker].pc \in {"setup", "stub", "move"} /\ idx'[worker].pc = "idle"
      /\ available' /\ ilock' = None /\ ~cut' /\ ~raced'
    BY DEF Updated
<1>1. Rests(worker)
    <2>1. ~Idle
        BY <1>c DEF Idle
    <2>2. ASSUME NEW i \in Indexer, Rests(i) \/ Enters(i) \/ Stubs(i) \/ Writes(i) \/ Moves(i)
          PROVE  i = worker
        BY <1>c, <2>2 DEF Rests, Enters, Stubs, Writes, Moves, Only
    <2>3. ~Enters(worker) /\ ~Stubs(worker) /\ ~Writes(worker) /\ ~Moves(worker)
        BY <1>a, <1>c DEF Enters, Stubs, Writes, Moves, Task
    <2>4. ASSUME NEW i \in Indexer, Clears(i) PROVE FALSE
        BY <1>c, <2>4 DEF Clears
    <2> QED
        BY <2>1, <2>2, <2>3, <2>4 DEF Kind
<1>2. disk' = disk /\ builds' = builds /\ raced' = raced /\ ~cut
    BY <1>1, <1>c DEF Rests
<1>3. Indexed' = Indexed
    BY <1>2 DEF Indexed
<1>4. CASE Moving(worker)
    <2>1. idx[worker].at = 5
        BY <1>1, <1>4, <1>c DEF Rests
    <2>2. disk["main_dict"] = idx[worker].build /\ idx[worker].build # 0
        BY <1>4, <1>b, <2>1 DEF DiskInv, Migration, MigrationOf
    <2>3. idx[worker].due \subseteq builds[idx[worker].build].pkgs
        BY <1>4 DEF IndexInv, BuiltInv
    <2> QED
        BY <1>3, <2>2, <2>3 DEF Indexed
<1>5. CASE idx[worker].pc = "setup"
    <2>1. idx[worker].due \subseteq Listed
        BY <1>5 DEF IndexInv, LookInv
    <2>2. ilock = None
        <3>1. ~Locking(worker)
            BY <1>5 DEF Locking
        <3>2. ilock # worker
            BY <3>1 DEF Alone
        <3> QED
            BY <1>1, <1>c, <3>2 DEF Rests, Unlock
    <2>3. ~Locking(pkgrepo)
        BY <2>2 DEF Alone
    <2>4. CASE idx[pkgrepo].pc = "stub"
        <3>1. Listed = {}
            BY <2>4 DEF IndexInv, StubInv, GrowInv, Moving
        <3> QED
            BY <2>1, <3>1
    <2>5. CASE idx[pkgrepo].pc # "stub"
        <3>1. \A i \in Indexer : idx[i].pc \notin {"stub", "move"}
            BY <1>5, <2>3, <2>5 DEF Locking
        <3>2. disk["main_dict"] = disk["full_fmri"]
            BY <1>2, <1>b, <1>c, <3>1 DEF IndexInv, WholeAtRest
        <3>3. Indexed = Listed
            BY <3>2 DEF Indexed, Listed
        <3> QED
            BY <1>3, <2>1, <3>3
    <2> QED
        BY <2>4, <2>5
<1> QED
    BY <1>4, <1>5, <1>c DEF Moving

-----------------------------------------------------------------------------
(* The inductive invariant: types and the lock of the cache; and until two *)
(* indexers race, that an indexer is alone, the files on disk, the work of *)
(* the indexers, and the cache with the queries.                           *)
Unraced == Alone /\ DiskInv /\ IndexInv /\ QueryInv
InductiveInv == TypeInv /\ InRange /\ CacheLock /\ (~raced => Unraced)

(* It holds at the start of the depot, where there is no index.            *)
LEMMA InitHolds ==
    ASSUME Init
    PROVE  InductiveInv
<1>1. /\ TypeInv
      /\ \A f \in File : disk[f] = 0 /\ tmp[f] = 0
    <2>1. builds \in Seq(Build) /\ tasks \in Seq({"refresh", "rebuild"})
        BY DEF Init
    <2> QED
        BY <2>1, Starts DEF Init, TypeInv, NoFiles
<1>2. \A i \in Indexer : /\ idx[i] = NoTask /\ ~Moving(i) /\ ~Busy(i) /\ ~Locking(i)
                         /\ idx[i].due = {} /\ idx[i].pc = "idle" /\ idx[i].build = 0
    BY DEF Init, NoTask, Moving, Busy, Locking
<1>3. \A s \in Searcher : query[s].pc = "idle"
    BY DEF Init, NoQuery
<1>4. InRange /\ CacheLock
    <2>1. Len(builds) = 0
        BY DEF Init
    <2> QED
        BY <1>1, <1>2, <1>3, <2>1 DEF InRange, CacheLock, Holding
<1>5. Alone
    BY <1>2, Actors DEF Init, Alone
<1>6. DiskInv
    BY <1>1, <1>2 DEF DiskInv, OnDisk, Ordered, SameVersion, Migration
<1>7. IndexInv
    BY <1>1, <1>2, Actors DEF IndexInv, DueInv, LookInv, BuiltInv, GrowInv, StubInv, WholeAtRest
<1>8. QueryInv
    BY <1>3 DEF Init, QueryInv, Holding
<1> QED
    BY <1>1, <1>4, <1>5, <1>6, <1>7, <1>8 DEF InductiveInv, Unraced

(* Every step keeps the types.                                             *)
LEMMA TypeStep ==
    ASSUME TypeInv, InRange, CacheLock, [Next]_vars
    PROVE  TypeInv'
<1>1. CASE UNCHANGED vars
    BY <1>1 DEF vars, TypeInv
<1>2. CASE \E s \in Searcher : CheckSearch(s) \/ Retry(s) \/ QueryStep(s)
    BY <1>2, QueryTypes
<1> QED
    BY <1>1, <1>2, IndexTypes DEF Next

(* Every step of indexers, queries, restarts and kills keeps it.           *)
LEMMA StepHolds ==
    ASSUME InductiveInv, [Next]_vars
    PROVE  InductiveInv'
<1>1. TypeInv /\ InRange /\ CacheLock
    BY DEF InductiveInv
<1>2. Kind
    BY <1>1, Kinds
<1>3. TypeInv' /\ InRange' /\ CacheLock'
    BY <1>1, <1>2, TypeStep, KindTypes, CacheStep
<1>4. ASSUME ~raced' PROVE Unraced'
    <2>1. ~raced
        BY <1>2, <1>4 DEF Kind, Idle, Rests, Enters, Stubs, Writes, Moves, Clears
    <2>2. Alone /\ DiskInv /\ IndexInv /\ QueryInv
        BY <2>1 DEF InductiveInv, Unraced
    <2>3. Effect
        BY <1>1, <1>2, <1>4, <2>2, Effects
    <2>4. Alone' /\ DiskInv'
        BY <1>1, <1>2, <1>4, <2>2, <2>3, AloneStep, DiskStep
    <2>5. IndexInv'
        BY <1>1, <1>2, <1>4, <2>1, <2>2, <2>3, DueStep, LookStep, BuiltStep, WholeStep DEF IndexInv
    <2>6. QueryInv'
        BY <1>1, <2>2, <2>3, QueryStays
    <2> QED
        BY <2>4, <2>5, <2>6 DEF Unraced
<1> QED
    BY <1>3, <1>4 DEF InductiveInv

(* The invariant that the theorems below rest on holds in every state the  *)
(* depot, pkgrepo and the queries reach, for any number of threads,        *)
(* packages and builds.                                                    *)
THEOREM Invariance == Spec => []InductiveInv
<1>1. Init => InductiveInv
    BY InitHolds
<1>2. InductiveInv /\ [Next]_vars => InductiveInv'
    BY StepHolds
<1> QED
    BY <1>1, <1>2, PTL DEF Spec

(* A search reads the main dictionary with offsets and a list of packages  *)
(* of its own build: TermQuery.search() never mixes two builds of the      *)
(* index, however the indexers replaced the files while consistent_open(), *)
(* should_reread() and read_dict_file() ran, unless a purge came between   *)
(* or two indexers raced through the gap of __purge_search_index().        *)
THEOREM SearchCorrect == Spec => []SearchIsCoherent
<1>1. InductiveInv => SearchIsCoherent
    BY DEF InductiveInv, Unraced, QueryInv, Coherent, SearchIsCoherent, At
<1> QED
    BY <1>1, Invariance, PTL

(* When no indexer is in _migrate() or writes the stubs of setup() the     *)
(* files of the index are of one build, or there are none, unless an       *)
(* indexer died on the way or two of them raced through that gap.          *)
THEOREM WholeCorrect == Spec => []WholeAtRest
<1>1. InductiveInv => WholeAtRest
    BY DEF InductiveInv, Unraced, IndexInv, WholeAtRest
<1> QED
    BY <1>1, Invariance, PTL

(* A task of the depot's background thread that updated the index, or      *)
(* found nothing to do, leaves every package in it that the catalog had    *)
(* when the task began: although check_for_updates() reads the list with   *)
(* no lock and pkgrepo may move files before the indexer locks, unless     *)
(* pkgrepo purged the index in between.                                    *)
THEOREM RefreshCorrect == Spec => RefreshIndexes
<1>1. InductiveInv /\ [Next]_vars =>
          [Updated /\ ~idx[worker].lost => idx[worker].due \subseteq Indexed']_vars
    <2> SUFFICES ASSUME InductiveInv, [Next]_vars, Updated, ~idx[worker].lost
                 PROVE  idx[worker].due \subseteq Indexed'
        OBVIOUS
    <2>1. TypeInv /\ InRange /\ (~raced => Unraced)
        BY DEF InductiveInv
    <2>2. Kind
        BY <2>1, Kinds
    <2>3. ~raced
        BY <2>2 DEF Updated, Kind, Idle, Rests, Enters, Stubs, Writes, Moves, Clears
    <2> QED
        BY <2>1, <2>2, <2>3, RefreshStep DEF Unraced
<1> QED
    BY <1>1, Invariance, PTL DEF Spec, RefreshIndexes
=============================================================================
