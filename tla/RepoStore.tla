------------------------------- MODULE RepoStore -------------------------------
(***************************************************************************)
(* pkg.server.repository._RepoStore: publication into, removal from and    *)
(* repair of the store of one publisher, by the threads of several         *)
(* processes (the depot server, pkgsend and pkgrepo on a file repository). *)
(*                                                                         *)
(* On disk: the catalog, the manifests, the payload files and the          *)
(* directories of in-flight transactions.  In every process: the catalog   *)
(* object, loaded when first needed and kept from then on.  The repository *)
(* lock (module LockFile, here its promise: at most one owner) covers the  *)
(* changes of the catalog and the removal of packages; transactions write  *)
(* without it.  A step ends where another process can see, or a crash can  *)
(* expose, what is on disk.                                                *)
(***************************************************************************)
EXTENDS Naturals, FiniteSets

CONSTANTS
    Process,        \* processes that opened the repository
    Actor,          \* threads of the processes
    ProcOf,         \* the process of a thread
    Pkg,            \* packages (FMRIs with a timestamp)
    File,           \* payload files, named by their hash
    Contents,       \* the files that the manifest of a package names
    None,           \* nobody
    Crashes,        \* processes may die
    Exclusive,      \* a process opens the repository when no other has it open
    Repairs,        \* pkgrepo refresh and pkgrepo rebuild are used
    Removes,        \* pkgrepo remove is used
    QuietRemoves    \* ... and no transaction is open or opened meanwhile

ASSUME ProcOfAssumption == ProcOf \in [Actor -> Process]
ASSUME ContentsAssumption == Contents \in [Pkg -> SUBSET File]
ASSUME NoneAssumption ==
    None \notin Process /\ None \notin Actor /\ None \notin Pkg

VARIABLES
    catalog,    \* the set of packages of the catalog directory, or NoCat
    manifests,  \* the packages whose manifest is in the store
    files,      \* the payload files in the store
    trans,      \* the directory of a transaction
    up,         \* the processes that have the repository open
    mem,        \* the catalog object of a process, NoCat while not loaded
    lock,       \* the owner of the repository lock
    pc,         \* where a thread is in an operation
    arg,        \* the packages the operation is about
    doomed,     \* remove_packages: the files to be removed
    acked,      \* history: packages whose close() was answered PUBLISHED ...
    listed,     \* ... with add_to_catalog, and not removed since
    due,        \* history: acked when a refresh got the lock
    cut         \* history: a process died in the middle of __save_catalog()

store == <<catalog, manifests, files, trans>>
history == <<acked, listed, due, cut>>
vars == <<catalog, manifests, files, trans, up, mem, lock, pc, arg, doomed,
          acked, listed, due, cut>>

(* No catalog directory, no catalog object: not a set of packages.         *)
NoCat == {None}
NoTrans == [open |-> FALSE, manifest |-> FALSE, added |-> {}, stored |-> {}]
Locations == {"idle", "insert", "lock", "rmtree",   \* close()
              "save", "move",                       \* __save_catalog()
              "analyze", "rmmanifest", "rmfiles"}   \* remove_packages()
Operations == {"close", "refresh", "rebuild", "remove", "none"}

TypeOK ==
    /\ catalog \in (SUBSET Pkg) \cup {NoCat}
    /\ manifests \subseteq Pkg /\ files \subseteq File
    /\ trans \in [Pkg -> [open : BOOLEAN, manifest : BOOLEAN,
                          added : SUBSET File, stored : SUBSET File]]
    /\ up \subseteq Process
    /\ mem \in [Process -> (SUBSET Pkg) \cup {NoCat}]
    /\ lock \in Actor \cup {None}
    /\ pc \in [Actor -> Locations]
    /\ arg \in [Actor -> [op : Operations, pkgs : SUBSET Pkg]]
    /\ doomed \in [Actor -> SUBSET File]
    /\ acked \subseteq Pkg /\ listed \subseteq Pkg
    /\ due \in [Actor -> SUBSET Pkg] /\ cut \in BOOLEAN

Init ==
    /\ catalog = {} /\ manifests = {} /\ files = {}
    /\ trans = [k \in Pkg |-> NoTrans]
    /\ up = {} /\ mem = [p \in Process |-> NoCat]
    /\ lock = None
    /\ pc = [a \in Actor |-> "idle"]
    /\ arg = [a \in Actor |-> [op |-> "none", pkgs |-> {}]]
    /\ doomed = [a \in Actor |-> {}]
    /\ acked = {} /\ listed = {} /\ due = [a \in Actor |-> {}] /\ cut = FALSE

Goto(a, l) == pc' = [pc EXCEPT ![a] = l]
Begin(a, o, ks) == arg' = [arg EXCEPT ![a] = [op |-> o, pkgs |-> ks]]
Idle(a) == pc[a] = "idle" /\ ProcOf[a] \in up

(* The catalog property: the object the process has, or the one it loads;  *)
(* of a catalog directory that is not there nothing is cached.             *)
Loaded(p) == IF mem[p] = NoCat THEN catalog ELSE mem[p]
Entries(p) == IF Loaded(p) = NoCat THEN {} ELSE Loaded(p)
SetMem(p, c) == mem' = [mem EXCEPT ![p] = c]

-----------------------------------------------------------------------------
(* Opening the repository.  __init_state() saves an empty catalog if there *)
(* is none on disk.                                                        *)
Start(p) ==
    /\ p \notin up
    /\ Exclusive => up = {}
    /\ lock = None
    /\ up' = up \cup {p}
    /\ catalog' = IF catalog = NoCat THEN {} ELSE catalog
    /\ UNCHANGED <<manifests, files, trans, mem, lock, pc, arg, doomed, history>>

(* The end of a process, at once (Crashes) or when it has nothing to do.   *)
Stop(p) ==
    /\ p \in up
    /\ Crashes \/ \A a \in Actor : ProcOf[a] = p => pc[a] = "idle"
    /\ up' = up \ {p}
    /\ mem' = [mem EXCEPT ![p] = NoCat]
    /\ lock' = IF lock # None /\ ProcOf[lock] = p THEN None ELSE lock
    /\ pc' = [a \in Actor |-> IF ProcOf[a] = p THEN "idle" ELSE pc[a]]
    /\ arg' = [a \in Actor |-> IF ProcOf[a] = p THEN [op |-> "none", pkgs |-> {}]
                                                ELSE arg[a]]
    /\ doomed' = [a \in Actor |-> IF ProcOf[a] = p THEN {} ELSE doomed[a]]
    /\ due' = [a \in Actor |-> IF ProcOf[a] = p THEN {} ELSE due[a]]
    /\ cut' = (cut \/ \E a \in Actor : ProcOf[a] = p /\ pc[a] = "move")
    /\ UNCHANGED <<store, acked, listed>>

-----------------------------------------------------------------------------
(* Transactions: none of these steps takes the repository lock.            *)

(* Transaction.open(): the package is not in the catalog (valid_new_fmri)  *)
(* and has no transaction yet.                                             *)
Open(a, k) ==
    LET p == ProcOf[a]
    IN  /\ Idle(a)
        /\ QuietRemoves => \A b \in Actor : arg[b].op # "remove"
        /\ k \notin Entries(p)
        /\ ~trans[k].open
        /\ trans' = [trans EXCEPT ![k] = [NoTrans EXCEPT !.open = TRUE,
                                                         !.manifest = TRUE]]
        /\ SetMem(p, Loaded(p))
        /\ UNCHANGED <<catalog, manifests, files, up, lock, pc, arg, doomed, history>>

(* Transaction.add_content() of an action with a payload: a file that the  *)
(* repository has already is not stored in the transaction.                *)
AddFile(a, k, f) ==
    /\ Idle(a)
    /\ trans[k].open /\ trans[k].manifest
    /\ f \in Contents[k] \ trans[k].added
    /\ trans' = [trans EXCEPT ![k].added = @ \cup {f},
                              ![k].stored = IF f \in files THEN @
                                                           ELSE @ \cup {f}]
    /\ UNCHANGED <<catalog, manifests, files, up, mem, lock, pc, arg, doomed,
                   history>>

(* The client of a transaction makes one call at a time: it does not       *)
(* abandon what it is closing.                                             *)
Abandon(a, k) ==
    /\ Idle(a)
    /\ trans[k].open
    /\ \A b \in Actor : k \notin arg[b].pkgs
    /\ trans' = [trans EXCEPT ![k] = NoTrans]
    /\ UNCHANGED <<catalog, manifests, files, up, mem, lock, pc, arg, doomed,
                   history>>

(* Transaction.close(), publish_package(): the manifest is renamed into    *)
(* the store, then the files are moved one by one.                         *)
Close(a, k) ==
    /\ Idle(a)
    /\ trans[k].open /\ trans[k].manifest
    /\ trans[k].added = Contents[k]
    /\ manifests' = manifests \cup {k}
    /\ trans' = [trans EXCEPT ![k].manifest = FALSE]
    /\ Begin(a, "close", {k})
    /\ Goto(a, "insert")
    /\ UNCHANGED <<catalog, files, up, mem, lock, doomed, history>>

InsertFile(a, k) ==
    /\ pc[a] = "insert" /\ arg[a].pkgs = {k}
    /\ \E f \in trans[k].stored :
           /\ files' = files \cup {f}
           /\ trans' = [trans EXCEPT ![k].stored = @ \ {f}]
    /\ UNCHANGED <<catalog, manifests, up, mem, lock, pc, arg, doomed, history>>

(* publish_package() is done; add_to_catalog may be False (--no-catalog).  *)
Inserted(a, k) ==
    /\ pc[a] = "insert" /\ arg[a].pkgs = {k}
    /\ trans[k].stored = {}
    /\ \/ Goto(a, "lock")
       \/ Goto(a, "rmtree")
    /\ UNCHANGED <<store, up, mem, lock, arg, doomed, history>>

(* add_package(): under the lock, into the catalog object of the process,  *)
(* which may be older than the catalog on disk; DuplicateCatalogEntry ends *)
(* the close() if the package is there already.  (replace_package(), which *)
(* ends an append, writes the object back in the same way.)                *)
AddPackage(a, k) ==
    LET p == ProcOf[a]
    IN  /\ pc[a] = "lock" /\ arg[a].pkgs = {k}
        /\ lock = None
        /\ IF k \in Entries(p)
           THEN /\ SetMem(p, Entries(p))
                /\ Goto(a, "idle") /\ Begin(a, "none", {})
                /\ UNCHANGED lock
           ELSE /\ SetMem(p, Entries(p) \cup {k})
                /\ Goto(a, "save")
                /\ lock' = a
                /\ UNCHANGED arg
        /\ UNCHANGED <<store, up, doomed, history>>

(* __save_catalog(): the new catalog has been written to a temporary       *)
(* directory; the old one is moved away ...                                *)
MoveOld(a) ==
    /\ pc[a] = "save"
    /\ catalog' = NoCat
    /\ Goto(a, "move")
    /\ UNCHANGED <<manifests, files, trans, up, mem, lock, arg, doomed, history>>

(* ... and the new one renamed into place; the lock is released.           *)
MoveNew(a) ==
    /\ pc[a] = "move"
    /\ catalog' = mem[ProcOf[a]]
    /\ lock' = None
    /\ IF arg[a].op = "close"
       THEN Goto(a, "rmtree") /\ listed' = listed \cup arg[a].pkgs /\ UNCHANGED arg
       ELSE Goto(a, "idle") /\ Begin(a, "none", {}) /\ UNCHANGED listed
    /\ UNCHANGED <<manifests, files, trans, up, mem, doomed, acked, due, cut>>

(* The directory of the transaction is removed and the client answered.    *)
Closed(a, k) ==
    /\ pc[a] = "rmtree" /\ arg[a].pkgs = {k}
    /\ trans' = [trans EXCEPT ![k] = NoTrans]
    /\ acked' = acked \cup {k}
    /\ Goto(a, "idle") /\ Begin(a, "none", {})
    /\ UNCHANGED <<catalog, manifests, files, up, mem, lock, doomed, listed, due, cut>>

-----------------------------------------------------------------------------
(* Mutant: only the catalog as loaded is saved again.                      *)
MutAddContent(a) ==
    LET p == ProcOf[a]
    IN  /\ Repairs /\ Idle(a)
        /\ lock = None
        /\ lock' = a
        /\ SetMem(p, Entries(p))
        /\ Begin(a, "refresh", {}) /\ Goto(a, "save")
        /\ due' = [due EXCEPT ![a] = acked]
        /\ UNCHANGED <<store, up, doomed, acked, listed, cut>>

(* add_content() (pkgrepo refresh): __rebuild(incremental=True) adds every *)
(* manifest of the store that the catalog object does not have.            *)
AddContent(a) ==
    LET p == ProcOf[a]
    IN  /\ Repairs /\ Idle(a)
        /\ lock = None
        /\ lock' = a
        /\ SetMem(p, Entries(p) \cup manifests)
        /\ Begin(a, "refresh", {}) /\ Goto(a, "save")
        /\ due' = [due EXCEPT ![a] = acked]
        /\ UNCHANGED <<store, up, doomed, acked, listed, cut>>

(* rebuild(): the catalog is destroyed and made anew from the manifests.   *)
Rebuild(a) ==
    /\ Repairs /\ Idle(a)
    /\ lock = None
    /\ lock' = a
    /\ catalog' = NoCat
    /\ SetMem(ProcOf[a], manifests)
    /\ Begin(a, "rebuild", {}) /\ Goto(a, "save")
    /\ UNCHANGED <<manifests, files, trans, up, doomed, history>>

(* remove_packages(): out of the catalog first, which is saved in place.   *)
RemovePackages(a, ks) ==
    LET p == ProcOf[a]
    IN  /\ Removes
        /\ QuietRemoves => \A k \in Pkg : ~trans[k].open
        /\ Idle(a)
        /\ ks \cap manifests # {}
        /\ lock = None
        /\ lock' = a
        /\ SetMem(p, Entries(p) \ ks)
        /\ catalog' = IF ks \cap Entries(p) = {} THEN catalog ELSE Entries(p) \ ks
        /\ Begin(a, "remove", ks) /\ Goto(a, "analyze")
        /\ acked' = acked \ ks /\ listed' = listed \ ks
        /\ due' = [b \in Actor |-> due[b] \ ks]
        /\ UNCHANGED <<manifests, files, trans, up, doomed, cut>>

FilesOf(ks) == UNION {Contents[k] : k \in ks}

(* Mutant: files of other packages are not spared.                         *)
MutAnalyze(a) ==
    /\ pc[a] = "analyze"
    /\ arg[a].pkgs \subseteq manifests
    /\ doomed' = [doomed EXCEPT ![a] = FilesOf(arg[a].pkgs)]
    /\ Goto(a, "rmmanifest")
    /\ UNCHANGED <<store, up, mem, lock, arg, history>>

(* The files of the packages, less the files that a manifest of the store  *)
(* still names.                                                            *)
Analyze(a) ==
    /\ pc[a] = "analyze"
    /\ arg[a].pkgs \subseteq manifests
    /\ doomed' = [doomed EXCEPT ![a] = FilesOf(arg[a].pkgs)
                                           \ FilesOf(manifests \ arg[a].pkgs)]
    /\ Goto(a, "rmmanifest")
    /\ UNCHANGED <<store, up, mem, lock, arg, history>>

(* One of the packages has no manifest: the exception ends the operation.  *)
AnalyzeFails(a) ==
    /\ pc[a] = "analyze"
    /\ ~(arg[a].pkgs \subseteq manifests)
    /\ lock' = None
    /\ Goto(a, "idle") /\ Begin(a, "none", {})
    /\ UNCHANGED <<store, up, mem, doomed, history>>

RemoveManifests(a) ==
    /\ pc[a] = "rmmanifest"
    /\ manifests' = manifests \ arg[a].pkgs
    /\ Goto(a, "rmfiles")
    /\ UNCHANGED <<catalog, files, trans, up, mem, lock, arg, doomed, history>>

RemoveFiles(a) ==
    /\ pc[a] = "rmfiles"
    /\ files' = files \ doomed[a]
    /\ doomed' = [doomed EXCEPT ![a] = {}]
    /\ lock' = None
    /\ Goto(a, "idle") /\ Begin(a, "none", {})
    /\ UNCHANGED <<catalog, manifests, trans, up, mem, history>>

-----------------------------------------------------------------------------
Next ==
    \/ \E p \in Process : Start(p) \/ Stop(p)
    \/ \E a \in Actor :
          \/ MoveOld(a) \/ MoveNew(a) \/ AddContent(a) \/ Rebuild(a)
          \/ Analyze(a) \/ AnalyzeFails(a) \/ RemoveManifests(a) \/ RemoveFiles(a)
          \/ \E k \in Pkg : \/ Open(a, k) \/ Abandon(a, k) \/ Close(a, k)
                            \/ InsertFile(a, k) \/ Inserted(a, k)
                            \/ AddPackage(a, k) \/ Closed(a, k)
                            \/ \E f \in File : AddFile(a, k, f)
          \/ \E ks \in SUBSET Pkg : RemovePackages(a, ks)

Spec == Init /\ [][Next]_vars
-----------------------------------------------------------------------------
(* What the catalog lists can be served: every package of the catalog on   *)
(* disk has its manifest and all of its files in the store, at every       *)
(* moment: "clients won't have a chance to retrieve a manifest which has   *)
(* missing files" (remove_packages), after a crash and while packages come *)
(* and go.  With a refresh of another process, or one after a crash, that  *)
(* is not so; CatalogServes proves it for processes one at a time without. *)
CatalogIsServable ==
    catalog # NoCat =>
        \A k \in catalog : k \in manifests /\ Contents[k] \subseteq files

(* What was answered PUBLISHED is durable: no crash and no removal of      *)
(* other packages takes the manifest or a file of it away.                 *)
AckedIsDurable ==
    \A k \in acked : k \in manifests /\ Contents[k] \subseteq files

(* A package that was published into the catalog is in every catalog that  *)
(* readers find on disk until it is removed: updates of the catalog by     *)
(* processes that publish at the same time are "performed serially"        *)
(* (pkgsend(1)), so none of them is lost.  It is violated as soon as two   *)
(* processes have the repository open (run repo_parallel): the object a    *)
(* process writes back may be older than the catalog on disk.  (The two    *)
(* renames of __save_catalog() are not atomic: a crash between them is     *)
(* left out.)                                                              *)
ListedInCatalog == catalog # NoCat /\ ~cut => listed \subseteq catalog

(* pkgrepo refresh repairs the catalog: when it is done every package      *)
(* answered PUBLISHED before it began is listed, whatever crashes and      *)
(* stale catalog objects did to the catalog.                               *)
RefreshRestores ==
    [][\A a \in Actor : pc[a] = "move" /\ arg[a].op = "refresh" /\ pc'[a] = "idle"
           /\ ProcOf[a] \in up'
           => due[a] \subseteq catalog']_vars
=============================================================================
