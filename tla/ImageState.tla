------------------------------ MODULE ImageState ------------------------------
(***************************************************************************)
(* What an image records about its packages (client/image.py and           *)
(* client/imagecatalog.py): the state directory with the catalogs of known *)
(* and installed packages, the flag of an update under way, the frozen and *)
(* the avoided packages; the manifests, and the files of the packages.     *)
(*                                                                         *)
(* A process loads some of it when it starts, takes the image lock for an  *)
(* operation, writes a new state directory beside the old one, moves the   *)
(* old one away and renames the new one into its place.  It may die at any *)
(* step; its lock is then free.  Images of format 4 keep JSON catalogs and *)
(* a database that mirrors them; format 5 has only the database.           *)
(***************************************************************************)
EXTENDS Naturals, FiniteSets

CONSTANTS
    Pkg, Proc,
    Freezable, Avoidable,   \* the packages that are frozen, or avoided
    None,               \* no package, no process
    MaxCrashes,         \* bound: processes that die
    Exclusive,          \* nothing changes between a process's start and its lock
    SingleOrigin,       \* the publisher has one origin
    PartialFailures     \* a refresh may fail after some origin has changed

ASSUME NoneAssumption == None \notin Pkg \cup Proc
ASSUME SubsetsAssumption == Freezable \subseteq Pkg /\ Avoidable \subseteq Pkg

VARIABLES
    version,    \* the format in the image's configuration
    dir,        \* the state directory
    salvaged,   \* the state directory that was moved away
    avail,      \* the packages in the copies of the origins' catalogs
    pub,        \* the packages in the catalog of the publisher
    manifests,  \* the packages with a manifest in the image
    files,      \* the packages whose files are in place
    lock,       \* the process that holds the image lock
    pc, task,   \* where a process is, and in which operation
    mem,        \* what it has loaded or planned
    tmp,        \* the state directory it has prepared
    crashes,
    cut, torn   \* history: a process died in an unprotected place

disk == <<version, dir, salvaged, avail, pub, manifests, files>>
procs == <<lock, pc, task, mem, tmp>>
history == <<crashes, cut, torn>>
vars == <<version, dir, salvaged, avail, pub, manifests, files,
          lock, pc, task, mem, tmp, crashes, cut, torn>>

States == {"known", "installed", "manual", "frozen"}

(* The catalogs: the states of every known package, and the packages in    *)
(* the installed catalog.                                                  *)
NoRows == [rows |-> <<>>, inst |-> {}]
NewDir == [json |-> NoRows, db |-> NoRows, fresh |-> TRUE, flag |-> FALSE,
           avoid |-> {}, frozen |-> {}]
Gone == [gone |-> TRUE]
NoMem == [ver |-> 0]
StalePlan == [valid |-> FALSE]
Store(ver, d) == IF ver = 5 THEN d.db ELSE d.json

(* A new image: the publisher's catalog is empty until it is refreshed.    *)
Init ==
    /\ version = 4
    /\ dir = NewDir
    /\ salvaged = Gone /\ avail = {} /\ pub = {}
    /\ manifests = {} /\ files = {}
    /\ lock = None
    /\ pc = [p \in Proc |-> "none"] /\ task = [p \in Proc |-> "none"]
    /\ mem = [p \in Proc |-> NoMem] /\ tmp = [p \in Proc |-> Gone]
    /\ crashes = 0 /\ cut = FALSE /\ torn = FALSE

-----------------------------------------------------------------------------
Undisturbed == Exclusive => lock = None /\ \A q \in Proc : pc[q] # "ready"

(* Image(): the format, the avoid set and the installed catalog are loaded *)
(* before any lock is held.  What follows the loss of a state directory    *)
(* (cut) is not modelled.                                                  *)
Start(p) ==
    /\ pc[p] = "none" /\ dir # Gone /\ ~cut
    /\ Undisturbed
    /\ mem' = [mem EXCEPT ![p] = [ver |-> version, icat |-> Store(version, dir),
                                  avoid |-> dir.avoid]]
    /\ pc' = [pc EXCEPT ![p] = "ready"]
    /\ UNCHANGED <<disk, lock, task, tmp, history>>

(* locked_op(): the operation t begins at step s.                          *)
Locked(p, t, s) ==
    /\ pc[p] = "ready" /\ lock = None /\ ~cut
    /\ lock' = p
    /\ pc' = [pc EXCEPT ![p] = s] /\ task' = [task EXCEPT ![p] = t]

(* The operation ends, the lock is released and the process exits.         *)
Exit(p) ==
    /\ lock' = None
    /\ pc' = [pc EXCEPT ![p] = "none"] /\ task' = [task EXCEPT ![p] = "none"]
    /\ mem' = [mem EXCEPT ![p] = NoMem] /\ tmp' = [tmp EXCEPT ![p] = Gone]

(* A process that only reads, or discards its plan.                        *)
Leave(p) ==
    /\ pc[p] \in {"ready", "planned"}
    /\ pc' = [pc EXCEPT ![p] = "none"] /\ mem' = [mem EXCEPT ![p] = NoMem]
    /\ UNCHANGED <<disk, lock, task, tmp, history>>

Goto(p, s) == pc' = [pc EXCEPT ![p] = s] /\ UNCHANGED <<lock, task>>

-----------------------------------------------------------------------------
(* What the operations write.                                              *)

(* Mutant: an entry that is no longer known stays in the database.         *)
MutSync(old, new, changed) ==
    [rows |-> [k \in DOMAIN old.rows \cup (DOMAIN new.rows \cap changed) |->
                   IF k \in changed \cap DOMAIN new.rows THEN new.rows[k] ELSE old.rows[k]],
     inst |-> (old.inst \ changed) \cup (new.inst \cap changed)]

(* The part of the database that sync_entries() and apply_pending() bring  *)
(* up to date: the packages that were changed.                             *)
Sync(old, new, changed) ==
    [rows |-> [k \in (DOMAIN old.rows \ changed) \cup (DOMAIN new.rows \cap changed) |->
                   IF k \in changed THEN new.rows[k] ELSE old.rows[k]],
     inst |-> (old.inst \ changed) \cup (new.inst \cap changed)]

(* __catalog_save(): every file of the state directory is copied, the flag *)
(* of an update included.                                                  *)
CatalogSave(p, new, changed) ==
    tmp' = [tmp EXCEPT ![p] =
        [dir EXCEPT !.json = IF mem[p].ver = 4 THEN new ELSE NoRows,
                    !.db = Sync(dir.db, new, changed), !.fresh = TRUE]]

(* Mutant: the mark of a manually installed package is not carried over.   *)
MutRebuilt(icat, frozen) ==
    LET kept == {k \in icat.inst : "installed" \in icat.rows[k]}
        mark(k) == IF k \in frozen THEN {"frozen"} ELSE {}
    IN  [rows |-> [k \in pub \cup kept |->
                       IF k \in pub
                       THEN {"known"} \cup mark(k) \cup
                            (IF k \in kept THEN {"installed"} ELSE {})
                       ELSE (icat.rows[k] \ {"known", "frozen"}) \cup mark(k)],
         inst |-> kept]

(* What __rebuild_image_catalogs() makes of the publisher's catalog and    *)
(* the old installed catalog.                                              *)
Rebuilt(icat, frozen) ==
    LET kept == {k \in icat.inst : "installed" \in icat.rows[k]}
        mark(k) == IF k \in frozen THEN {"frozen"} ELSE {}
    IN  [rows |-> [k \in pub \cup kept |->
                       IF k \in pub
                       THEN {"known"} \cup mark(k) \cup
                            (IF k \in kept
                             THEN {"installed"} \cup (icat.rows[k] \cap {"manual"})
                             ELSE {})
                       ELSE (icat.rows[k] \ {"known", "frozen"}) \cup mark(k)],
         inst |-> kept]

(* The states after add is installed and rem is removed.                   *)
Installed(s, add, rem, manual) ==
    LET kept == IF rem = None \/ "known" \in s.rows[rem] THEN {} ELSE {rem}
        asked == manual \/ (rem # None /\ add # None /\ "manual" \in s.rows[rem])
    IN  [rows |-> [k \in DOMAIN s.rows \ kept |->
                       IF k = add THEN s.rows[k] \cup {"installed"} \cup
                                       (IF asked THEN {"manual"} ELSE {})
                       ELSE IF k = rem THEN s.rows[k] \ {"installed", "manual"}
                       ELSE s.rows[k]],
         inst |-> (s.inst \ {rem}) \cup ({add} \ {None})]

-----------------------------------------------------------------------------
(* The new state directory takes the place of the old one.                 *)
Salvage(p) ==
    /\ pc[p] = "save"
    /\ dir' = Gone /\ salvaged' = dir
    /\ Goto(p, "swap")
    /\ UNCHANGED <<version, avail, pub, manifests, files, mem, tmp, history>>

(* What follows the swap.                                                  *)
AfterSwap(p) ==
    \/ task[p] = "execute" /\ Goto(p, "avoid")
    \/ task[p] = "upgrade" /\ Goto(p, "config")
    \/ /\ task[p] \notin {"execute", "upgrade"}
       /\ lock' = None
       /\ pc' = [pc EXCEPT ![p] = "none"] /\ task' = [task EXCEPT ![p] = "none"]

(* Mutant: the new catalogs have the time of modification of the old ones. *)
MutSwapIn(p) ==
    /\ pc[p] = "swap"
    /\ dir' = tmp[p] /\ salvaged' = Gone
    /\ mem' = [mem EXCEPT ![p] = IF task[p] \in {"execute", "upgrade"} THEN @ ELSE NoMem]
    /\ tmp' = [tmp EXCEPT ![p] = Gone]
    /\ AfterSwap(p)
    /\ UNCHANGED <<version, avail, pub, manifests, files, history>>

(* Every plan that was made from the old catalogs is now out of date:      *)
(* their time of modification is in the new ones.                          *)
SwapIn(p) ==
    /\ pc[p] = "swap"
    /\ dir' = tmp[p] /\ salvaged' = Gone
    /\ mem' = [q \in Proc |->
                   IF pc[q] = "planned" THEN StalePlan
                   ELSE IF q = p /\ task[p] \notin {"execute", "upgrade"} THEN NoMem
                   ELSE mem[q]]
    /\ tmp' = [tmp EXCEPT ![p] = Gone]
    /\ AfterSwap(p)
    /\ UNCHANGED <<version, avail, pub, manifests, files, history>>

-----------------------------------------------------------------------------
(* refresh_publishers().                                                   *)

(* Mutant: a flag that is there already is ignored.                        *)
MutStartStateUpdate(p) ==
    /\ Locked(p, "refresh", "refresh")
    /\ dir' = [dir EXCEPT !.flag = TRUE]
    /\ mem' = [mem EXCEPT ![p] = [ver |-> mem[p].ver, icat |-> mem[p].icat,
                                  updated |-> FALSE, origins |-> FALSE]]
    /\ UNCHANGED <<version, salvaged, avail, pub, manifests, files, tmp, history>>

(* __start_state_update(): a flag that is there already is left by an      *)
(* update that was interrupted, and counts as a change.                    *)
StartStateUpdate(p) ==
    /\ Locked(p, "refresh", "refresh")
    /\ dir' = [dir EXCEPT !.flag = TRUE]
    /\ mem' = [mem EXCEPT ![p] = [ver |-> mem[p].ver, icat |-> mem[p].icat,
                                  updated |-> dir.flag, origins |-> FALSE]]
    /\ UNCHANGED <<version, salvaged, avail, pub, manifests, files, tmp, history>>

(* Publisher.refresh(): the catalog of an origin has changed, to ks all    *)
(* together.  The catalog of a publisher with one origin consists of links *)
(* to that origin's files.                                                 *)
RefreshOrigin(p, ks) ==
    /\ pc[p] = "refresh" /\ ~mem[p].origins /\ ks # avail
    /\ avail' = ks
    /\ pub' = IF SingleOrigin THEN ks ELSE pub
    /\ mem' = [mem EXCEPT ![p].origins = TRUE]
    /\ UNCHANGED <<version, dir, salvaged, manifests, files, lock, pc, task, tmp, history>>

(* The publisher's catalog is made anew from those of the origins, and     *)
(* whether one of them changed is returned.                                *)
RefreshPublisher(p) ==
    /\ pc[p] = "refresh"
    /\ pub' = avail
    /\ mem' = [mem EXCEPT ![p].updated = @ \/ mem[p].origins]
    /\ Goto(p, "decide")
    /\ UNCHANGED <<version, dir, salvaged, avail, manifests, files, tmp, history>>

(* Publisher.refresh() raises: what changed before is not returned.        *)
RefreshFails(p) ==
    /\ pc[p] = "refresh"
    /\ mem[p].origins => PartialFailures
    /\ Goto(p, "decide")
    /\ UNCHANGED <<disk, mem, tmp, history>>

EndStateUpdate(p) ==
    /\ pc[p] = "decide" /\ ~mem[p].updated
    /\ dir' = [dir EXCEPT !.flag = FALSE]
    /\ Exit(p)
    /\ UNCHANGED <<version, salvaged, avail, pub, manifests, files, history>>

NeedsRebuild(p) ==
    /\ pc[p] = "decide" /\ mem[p].updated
    /\ Goto(p, "build")
    /\ UNCHANGED <<disk, mem, tmp, history>>

(* __rebuild_image_catalogs(): the flag is not copied to the new directory *)
RebuildImageCatalogs(p) ==
    /\ pc[p] = "build"
    /\ LET new == Rebuilt(mem[p].icat, dir.frozen)
       IN  tmp' = [tmp EXCEPT ![p] =
                       [dir EXCEPT !.json = IF mem[p].ver = 4 THEN new ELSE NoRows,
                                   !.db = new, !.fresh = TRUE, !.flag = FALSE]]
    /\ Goto(p, "save")
    /\ UNCHANGED <<disk, mem, history>>

(* freeze_pkgs(), unfreeze_pkgs(): the file is saved, then the catalogs    *)
(* are rebuilt.                                                            *)
Freeze(p, k) ==
    /\ Locked(p, "freeze", "build")
    /\ dir' = [dir EXCEPT !.frozen = IF k \in @ THEN @ \ {k} ELSE @ \cup {k}]
    /\ UNCHANGED <<version, salvaged, avail, pub, manifests, files, mem, tmp, history>>

(* remove_publisher(): the metadata is removed but for the manifests of    *)
(* installed packages, then the catalogs are rebuilt.                      *)
RemovePublisher(p) ==
    /\ pub # {}
    /\ Locked(p, "unset", "build")
    /\ avail' = {} /\ pub' = {}
    /\ manifests' = manifests \cap mem[p].icat.inst
    /\ UNCHANGED <<version, dir, salvaged, files, mem, tmp, history>>

-----------------------------------------------------------------------------
(* flag_pkgs(): the mark of a manual installation is set or cleared.       *)
FlagPkgs(p, k) ==
    /\ Locked(p, "flag", "save")
    /\ LET s == Store(mem[p].ver, dir)
           toggle(st) == IF "manual" \in st THEN st \ {"manual"} ELSE st \cup {"manual"}
       IN  /\ k \in DOMAIN s.rows /\ "installed" \in s.rows[k]
           /\ CatalogSave(p, [s EXCEPT !.rows[k] = toggle(@), !.inst = mem[p].icat.inst], {k})
    /\ UNCHANGED <<disk, mem, history>>

AvoidPkgs(p, k) ==
    /\ pc[p] = "ready" /\ lock = None /\ ~cut
    /\ k \notin mem[p].icat.inst
    /\ dir' = [dir EXCEPT !.avoid = mem[p].avoid \cup {k}]
    /\ Exit(p)
    /\ UNCHANGED <<version, salvaged, avail, pub, manifests, files, history>>

UnavoidPkgs(p, k) ==
    /\ pc[p] = "ready" /\ lock = None /\ ~cut
    /\ k \in mem[p].avoid
    /\ dir' = [dir EXCEPT !.avoid = mem[p].avoid \ {k}]
    /\ Exit(p)
    /\ UNCHANGED <<version, salvaged, avail, pub, manifests, files, history>>

-----------------------------------------------------------------------------
(* A plan installs add, removes rem, or replaces rem by add.  The catalogs *)
(* are loaded anew, the manifest of add is retrieved, and the avoid set    *)
(* that will be saved is that of the process without the packages asked    *)
(* for.  The lock is then given up.                                        *)
MakePlan(p, add, rem, manual) ==
    /\ pc[p] = "ready" /\ lock = None /\ ~cut
    /\ LET s == Store(mem[p].ver, dir)
       IN  /\ add # rem
           /\ add # None => add \in DOMAIN s.rows \ s.inst
           /\ rem # None => rem \in s.inst
           /\ manual => add # None
    /\ manifests' = manifests \cup ({add} \ {None})
    /\ mem' = [mem EXCEPT ![p] = [ver |-> mem[p].ver, valid |-> TRUE, add |-> add,
                                  rem |-> rem, manual |-> manual,
                                  avoid |-> mem[p].avoid \ {add}]]
    /\ pc' = [pc EXCEPT ![p] = "planned"]
    /\ UNCHANGED <<version, dir, salvaged, avail, pub, files, lock, task, tmp, history>>

(* execute(): a plan made from other catalogs is refused.                  *)
Execute(p) ==
    /\ pc[p] = "planned" /\ lock = None /\ ~cut
    /\ Undisturbed
    /\ IF mem[p].valid
       THEN /\ lock' = p
            /\ pc' = [pc EXCEPT ![p] = "execute"]
            /\ task' = [task EXCEPT ![p] = "execute"]
            /\ UNCHANGED <<mem, tmp>>
       ELSE Exit(p)
    /\ UNCHANGED <<disk, history>>

(* The files are removed, installed and updated.                           *)
ExecuteActions(p) ==
    /\ pc[p] = "execute"
    /\ files' = (files \ {mem[p].rem}) \cup ({mem[p].add} \ {None})
    /\ Goto(p, "state")
    /\ UNCHANGED <<version, dir, salvaged, avail, pub, manifests, mem, tmp, history>>

(* update_pkg_installed_state(): the manifest of a removed package goes    *)
(* before the catalogs are saved.                                          *)
UpdatePkgInstalledState(p) ==
    /\ pc[p] = "state"
    /\ manifests' = manifests \ {mem[p].rem}
    /\ CatalogSave(p, Installed(Store(mem[p].ver, dir), mem[p].add, mem[p].rem, mem[p].manual),
                   {mem[p].add, mem[p].rem} \ {None})
    /\ Goto(p, "save")
    /\ UNCHANGED <<version, dir, salvaged, avail, pub, files, mem, history>>

AvoidSetSave(p) ==
    /\ pc[p] = "avoid"
    /\ dir' = [dir EXCEPT !.avoid = mem[p].avoid]
    /\ Exit(p)
    /\ UNCHANGED <<version, salvaged, avail, pub, manifests, files, history>>

-----------------------------------------------------------------------------
(* __upgrade_state_db(): the JSON catalogs are replaced by a database made *)
(* from them, then the new format is written to the configuration.         *)
UpgradeStateDb(p) ==
    /\ Locked(p, "upgrade", "save")
    /\ mem[p].ver = 4
    /\ tmp' = [tmp EXCEPT ![p] = [dir EXCEPT !.json = NoRows, !.db = dir.json, !.fresh = TRUE]]
    /\ UNCHANGED <<disk, mem, history>>

SetVersion(p) ==
    /\ pc[p] = "config"
    /\ version' = 5
    /\ Exit(p)
    /\ UNCHANGED <<dir, salvaged, avail, pub, manifests, files, history>>

(* A process dies.                                                         *)
Crash(p) ==
    /\ pc[p] # "none" /\ crashes < MaxCrashes
    /\ crashes' = crashes + 1
    /\ lock' = IF lock = p THEN None ELSE lock
    /\ pc' = [pc EXCEPT ![p] = "none"] /\ task' = [task EXCEPT ![p] = "none"]
    /\ mem' = [mem EXCEPT ![p] = NoMem] /\ tmp' = [tmp EXCEPT ![p] = Gone]
    /\ cut' = (cut \/ pc[p] \in {"swap", "config"} \/ task[p] \in {"freeze", "unset"})
    /\ torn' = (torn \/ (task[p] = "execute" /\ pc[p] # "avoid"))
    /\ UNCHANGED disk

Next ==
    \/ \E p \in Proc :
        \/ Start(p) \/ Leave(p) \/ Salvage(p) \/ SwapIn(p)
        \/ StartStateUpdate(p) \/ RefreshPublisher(p) \/ RefreshFails(p)
        \/ EndStateUpdate(p) \/ NeedsRebuild(p) \/ RebuildImageCatalogs(p)
        \/ RemovePublisher(p) \/ Execute(p) \/ ExecuteActions(p)
        \/ UpdatePkgInstalledState(p) \/ AvoidSetSave(p)
        \/ UpgradeStateDb(p) \/ SetVersion(p) \/ Crash(p)
        \/ \E ks \in SUBSET Pkg : RefreshOrigin(p, ks)
        \/ \E k \in Freezable : Freeze(p, k)
        \/ \E k \in Pkg : FlagPkgs(p, k)
        \/ \E k \in Avoidable : AvoidPkgs(p, k) \/ UnavoidPkgs(p, k)
        \/ \E add, rem \in Pkg \cup {None}, manual \in BOOLEAN :
               MakePlan(p, add, rem, manual)

Spec == Init /\ [][Next]_vars

-----------------------------------------------------------------------------
AtRest == lock = None /\ ~cut
Catalogs == Store(version, dir)
Having(s, st) == {k \in DOMAIN s.rows : st \in s.rows[k]}

(* When no operation is under way, the packages that the image lists as    *)
(* available are those of the publisher's catalog and the frozen ones are  *)
(* marked, or the flag of an interrupted update makes the next refresh     *)
(* rebuild the catalogs, even if changes were found and the process died   *)
(* before it recorded them.                                                *)
KnownIsCurrentOrFlagged ==
    AtRest => \/ dir.flag
              \/ /\ Having(Catalogs, "known") = pub
                 /\ Having(Catalogs, "frozen") = DOMAIN Catalogs.rows \cap dir.frozen

(* When no operation is under way and none died while it changed files,    *)
(* the packages recorded as installed, in either catalog, are those whose  *)
(* files are in place, and their manifests are there: refreshes, freezing, *)
(* removal of a publisher, upgrades and stale plans do not change that.    *)
RecordMatchesFiles ==
    AtRest /\ ~torn =>
        /\ Catalogs.inst = files
        /\ Having(Catalogs, "installed") = files
        /\ files \subseteq manifests

(* A database that a client of a version 4 image would take as current     *)
(* says what the JSON catalogs say.                                        *)
MirrorAgrees == AtRest /\ version = 4 /\ dir.fresh => dir.db = dir.json

(* A package that was installed manually keeps its mark as long as it is   *)
(* installed, and an update hands it on, unless the mark is cleared on     *)
(* request: no rebuild loses it.                                           *)
ManualIsKept ==
    [][\A p \in Proc :
         SwapIn(p) /\ task[p] # "flag" =>
            LET old == Store(mem[p].ver, salvaged)
                new == IF task[p] = "upgrade" THEN dir'.db ELSE Store(mem[p].ver, dir')
            IN  \A k \in Having(old, "manual") :
                   \/ k \in Having(new, "manual")
                   \/ task[p] = "execute" /\ mem[p].rem = k /\
                      (mem[p].add # None => mem[p].add \in Having(new, "manual"))]_vars

===============================================================================
