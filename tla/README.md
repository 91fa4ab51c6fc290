# pkg5 in TLA+

TLA+ models of the image packaging system (pkg5, IPS): how packages are published into a
repository and searched there, how clients follow a repository's catalog and retrieve files,
how an image is locked and keeps its state, how the client API plans, prepares, executes and
cancels operations on it, and how an operation is carried through boot environments and linked
images.  Each model is written from the source under `src/src/modules` (`PROJECT.json`, "map",
gives the lines of every definition), checked by TLC on small instances and, for the safety
properties of eight of the ten components, proved with TLAPS for every instance.

Contents: [inventory](#inventory), [plan](#plan), [modules](#modules),
[runs](#runs), [theorems](#theorems), [what the checks do not show](#limits).

## Inventory

### The system

A *repository* holds, per publisher, manifests, payload files, a catalog with update logs and
a search index.  It is written by the depot server (`pkg.depotd`, many threads), and directly,
as a file repository, by `pkgsend` and `pkgrepo`.  A *client* keeps an *image*: a root file
system, the state of its packages, its configuration, and a copy of the catalog of each of its
publishers.  A program uses an image through one `ImageInterface` object, possibly from
several threads; other processes use the same image.

| Part | State | Operations | Talks to | Hard because |
|---|---|---|---|---|
| Lock files (`lockfile.py`, `nrlock.py`) | record lock and text of a file, `_fileobj`, a thread lock | `lock`, `unlock` | image, repository store, indexer, password files | record locks belong to processes and vanish when any descriptor closes; errors and crashes between the steps |
| Publication transaction (`server/transaction.py`) | a directory, the object that caches what is in it | open, append, `add_content`, `add_file`, `add_manifest`, close, abandon, `reopen` | store | the object is rebuilt from the directory after a restart |
| Repository store (`server/repository.py`) | catalog, manifests, files, transactions, one catalog object per process | publish, remove, refresh, rebuild | transactions, lock file, catalog | several processes and threads, a catalog replaced by two renames, crashes |
| Catalog (`catalog.py`) | attributes, parts, update logs, with times and signatures | add, remove, save, `get_updates_needed`, `apply_updates`, `validate` | store; publisher refresh | several files with one meaning; times cut to seconds |
| Publisher refresh (`client/publisher.py`, `transport.py`) | the client's copy, what was retrieved so far | `refresh` and its retry | transport, catalog | the server changes between two retrievals, caches, failures |
| Client API (`client/api.py`) | activity lock, cancel flags and condition, plan flags | `gen_plan_*`, `load_plan`, `prepare`, `execute_plan`, `refresh`, `reset`, `cancel` | image, image plan, linked images | threads, generators that keep locks across a yield, cancellation |
| Image plan (`client/imageplan.py`, `plandesc.py`, `pkgplan.py`) | state of the plan, actions to run | evaluate, `preexecute`, `execute` | image, transport, boot environments | long, fails half way, the image changes under it |
| Image (`client/image.py`, `imagecatalog.py`) | state directory, avoid and freeze sets, configuration, last modified time | lock, save state, avoid, freeze | all of the client | replaced by renames; cached sets written back |
| Boot environments (`bootenv.py`), history (`history.py`) | clone of the root; operations in progress | clone, restore, activate; log | client API | recovery paths that run only after failures |
| Linked images (`linkedimage/`, `pkgremote.py`, `pipeutils.py`) | parent, children, remote calls in three states | staged recursion, RPC over pipes | client API of children | parallel children, partial failure |
| Transport (`client/transport/`) | origins and mirrors with statistics, requests under way | retrieve lists of files, retry elsewhere | publishers, plans | partial success, giving up, retries |
| Search index (`indexer.py`, `search_storage.py`) | files with a common version | build, update, `consistent_open` | store, image | readers open file by file while they are replaced |
| File layouts (`file_layout/`) | files under two directory layouts | insert, lookup, remove | store, caches | moved while they are looked up |
| Depot (`server/depot.py`) | bounded queue of background tasks | put, run | store, indexer | failing tasks, full queue |
| Pure algorithms (versions, FMRIs, facets, variants, mediators, publisher ranking, solver trimming) | none | compare, match, select, rank | everywhere | corner cases |
| The rest (formats, CLI, package authoring tools, services, web, C helpers) | | | | sequential or pure I/O |

### What makes the parts correct

* A lock excludes threads and processes, is given back on every error path, and a crash frees it.
* What is published is a well-formed package; restarting the server does not change what may
  be published; what was answered `PUBLISHED` is not lost; what the catalog lists can be served.
* A client's copy of a catalog is one that the server had, it does not go back, and it catches up.
* A plan runs only on the image it was made for, once, and only when it was prepared; a
  cancellation ends the call it was aimed at and always wakes the canceler; locks are released
  on every way out.
* What an image records is what is there, and what it lists is current or known not to be,
  through every order of operations and processes that die.
* An operation in a clone is all or nothing; a rollback undoes only what failed; the history of
  an image tells the truth about it.
* Children follow their parent stage by stage, and a recursive operation ends.
* A list of files is retrieved completely or an error says so; retrievals end.
* A query answers for one build of the index, and a refresh indexes what the catalog lists.

`PROJECT.json`, "hazards", lists what is hard to test in this code, at the line where it
bites, with the property that would catch it, or with the reason why none does yet.

## Plan

Done, in this order: `LockFile`, `Transaction`, `RepoStore`, `CatalogSync`, `ClientApi`,
`DepotSearch`, `LinkedImages` with its abstract specification `StagedRecursion`, `ImageState`,
`PlanExecution`, `Transport`.  The modules do not share variables: where one relies on another
it uses the other's promise (a lock with one owner, an operation of an image that ends in one
of a few ways, a retrieval that succeeds or fails).

Worth doing next, in this order:

1. Abstract specifications: a lock with one owner, refined by `LockFile`; a store whose readers
   see a growing set of packages, refined by `RepoStore`.
2. File layouts: lookup and insert while files move, refining the set of files of `RepoStore`.
3. One module of pure operators per family (version order, facets and variants, mediators,
   publisher ranking), checked against reference definitions.

Runs are kept few: configurations are folded into one run by a variable that never changes
(`use` in `LockFile`, `blocking` in `ClientApi`, `part` in `MCPublishing`) or by nondeterministic
choice in `Init`.

## Modules

In every module the comment at the head says what a step is, CONSTANTS bound the instance and
switch behaviours of the environment on, and operators named `Mut...` are plausible bugs,
used to show that each property can fail.

### LockFile, MCLockFile (proofs in TransactionProofs)

`lock()` and `unlock()` step by step (acquire the NRLock, open, lockf, write, truncate,
`LOCK_UN`, close), for threads of several processes, with the errors of each system call and
crashes.  `use` chooses how pkg5 uses the class: `LockFile(provide_mutex=True)` (indexer,
password files), the wrapper of the repository store and `Image.lock`, each with the blocking
modes and errors that occur there.  The kernel is modelled from its use: one record lock per
process, dropped when any descriptor of the process on the file is closed or the process dies.

### Transaction, MCPublishing, TransactionProofs

One transaction of one package on the server.  Actions are abstracted to what the checks tell
apart (`set`, `obsolete`, `renamed`, `file`, two dependency types, signatures with and without
a certificate chain).  `AddContent`, `AddManifest` and `AddFile` keep the order of writing and
checking; `Checked` is the loop of `add_manifest()` over the actions of a manifest; `Restart`
drops the object and `Reopened` is what `reopen()` rebuilds; `Close` distinguishes publication
from appending signatures.  `AppendUploads` are the manifests that
clients upload into an append transaction.

### RepoStore, MCRepoStore, RepoStoreProofs

The store of one publisher: disk (catalog, manifests, files, transaction directories), the
catalog object of each process, and the repository lock by its promise (one owner; what
`LockFile` shows).  Publication is cut into the manifest, each file, the catalog's two renames
and the removal of the transaction; removal into analysis, manifests and files; refresh and
rebuild scan the manifests.  `Crashes` kills a process at any step.  `Exclusive` says that
processes use a file repository one after the other, `QuietRemoves` that nothing is published
during a removal.  `acked`, `listed` and `due` are history variables.

### CatalogSync, MCPublishing (proofs in TransportProofs)

Server: the saved catalogs in order (`hist`), each with attributes, two parts and the update
logs that its times imply.  Client: `Publisher.refresh` with attributes first, then parts or
logs, then `apply_updates` and validation, and a second attempt in another way after a failure.
A cache may answer any retrieval with an older file.  Signatures determine contents, so
comparing signatures is comparing contents.  Time is a bounded clock with seconds and hours.

### ClientApi, MCClientApi, ClientApiProofs

One `ImageInterface` object, its threads, and one other process that locks and changes the
image.  `activity` and `image` are the two locks, `cancelable` and `canceling` the flags under
`__cancel_lock`, `api` the flags of the plan life cycle and `plan` the `ImagePlan` with its
state, whether the image still has the last modified time the plan was made with (`fresh`),
whether its content was downloaded and whether it ran.  `Call` takes the activity lock, `Lock`
the image lock; from there each call has an action per way out.  A plan generator gives up
the activity lock at its first yield (`yielded`), takes it back (`Resume`), plans the children
and returns, or is dropped by its caller (`Abandon`).  `op` is the call of whoever has the
activity lock.  Calls that fail to get the activity lock change nothing and are stutters.

### DepotSearch, MCDepotSearch, DepotSearchProofs

The search index of a depot: its files on disk, each the file of some build; the two programs
that work on them; the queue of background tasks with its count (`Put`, `Get`); and the threads
that answer queries, which open the files one by one (`consistent_open`), examine them, compare
version numbers, and read into a cache that all threads share (`gdd`, `glock`).  An indexer first
looks, without any lock of the index, which packages are missing (`Check`).  If there are none it
seeds an absent index with stubs, one by one and again without the lock (`Setup`, `Stub`);
otherwise it takes the index lock (`Lock`), writes the new files to TMP from what it reads then
and the list it made before (`Write`), and moves them one after the other (`Move`).  A purge
takes the lock and gives it up (`Purge`), renames the directory away with TMP and the lock file
in it (`Rename`), so that an indexer that has the lock has it no longer, and removes it
(`Rmtree`).  `dirs` and `tmp` say which of the directories are there, and what is in TMP: a
step that does not find them raises an error.  An indexer or the depot may be killed (`Dies`,
`Restart`).  History variables: `cut`, an indexer died between two files; `straddled`, the index
was purged while a query opened it; `raced`, two indexers worked on the files at once, through
the gap between lock and rename of a purge or through the unlocked `setup()`; and `lost` of a
task, that pkgrepo purged the index after the task had looked what is missing.

### LinkedImages, StagedRecursion, MCLinkedImages, LinkedImagesProofs

An operation on a parent image that recurses into its children.  The parent is
`__children_op_vec()` step by step: set up all children, start as many as `Concurrency` allows,
sweep the finished ones, poll.  Each child has a process, the thread that calls it, the thread
that waits for the call and writes a byte to the progress pipe, and the pipe.  Processes fail or
die at any step.  `StagedRecursion` is the abstract specification: the stages in order, a child
done with a stage before any begins the next, images of children changed only after the
parent's.  It maps `members` to the children with a handle, `done` to those whose result is
known and did not fail, `changed` to those whose image is no longer the old one.

### ImageState, MCImageState, ImageStateProofs

What an image records: the state directory with the catalogs of known and installed packages,
in both formats (JSON with a database beside it, or the database alone), the flag of an update
under way, frozen and avoided packages, manifests and the files of packages.  Processes start
(and load what the code loads then), plan without the lock, take the lock and refresh, rebuild,
execute, flag, freeze, avoid, remove a publisher or upgrade the format, each writing the new
directory, moving the old one away (`Salvage`) and renaming the new one into place (`SwapIn`);
any of them may die at any step.  `cut` marks a death between the two renames.

### PlanExecution, MCPlanExecution, PlanExecutionProofs

`execute_plan()` around boot environments.  `be` is the image in every boot environment: the
operations done in it, those half done, and its history.  A client plans for the running system
or for an alternate root, locks the image, takes a snapshot, makes a backup or a clone (to which
the lock moves with the image's root), executes, fails at any stage and restores, or goes on to
the children, activates the clone and records the end.  Clients die and the machine reboots into
the active boot environment.  libbe is modelled from its use: `Copied` makes a boot environment
of an image, and every call may fail.  `Faults` names three failures that the code only logs;
the run excludes them (see [Limits](#limits)).

### Transport, MCPublishing, TransportProofs

`_get_files()` and `_get_files_list()` over `CurlTransportEngine`.  A chunk of files is asked of
one repository after the other, round after round, each time with the files still missing; the
engine starts queued requests on free handles and collects those that have ended, good, with
wrong content, to be retried, or raised at once; it counts errors in a row and gives a
repository up.  libcurl is external: which requests end, and how, is any choice.  After a
permanent error the caller goes on with the next publisher, as `refresh_publishers()` does, with
what the retrieval that raised it left in the engine; after a cancellation the engine is reset.

## Runs

| Run | Shows | Instance |
|---|---|---|
| `lock_threads` | Threads of a process exclude each other in every use; processes do in the safe uses (one thread per process, or the caller's thread lock around blocking calls); `lock()` calls of the store end, so that no error path keeps the thread lock. | two processes, two threads in one of them, four uses, all errors, crashes |
| `publishing`, part `transaction` | What is published obeys the rules of obsolete and renamed packages; restarts lose no mark; signatures are appended with their certificates unless the server restarted. | every order of up to five actions, five manifests, two certificates, restarts, refusals |
| `publishing`, part `catalog` | The packages installed are those of one saved catalog; no going back; the client catches up when the server is quiet. | two packages, a clock of five ticks, removals, restarts, rebuilds, caches, failures |
| `publishing`, part `transport` | A list that returns is complete and retrievals end, also after an error that left requests in the engine. | two publishers, three repositories, two files, two requests at a time, two rounds |
| `repo_store` | What was answered `PUBLISHED` keeps its manifest and files; refresh restores the catalog, whatever crashes and stale catalog objects did to it. | two processes at once, crashes, removals, refresh and rebuild; two packages that share a file |
| `repo_parallel` (violation) | Of two processes that publish at once the one that opened its transaction first drops the other's package from the catalog. | two processes, two packages, nobody dies |
| `api_calls` | Cancellation always has an owner that ends it; locks are released; a canceled call does not succeed; plans run on their image, prepared, and never in an image that has their actions already; calls return. | three threads (a planner, a canceler and a third caller), one other process, both kinds of locking |
| `depot_search` | A query searches files of one build; the index is whole when nobody works on it; a refresh indexes what was in the catalog, unless the index was purged under it. | a query, the depot's background thread and pkgrepo that refresh and rebuild, two builds, kills |
| `depot_search_ends` | Every search ends, although the index is purged and killed indexers leave files that never agree. | a query, the depot's refreshes and rebuilds, two packages, three builds, restarts |
| `depot_purged` (violation) | A refresh ends as done with a package missing in the index that was in the catalog when it began. | the depot's background thread and pkgrepo, no query |
| `li_recurse` | The recursion implements `StagedRecursion`; when it succeeds every child was changed and no process is left; no wakeup is lost, so that it ends. | three children, two at a time, failures and deaths |
| `image_operations` | The list of available packages is current or flagged; what is recorded as installed is there; database and JSON agree; manual marks survive. | two processes, two packages, both formats, two deaths |
| `image_refresh_lost` (violation) | With several origins, a refresh that fails half way forgets that an origin changed, and the next one does not list its packages. | as above |
| `plan_execution` | New boot environments are all or nothing; copies are of quiet images; a rollback takes away nothing of others; ends are recorded, truly; what is said to be unchanged is. | three clients, five boot environments, failures everywhere, deaths, reboots |

Bounds.  The properties relate at most two packages, two files, two or three threads and two
processes; a third actor matters where one sleeps while two others act (`ClientApi`), where
threads of one process meet another process (`LockFile`), where one child waits while two run
(`LinkedImages`) and where a clone, its original and a third client's copy meet
(`PlanExecution`; `MaxBe` leaves room for every client to make one boot environment).  Five
actions are enough for a flag set, a refusal, a restart and a contradiction.  `MaxTime` gives
two hours of two seconds, so that an update log is complete, partial and missing.  Two builds of
the index are an old and a new one, or the stubs and what replaces them; a purge starts the
versions anew.  The liveness run of `DepotSearch` is without pkgrepo and has a second package
and a third build instead: what ends a search depends on the files and not on the process that
writes them, and the depot purges and dies as well.  `RepoStore` has one thread in each of two
processes, the case in which each has a catalog object of its own; the theorems are about any
number of threads.  `MaxCrashes` of two lets a process die while it repairs what another's death
left.  Two tries and two errors in a row are the smallest numbers for which a repository is
asked again, and given up with requests under way.  `ClientApi` needs no bound: its state space
is finite.

Deadlock is not checked where the system really may stop: in `ClientApi` a thread that is
refused a boot environment name keeps both locks, and threads with blocking locks can wait for
each other; in `DepotSearch`, `LinkedImages`, `ImageState` and `PlanExecution` the work of the
instance comes to an end.  In `publishing` it is checked: the client of `Transport` may stop only
when it has been through all publishers.

Fairness.  `LockFile`: threads in a call run on, holders unlock, and neither the NRLock nor
the kernel starves a blocked caller (strong fairness on acquiring), as their blocking calls
promise when holders let go.  `CatalogSync`: someone refreshes again and again and a retrieval
ends, by its timeout at the latest.  `ClientApi`: a call under way takes its next step; callers
need not call, resume generators or release another process's lock, and no fairness of the
activity lock is assumed.  `DepotSearch`: a query under way goes on, and the timeout of
`consistent_open()` comes if it is retried again and again (strong fairness of giving up).
`LinkedImages`: the parent and each process and thread take their next step.  `Transport`: the
client runs on, and requests end, by libcurl's timeouts or the check for stalls.  The other
modules state safety only.

## Theorems

Proved by TLAPS for every value of the constants, from the assumptions named in the modules:

* `LockTyping` of `TransactionProofs`, and `Typing` of `RepoStoreProofs`, `ClientApiProofs`, `LinkedImagesProofs` and
  `PlanExecutionProofs`: the type invariants.  (In the other modules the types are a part of the
  inductive invariant.)
* `TransactionProofs!ThreadsExcludeEachOther`: `ThreadExclusion` of `LockFile` in every use (the
  module also has the proofs about the lock under which what a transaction holds is added to
  the store; the specifications do not share variables).  Inductive invariant: `TypeOK` and `OwnsMutex`, which says of every place in the code whether its thread
  owns the NRLock.
* `TransactionProofs!LockFileExcludes`: `SafeExclusion`.  Exclusion is not inductive: one must
  know that the thread that holds the lock is the one whose descriptor `_fileobj` is
  (`FileobjIsUsed`), that no other descriptor of its process is open that a close could drop
  the record lock with (`NoFailedCall`), and that the record lock stays (`LockIsKept`).
* `RepoStoreProofs!PublishedIsDurable`: if packages are removed only while no transaction is
  open, `AckedIsDurable` holds through crashes and with any number of processes and threads.
  The inductive invariant `DurableInv` follows a file from the transaction directory into the
  store (`PayloadIsKept`, `CloseIsSound`, `ClosesApart`) and bounds what a removal can delete
  (`RemoveSpares`).  The assumption is needed: see [Limits](#limits).
* `RepoStoreProofs!CatalogServes`: `CatalogIsServable` in a repository whose processes run one at
  a time (`Exclusive`), in which nothing is published during a removal and no process refreshes or
  rebuilds (`~Repairs`).  No run checks it: `repo_store` has several processes and repairs, with
  which it is false.  What is served depends on what will be saved, so
  `CatalogInv` speaks of the catalog objects: a process that is up is alone (`OneProcess`), its
  object is the catalog on disk but for the package it is adding (`MemIsCatalog`), what it holds
  can be served (`MemIsServable`), and what a removal dooms is no longer in the catalog
  (`RemoveSparesCatalog`).
* `RepoStoreProofs!RefreshRepairs`: `RefreshRestores`, with any number of processes at once and
  stale objects.  `RefreshInv` says that the thread past the lock owns it and that what was
  answered before the refresh began is in the object it is going to save.
* `TransactionProofs`: `RestartCorrect`, `PublishedCorrect` and `ChainCorrect` prove the three
  properties of the transaction for any uploads, manifests, orders of calls and restarts.  The hypotheses
  are those of the publication tools: a client abandons a transaction after an error
  (`StopOnError`), uploads nothing but signatures into an append transaction (`SignsOnly`, for
  `PublishedCorrect`; the server does not enforce it), and announces the
  certificates of a signature by adding it, not by a manifest (`ChainsAreAdded`, for
  `ChainCorrect`); [Limits](#limits) says what happens otherwise.  The invariant `ObjInv` says that the object's flags are those of the manifest
  (`Matches`) and obey the rules (`Sound`), and that what `reopen()` would find does so too;
  `AppendInv` that an appending transaction holds the package and signatures after it; `ChainInv`
  that the missing certificates are still counted.  That `Checked`, the loop over a manifest of
  any length, keeps this is an induction over the manifest: the rule of the library takes an
  operator and cannot be used, so `TraceExists` and `CheckedKeeps` argue by the least position
  at which the claim would fail (`Least`, from the well-foundedness of the natural numbers).
* `ClientApiProofs`: `CallsReleaseTheirLocks`, `PlansRunOnTheirImage`, `PlansRunOnce`,
  `CancelIsOwned` and `CanceledCallsStop` prove `LocksReleased`, `PlanRunsOnItsImage`,
  `RunsAtMostOnce`, `CancelHasAnOwner` and `CancelStopsTheCall` for any set of threads, from
  `OwnersApart` (the other process and "nobody" are no threads).  The invariant `IInv` has three
  parts that need each other: the types (a plan in preparation or execution exists), `PlanInv`
  (what a plan's state says of its content and its image; a plan that counts as prepared and whose
  actions are in the image is out of date: a failure after the image's state was saved leaves
  such a plan, unless the image was restored, and then its actions are not in the image) and `LocksInv` (the owner of each lock is a thread whose code holds
  it, or one that left it behind and can take no step that relies on it).
* `LinkedImagesProofs!SuccessIsComplete`: `DoneIsComplete` for any finite set of children and
  any concurrency.  Its invariant says, of every place of the parent's loop, which children are
  set up, running and finished, what the state of a remote call implies for its process and
  threads, and that an image is new only after a call of the last stage returned.
* `LinkedImagesProofs!StagedRefinement`: the recursion implements `StagedRecursion`.  From the
  same invariant, every step of a child maps to `Touch` or a stutter, every step of the parent to
  `Finish`, `Advance`, `Commit`, `Fail` or a stutter (`MappedChild`, `MappedFinish`,
  `MappedParent`).
* `ImageStateProofs`: `RecordCorrect`, `MirrorCorrect`, `ManualCorrect` and `KnownCorrect` prove
  `RecordMatchesFiles`, `MirrorAgrees`, `ManualIsKept` and `KnownIsCurrentOrFlagged` for any
  packages, processes and deaths, if nothing changes between a process's start and its lock
  (`Exclusive`); the last one for a publisher with one origin whose refresh does not fail half
  way, and without that it is false (the finding).  The properties speak of an image at rest; the
  invariant `IInv` says what is true at every step of the operation under way (`here`, `doing`):
  who may work (`LockInv`), where the state directory is (`DirInv`), that what a process loaded or
  planned fits the catalogs, or is out of date (`MemInv`), that the directory it prepares is good
  and has the marks of the old one (`CatalogInv`), and that the new record is true of the files
  and the manifests (`FilesInv`); `KnownInv` adds where the flag is up.  `RebuiltFacts`,
  `InstalledFacts` and `ToggledFacts` say what the three ways of making a catalog do to one, and
  that bringing up to date only the changed packages gives all of it.
* `PlanExecutionProofs`: `NewBeCorrect`, `CopiesCorrect`, `CompletedCorrect`, `EndCorrect`,
  `RecordCorrect` and `RestoredCorrect` prove the six properties of the run for any clients, boot
  environments, failures, deaths and reboots.  The last three each exclude the one fault that the
  code only logs and that makes the property false (`"children"`, `"activate"`, `"rollback"`).
  What is in a boot environment depends on what snapshots may bring back and on who else can
  reach a clone, so the invariant has a part for the lock and the root (`ControlInv`: nobody but
  its maker knows a clone before it is active), one for the work (`WorkInv`: a half-done clone is
  out of reach, a snapshot has all that others completed), and one for the records (`RecordInv`:
  a snapshot has all that others recorded, an operation is open until its end is recorded).
* `TransportProofs!ListCorrect`: `ListIsComplete` for any publishers, repositories, files and
  limits, with whatever an earlier retrieval that raised an error left in the engine, if every
  repository may be asked twice (`MaxTries >= 2`; the code's default is four, and with one try
  an error of an old request can use it up).  The invariant says what the engine works on
  (`EngineInv`), and that what is missing will be asked for or is remembered as a failure
  (`ListInv`).
* `TransportProofs!ClientNeverGoesBack` and `RefreshInstallsSnapshot`: `NeverGoesBack` and
  `InstallsSnapshot` for any packages, times, caches, restarts, rebuilds and failures, at the end
  of the module of the transport that catalogs are retrieved through (`SyncSpec` is the
  specification of `CatalogSync`).  The invariant `SyncInv` says of every catalog the server saved that each change
  was one of its base part, so that the last-modified time of that part is the catalog's own
  (`SavedInv`), and that a later save has a later time (`SavesInv`); of the client that its copy
  goes with attributes that the server saved, and that those a refresh goes on with are newer, or
  not older and every part is retrieved (`RefreshInv`).  What the replay of an update log gives
  does not matter: `apply_updates` compares the base part with the new attributes in any case.  `RefreshInstallsSnapshot` supposes
  `NeverEmpty`, as the run does: a client whose copy is of an empty repository has no base part,
  and one that appears later is not in memory when `apply_updates` compares (see
  [Limits](#limits)).
* `DepotSearchProofs`: `SearchCorrect`, `WholeCorrect` and `RefreshCorrect` prove
  `SearchIsCoherent`, `WholeAtRest` and `RefreshIndexes` for any number of searching threads, any
  packages and any order of publications, refreshes, rebuilds, purges and deaths.  Two indexers
  that race through the gap of a purge can break anything, so the invariant has two halves: the
  types, the ranges and the owner of the cache's lock always hold, and as long as nobody raced so
  does `Unraced`.  It begins with `Alone` (at most one indexer works on the files, and one past
  `Lock` has the index lock).  What a step does to the files is one of five effects (`Quiet`,
  `StartMove`, `MoveOne`, `StopMove`, `Clear`), whichever action it is, and the rest of the
  argument is about these.  On disk (`DiskInv`) a file that is moved earlier is never older than
  one that is moved later, files of one version are of one build, and a build that was in the
  place of a file never comes back to it (`Seen`, `Past`).  Of the indexers (`IndexInv`): what a
  task is due is in the index or on the list it made, unless the index was purged since
  (`DueInv`, `LookInv`), a build under way has both (`BuiltInv`) and drops nothing that is listed
  (`GrowInv`), which for the empty stubs (`StubInv`) means that nothing is.  A query holds handles, not files: `Held` says of
  a build it has opened that, without a purge, its file only gets newer and its version number
  still means that build.  From this, equal versions of the handles make equal builds, and a file
  that `should_reread` finds unchanged is still the one in the cache (`QueryInv`), although the
  files were replaced between opening, examining and reading.

The invariants were model-checked before they were proved.  Every safety property of the passing
runs is proved; liveness (`LockReturns`, `Converges`, `EveryCallReturns`, `SearchEnds`,
`RecursionEnds`, `RetrievalEnds`) is only model-checked, as fairness is out of the prover's reach.

## Limits

The disagreements between the code and its own words that runs show (`repo_parallel`,
`depot_purged`, `image_refresh_lost`) are in `PROJECT.json`, "findings".  Others were met while
modelling; each is a behaviour of the model, as it is or once the constant or the condition named
here is changed, that no property of the runs speaks of, or is left out where that is said:

* `LockFile`: `Image.lock` keeps the thread lock when the lock file cannot be written for lack of
  space (`client/image.py:462`, whose comment at 471 says "If process lock fails, ensure thread
  lock is released."); `LockReturns` is about the store's wrapper.  A failed non-blocking
  `lock()` closes its descriptor, which drops a record lock another thread of the process holds
  (`lockfile.py:161`); with `provide_mutex`, `unlock()` clears `_fileobj` after releasing the
  mutex (196, 205); the owner's text is truncated after `LOCK_UN` (194).  `SafeUse` is where
  these cannot happen.
* `Transaction`: `reopen()` does not restore `remaining_payload_cnt`, so that a server restarted
  between add and close publishes a signature without its certificates, which `accept_append`
  (`transaction.py:841`) is there to refuse; `ChainIsCompleteUnlessRestarted` says so in its name.
  `add_manifest` writes before it checks (712), and it ignores that it may be appending (702),
  although the error of `add_content` says "Only a signature can be appended to an existing
  package" (113): with other manifests in `AppendUploads` a client appends any action to a
  published package.  The run uploads only signatures there, as `PublishedIsConsistent` needs,
  and nothing is claimed of what is appended.  A second signature resets the count of
  certificates still due (551-553).  `StopOnError` says that clients abandon a transaction that
  was refused something: without it what was written before the check is published.
* `RepoStore`: a removal deletes a file that an open transaction relies on, although the docstring
  of `remove_packages` says "No other modifying operations may be performed until complete."
  (`QuietRemoves = FALSE` violates `CatalogIsServable`); a refresh after a crash between a
  manifest and its files lists a package that cannot be served (`Repairs = TRUE` violates it as
  well).  What a stale catalog object does to the catalog is the finding of `repo_parallel`.
  Appending signatures to a published package (`replace_package`, `repository.py:1350`) is not
  modelled here: it writes the manifest anew and saves a new entry for the same package, so
  what is listed does not change.  A crash between the
  two renames of `__save_catalog` leaves no catalog, and the next publication saves one with its
  own package only (`repository.py:1136`); refresh repairs it.  Between a manifest's publication
  and its files', another process's refresh may list the package.
* `CatalogSync`: `apply_updates` compares only the parts in memory with the new attributes
  (`catalog.py:2397`, though 2380 says "all of the updated parts"), so that a dependency part of
  another version may be installed; `InstallsSnapshot` is about the packages.  A copy without
  any part is replaced by parts that are not validated; a replayed removal of an unknown package
  raises an exception that `refresh()` does not expect, so that the client stays behind until a
  full refresh (`Converges` allows for it); a client killed between renames is not modelled.
* `ClientApi`: a plan whose post-actuators or lookup database fail (`imageplan.py:5952`) ran, but
  stays in the state `PREEXECUTED_OK`, while `plandesc.py:393` calls `executed` "A boolean
  indicating if we attempted to execute this plan"; `RunsAtMostOnce` says that it does not run
  again in an image that has its actions.  A canceled `prepare()` leaves the plan in an error state or prepared, not in "the
  state it was in just after planning had completed" (`api.py:5427`).  `cancel()` returns before
  the canceled plan is reset (1260, 1298); `load_plan` keeps the plan when it is canceled, and
  keeps its flags when it fails; a refused boot environment name (718) and a generator dropped
  at a yield leave locks held (`leaked`); with blocking locks two planning threads can wait for
  each other (1712).  The last modified time is that of images of the current format, where every
  saved state moves it.  `reset()` is not called while another thread's generator waits.  A
  thread whose generator waits makes no other call in the model; those it may make (license
  status) touch nothing here.
* `DepotSearch`: two first searches at once can leave the lock of the cache taken for ever: one
  makes its entry without the lock, the other clears the cache, and the first raises `KeyError`
  between the lock and its `try` (`query_parser.py:1240`; the run has one thread that searches,
  and `SearchEnds` allows for a thread that died so).  A task that raises is never marked as
  done, and after ten of them the queue is full for good (`depot.py:2321`).  An indexer killed
  between two files leaves an index in pieces that refreshes do not repair (`cut`); a purge
  starts version numbers anew, so that a query that opened files before and after it may mix
  them (`straddled`).  Two indexers that race through the gap of a purge can leave any mixture of
  files (`raced`): `__purge_search_index()` gives up the lock (`repository.py:764`) and then
  renames the directory with the lock file in it, so that two indexers are past `lock()` where
  `indexer.py:750` says that the caller "should have locked the index already"; one that goes by
  a list made before a purge leaves packages out (`lost`, the finding of `depot_purged`).  A process that dies while it removes `index.old` leaves it, and
  later purges fail.  The files of TMP are written in one step, and so is each stub; `setup()`
  looks at all files in one step; the two offset files are one file, so that the second attempt
  of `set_info()` without fmri_offsets is a retry; descriptors that stay open when a file cannot
  be examined are left out.
* `LinkedImages`: when a started child fails, those that are set up and wait for their turn keep
  their process (`linkedimage/common.py:2286`, whose comment says "abort the remaining
  children"); `abort()` of a child whose result was known from the setup fails its own assertion
  (`pkgremote.py:531`).  `DoneIsComplete` is about operations that succeed.
* `ImageState`: the run has `PartialFailures = FALSE` and `SingleOrigin = TRUE`; what happens
  otherwise is the finding.  `Exclusive` says that nothing changes between a process's start,
  when the installed catalog, the format and the avoid set are loaded, and its lock: without it
  a stale catalog is written back and `RecordMatchesFiles` fails.  The avoid set that every
  executed plan writes back (`imageplan.py:5684`) may be older than the one on disk.  A death
  between moving the state directory away and renaming the new one (`image.py:2857`, 3779, 1392)
  leaves an image without one, which nothing repairs (`cut`); so does a death between the rename
  and `save_config` of the upgrade, which leaves a version 4 image without JSON catalogs.
  `sync_entries` does not ask whether the database it brings up to date was fresh, and stamps it
  as current (`imagecatalog.py:238`); in the run a database is always current when it is brought
  up to date, as everything that writes the JSON catalogs writes it too, so a stale one is not
  seen there.  Manifests are
  removed before the state that no longer needs them is saved.  A death in a refresh of several
  origins followed by a freeze, whose rebuild removes the flag, hides the change of an origin.
  A reader of a version 4 image during the window between the renames is not modelled.
* `PlanExecution`: with `"activate"` in `Faults`, a clone that cannot be activated is only logged
  and the success recorded in the original image, in which nothing was done (`bootenv.py:534`);
  with `"rollback"`, a failed rollback is logged and the user still told that "no changes have
  been made" (756); with `"children"`, a failure of `api_recurse_execute` (`api.py:3531`) leaves
  the parent changed, its snapshot in place and nothing recorded by this client.  Each breaks the
  property that says the opposite (`RecordIsTrue`, `RestoredIsClean`, `EndIsRecorded`).  After an
  exception in `activate_image` the handler's `e` is no longer bound (`bootenv.py:633`), so that
  another exception is raised than the one caught; the model has the failure either way.
  `__auto_be_name` (`api.py:795`) takes a snapshot that nobody destroys.  A record of a failed
  lock is written without the lock, and another client's rollback may take it away, which
  `EndIsRecorded` leaves out (`"locked"`).  While a clone is updated the original image is not
  locked, by design.
* `Transport`: a permanent error leaves the other requests in the engine, and
  `refresh_publishers()` goes on with the next publisher (`image.py:3898`) without the
  `reset()` that is to be called "before performing another type of request" (`engine.py:764`):
  in the model as in the code a late permanent error of such a request is raised in, and reported
  for, the retrieval of the next publisher (`GoOn`, then `Run`).  `ListIsComplete` and
  `RetrievalEnds` hold nevertheless.  If every repository is asked once only, an error of such a
  request also makes the engine give up without an error of the list's own, and the list counts
  as retrieved (`ListIsComplete` fails with `MaxTries = 1`).  `MaxTries = 0`, for which
  `__gen_repo` never stops asking, is excluded.

Abstractions common to all modules: names, contents and manifests are members of small sets; a
file is written as a whole or not at all where the code writes a temporary file and renames it;
logging, progress and statistics are left out.

### Not modelled

The components with status `not_modelled` in `PROJECT.json`, each with its reason.  The largest are
the command line tools, the solver's clause generation, manifests and the installation of
actions, dependency analysis and the other tools of package authors: sequential code that
transforms data or calls the file system, which has no state that two actors share and whose
size (most of the repository's 157 thousand lines) is in formats, options and messages.  The
modules cover the code in which processes, threads, deaths and retries meet; the share of the
repository's lines that they map is small for that reason and is not meant to be more.
