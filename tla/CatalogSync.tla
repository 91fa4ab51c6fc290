------------------------------ MODULE CatalogSync ------------------------------
(***************************************************************************)
(* How a client keeps its copy of a repository's catalog up to date:       *)
(* pkg.catalog.Catalog on both sides, Publisher.refresh on the client.     *)
(*                                                                         *)
(* The server's catalog is a set of files: catalog.attrs, the parts (base  *)
(* and dependency) and one update log per hour.  The client retrieves them *)
(* one by one, over HTTP and possibly through a cache, while the server    *)
(* changes them, and either replays the update logs or takes whole parts.  *)
(* What it got is checked against the signatures in catalog.attrs.  A      *)
(* signature determines the content, so the model compares contents.       *)
(*                                                                         *)
(* Time is counted in ticks; file modification times are cut to a second   *)
(* of PerSecond ticks and an update log covers an hour of PerHour ticks.   *)
(***************************************************************************)
EXTENDS Naturals, Sequences, FiniteSets, SequencesExt

CONSTANTS
    Pkg,            \* packages
    Deps,           \* the packages with entries in the dependency part
    PerSecond, PerHour,
    MaxTime,        \* bound on the clock: then the server is quiet
    NeverEmpty,     \* the repository always has a package
    Removals,       \* packages are removed from the repository
    ServerRestarts, \* the server restarts
    Rebuilds,       \* the catalog is rebuilt
    Caches,         \* a cache may answer with older files
    Failures        \* retrievals may fail

Part == {"base", "dep"}
Time == 0 .. MaxTime

ASSUME DepsAssumption == Deps \subseteq Pkg
ASSUME TimeAssumption ==
    /\ PerSecond \in Nat \ {0} /\ PerHour \in Nat \ {0} /\ MaxTime \in Nat
    /\ PerHour % PerSecond = 0

VARIABLES
    clock,
    hist,       \* the catalogs the server has saved, oldest first
    mem,        \* last_modified of the parts the server has in memory
    cli,        \* the client's copy: which attributes, and its parts
    rpc,        \* where Publisher.refresh is
    req,        \* the attempt that is under way
    tmp,        \* what it has retrieved
    status      \* how the last refresh ended

server == <<clock, hist, mem>>
syncvars == <<clock, hist, mem, cli, rpc, req, tmp, status>>

Second(t) == (t \div PerSecond) * PerSecond
Hour(t) == t \div PerHour      \* the name of an update log

(* The parts in which a package has an entry.                              *)
PartsOf(k) == IF k \in Deps THEN Part ELSE {"base"}

(* A catalog: creation and modification time, for every part its           *)
(* last-modified attribute and its content, and the update logs.           *)
Catalog(created, lm, plm, pkgs, logs) ==
    [created |-> created, lm |-> lm, plm |-> plm, pkgs |-> pkgs, logs |-> logs]

(* The parts made from a set of packages; a part without entries is not    *)
(* created.                                                                *)
PartsFor(ks) == {p \in Part : \E k \in ks : p \in PartsOf(k)}
Content(ks) ==
    [p \in PartsFor(ks) |-> {k \in ks : p \in PartsOf(k)}]

Latest == hist[Len(hist)]
LogTime(log) == log[Len(log)].time

NoRequest == [user |-> FALSE, second |-> FALSE, full |-> FALSE,
              revalidate |-> FALSE, parts |-> {}, logs |-> {}]
NoFiles == [at |-> 0, parts |-> <<>>, logs |-> <<>>]
NoCatalog == [at |-> 0, pkgs |-> <<>>]

FirstPackages == IF NeverEmpty THEN {CHOOSE k \in Pkg : k \notin Deps} ELSE {}

SyncInit ==
    /\ clock = 0
    /\ hist = <<Catalog(0, 0, [p \in PartsFor(FirstPackages) |-> 0],
                        Content(FirstPackages), <<>>)>>
    /\ mem = <<>>
    /\ cli = NoCatalog
    /\ rpc = "idle" /\ req = NoRequest /\ tmp = NoFiles /\ status = "none"

-----------------------------------------------------------------------------
(* The server.  Every change is saved at once.                             *)

(* get_part(): a part that is not in memory is made from its file, and its *)
(* last_modified from the file's modification time.                        *)
Load(ps) == [p \in (DOMAIN mem) \cup ps |->
                 IF p \in DOMAIN mem THEN mem[p] ELSE Second(Latest.plm[p])]

(* An operation at time t on the parts ps of package k: the parts in       *)
(* memory give the attributes, and the operation goes to the update log of *)
(* the hour.                                                               *)
Change(op, k, t, ps, loaded, pkgs) ==
    LET lms == [p \in (DOMAIN loaded) \cup ps |-> IF p \in ps THEN t ELSE loaded[p]]
        plm == [p \in DOMAIN Latest.plm \cup ps |->
                    IF p \in DOMAIN lms THEN lms[p] ELSE Latest.plm[p]]
        entry == [op |-> op, pkg |-> k, time |-> t, parts |-> ps]
        h == Hour(t)
        log == IF h \in DOMAIN Latest.logs THEN Latest.logs[h] ELSE <<>>
        logs == [i \in DOMAIN Latest.logs \cup {h} |->
                     IF i = h THEN Append(log, entry) ELSE Latest.logs[i]]
    IN  /\ mem' = lms
        /\ hist' = Append(hist, Catalog(Latest.created, t, plm, pkgs, logs))

Packages(pkgs) == IF "base" \in DOMAIN pkgs THEN pkgs["base"] ELSE {}
Known == Packages(Latest.pkgs)

AddPackage(k) ==
    /\ clock < MaxTime
    /\ k \notin Known
    /\ clock' = clock + 1
    /\ LET ps == PartsOf(k)
       IN  Change("add", k, clock + 1, ps, mem,
                  [p \in DOMAIN Latest.pkgs \cup ps |->
                       (IF p \in DOMAIN Latest.pkgs THEN Latest.pkgs[p] ELSE {})
                       \cup (IF p \in ps THEN {k} ELSE {})])
    /\ UNCHANGED <<cli, rpc, req, tmp, status>>

(* remove_package() looks into every part.                                 *)
RemovePackage(k) ==
    /\ Removals
    /\ clock < MaxTime
    /\ k \in Known
    /\ NeverEmpty => Known # {k}
    /\ clock' = clock + 1
    /\ Change("remove", k, clock + 1, {p \in DOMAIN Latest.pkgs : k \in Latest.pkgs[p]},
              Load(DOMAIN Latest.plm),
              [p \in DOMAIN Latest.pkgs |-> Latest.pkgs[p] \ {k}])
    /\ UNCHANGED <<cli, rpc, req, tmp, status>>

(* The catalog is destroyed and made anew, without update logs.            *)
Rebuild ==
    /\ Rebuilds
    /\ clock < MaxTime
    /\ clock' = clock + 1
    /\ mem' = [p \in PartsFor(Known) |-> clock + 1]
    /\ hist' = Append(hist, Catalog(clock + 1, clock + 1, mem', Content(Known), <<>>))
    /\ UNCHANGED <<cli, rpc, req, tmp, status>>

RestartServer ==
    /\ ServerRestarts
    /\ DOMAIN mem # {}
    /\ mem' = <<>>
    /\ UNCHANGED <<clock, hist, cli, rpc, req, tmp, status>>

(* A reader of the server's catalog brings a part into memory.             *)
ReadPart(p) ==
    /\ ServerRestarts
    /\ p \in DOMAIN Latest.plm \ DOMAIN mem
    /\ mem' = Load({p})
    /\ UNCHANGED <<clock, hist, cli, rpc, req, tmp, status>>

Tick ==
    /\ clock < MaxTime
    /\ clock' = clock + 1
    /\ UNCHANGED <<hist, mem, cli, rpc, req, tmp, status>>

-----------------------------------------------------------------------------
(* The client.                                                             *)

Exists == cli.at # 0
Mine == hist[cli.at]           \* the client's catalog.attrs

(* The versions a request may be answered with: with redownload and        *)
(* revalidate caches are bypassed, and they expire in the end.             *)
Served == IF Caches /\ ~req.full /\ ~req.revalidate /\ clock < MaxTime
          THEN 1 .. Len(hist) ELSE {Len(hist)}

(* __refresh(): a new attempt.                                             *)
Attempt(r) == /\ rpc' = "attrs"
              /\ req' = r
              /\ tmp' = NoFiles

Return(result) == /\ rpc' = "idle"
                  /\ status' = result
                  /\ req' = NoRequest
                  /\ tmp' = NoFiles

Refresh(full) ==
    /\ rpc = "idle"
    /\ Attempt([NoRequest EXCEPT !.user = full, !.full = full])
    /\ status' = "none"
    /\ UNCHANGED <<server, cli>>

(* Mutant: DuplicateCatalogEntry is not among the exceptions.              *)
MutRaise(e) ==
    CASE e \in {"identity", "obsolete"} /\ ~req.second /\ ~req.user
         -> Attempt([NoRequest EXCEPT !.second = TRUE, !.full = TRUE])
            /\ UNCHANGED status
      [] e = "mismatched" /\ ~req.second /\ ~req.user
         -> Attempt([NoRequest EXCEPT !.second = TRUE, !.revalidate = TRUE])
            /\ UNCHANGED status
      [] e = "signature" /\ ~req.second
         -> Attempt([NoRequest EXCEPT !.second = TRUE, !.full = TRUE])
            /\ UNCHANGED status
      [] OTHER -> Return(IF e = "unknown" THEN "unknown" ELSE "error")

(* The exception handlers of refresh().  A second attempt is not guarded.  *)
Raise(e) ==
    CASE e \in {"identity", "obsolete", "duplicate"} /\ ~req.second /\ ~req.user
         -> Attempt([NoRequest EXCEPT !.second = TRUE, !.full = TRUE])
            /\ UNCHANGED status
      [] e = "mismatched" /\ ~req.second /\ ~req.user
         -> Attempt([NoRequest EXCEPT !.second = TRUE, !.revalidate = TRUE])
            /\ UNCHANGED status
      [] e = "signature" /\ ~req.second
         -> Attempt([NoRequest EXCEPT !.second = TRUE, !.full = TRUE])
            /\ UNCHANGED status
      [] OTHER -> Return(IF e = "unknown" THEN "unknown" ELSE "error")

(* get_updates_needed() with the new attributes.                           *)
Changed(new) == {p \in DOMAIN Mine.plm : new.plm[p] # Mine.plm[p]}
NewParts(new) == DOMAIN new.plm \ DOMAIN Mine.plm
Incremental(new) ==
    /\ NewParts(new) = {}
    /\ \A p \in Changed(new) : Hour(Mine.plm[p]) \in DOMAIN new.logs
UpdateLogs(new) ==
    {h \in DOMAIN new.logs :
         \A p \in Changed(new) : LogTime(new.logs[h]) > Mine.plm[p]}

(* Mutant: parts older than the client's are not noticed.                  *)
MutUpdatesNeeded(new) ==
    IF new.created # Mine.created THEN [result |-> "identity"]
    ELSE IF new.lm = Mine.lm THEN [result |-> "none"]
    ELSE IF ~(DOMAIN Mine.plm \subseteq DOMAIN new.plm) THEN [result |-> "identity"]
    ELSE [result |-> "update",
          parts |-> IF Incremental(new) THEN {} ELSE Changed(new) \cup NewParts(new),
          logs |-> IF Incremental(new) THEN UpdateLogs(new) ELSE {}]

UpdatesNeeded(new) ==
    IF new.created # Mine.created THEN [result |-> "identity"]
    ELSE IF new.lm = Mine.lm THEN [result |-> "none"]
    ELSE IF ~(DOMAIN Mine.plm \subseteq DOMAIN new.plm) THEN [result |-> "identity"]
    ELSE IF \E p \in DOMAIN Mine.plm : new.plm[p] < Mine.plm[p]
    THEN [result |-> "obsolete"]
    ELSE IF Changed(new) \cup NewParts(new) = {}
    THEN [result |-> "update", parts |-> {}, logs |-> {}]
    ELSE IF Incremental(new)
    THEN [result |-> "update", parts |-> {}, logs |-> UpdateLogs(new)]
    ELSE [result |-> "update", parts |-> Changed(new) \cup NewParts(new), logs |-> {}]

Get(v, parts, logs) ==
    /\ rpc' = "files"
    /\ req' = [req EXCEPT !.parts = parts, !.logs = logs]
    /\ tmp' = [tmp EXCEPT !.at = v]
    /\ UNCHANGED status

(* catalog.attrs has been retrieved.                                       *)
GetAttrs ==
    /\ rpc = "attrs"
    /\ \E v \in Served :
           IF req.full \/ ~Exists
           THEN Get(v, DOMAIN hist[v].plm, {})
           ELSE LET n == UpdatesNeeded(hist[v])
                IN  CASE n.result = "update" -> Get(v, n.parts, n.logs)
                      [] n.result = "none" -> Return("ok")
                      [] OTHER -> Raise(n.result)
    /\ UNCHANGED <<server, cli>>

GetPart(p) ==
    /\ rpc = "files"
    /\ p \in req.parts \ DOMAIN tmp.parts
    /\ \E v \in Served :
           /\ p \in DOMAIN hist[v].pkgs
           /\ tmp' = [tmp EXCEPT !.parts = (p :> hist[v].pkgs[p]) @@ @]
    /\ UNCHANGED <<server, cli, rpc, req, status>>

GetLog(h) ==
    /\ rpc = "files"
    /\ h \in req.logs \ DOMAIN tmp.logs
    /\ \E v \in Served :
           /\ h \in DOMAIN hist[v].logs
           /\ tmp' = [tmp EXCEPT !.logs = (h :> hist[v].logs[h]) @@ @]
    /\ UNCHANGED <<server, cli, rpc, req, status>>

(* A file is no longer there, or the retrieval fails: TransportFailures.   *)
GetFails ==
    /\ rpc \in {"attrs", "files"}
    /\ \/ Failures /\ clock < MaxTime
       \/ \E p \in req.parts \ DOMAIN tmp.parts : p \notin DOMAIN Latest.pkgs
       \/ \E h \in req.logs \ DOMAIN tmp.logs : h \notin DOMAIN Latest.logs
    /\ Return("error")
    /\ UNCHANGED <<server, cli>>

Retrieved == /\ rpc = "files"
             /\ DOMAIN tmp.parts = req.parts /\ DOMAIN tmp.logs = req.logs

(* The operations of the retrieved logs that apply to a part, in order.    *)
Replayed(p) ==
    LET ops == FlattenSeq([i \in 1 .. Cardinality(req.logs) |->
                   tmp.logs[SetToSortSeq(req.logs, <)[i]]])
        Applies(e) == p \in e.parts /\ e.time > Mine.plm[p]
    IN  SelectSeq(ops, Applies)

(* What replaying them on a content gives: part.add() and part.remove()    *)
(* refuse an entry that is there already, or is not there.                 *)
Replay(ops, content) ==
    LET Apply(s, e) ==
            IF s.error # "no" THEN s
            ELSE IF e.op = "add" /\ e.pkg \in s.pkgs THEN [s EXCEPT !.error = "duplicate"]
            ELSE IF e.op = "add" THEN [s EXCEPT !.pkgs = @ \cup {e.pkg}]
            ELSE IF e.pkg \notin s.pkgs THEN [s EXCEPT !.error = "unknown"]
            ELSE [s EXCEPT !.pkgs = @ \ {e.pkg}]
    IN  FoldLeft(Apply, [error |-> "no", pkgs |-> content], ops)

(* Mutant: finalize() does not load the base part.                         *)
MutInMemory ==
    {p \in DOMAIN cli.pkgs :
         \E h \in DOMAIN tmp.logs : \E i \in DOMAIN tmp.logs[h] :
             p \in tmp.logs[h][i].parts}

(* The parts that apply_updates() has in memory when it compares           *)
(* signatures: those that an entry of a log names, and the base part,      *)
(* which finalize() loads if the old attributes have it.                   *)
InMemory ==
    {p \in DOMAIN cli.pkgs :
         \/ p = "base" /\ p \in DOMAIN Mine.plm
         \/ \E h \in DOMAIN tmp.logs : \E i \in DOMAIN tmp.logs[h] :
                p \in tmp.logs[h][i].parts}

(* apply_updates(): parts that were retrieved whole are copied over the    *)
(* old ones first; whatever is in memory must have the signatures of the   *)
(* new attributes before the result is saved with them.                    *)
ApplyUpdates ==
    LET new == hist[tmp.at]
        copied == [p \in DOMAIN tmp.parts \cup DOMAIN cli.pkgs |->
                       IF p \in DOMAIN tmp.parts THEN tmp.parts[p] ELSE cli.pkgs[p]]
        result == [p \in DOMAIN copied |->
                       IF p \in DOMAIN Mine.plm THEN Replay(Replayed(p), copied[p])
                       ELSE [error |-> "no", pkgs |-> copied[p]]]
        errors == {result[p].error : p \in DOMAIN result} \ {"no"}
        loaded == InMemory
    IN  /\ Retrieved
        /\ ~req.full /\ Exists
        /\ IF errors # {}
           THEN /\ \E e \in errors : Raise(e)
                /\ cli' = [cli EXCEPT !.pkgs = copied]
           ELSE IF \E p \in loaded : p \notin DOMAIN new.pkgs
                                     \/ result[p].pkgs # new.pkgs[p]
           THEN /\ Raise("signature")
                /\ cli' = [cli EXCEPT !.pkgs = copied]
           ELSE /\ cli' = [at |-> tmp.at,
                           pkgs |-> [p \in DOMAIN copied |-> result[p].pkgs]]
                /\ Return("ok")
        /\ UNCHANGED server

(* A full retrieval, or the first: the old catalog is destroyed, the files *)
(* take its place and are all validated.                                   *)
Install ==
    /\ Retrieved
    /\ req.full \/ ~Exists
    /\ IF \A p \in DOMAIN tmp.parts : tmp.parts[p] = hist[tmp.at].pkgs[p]
       THEN cli' = [at |-> tmp.at, pkgs |-> tmp.parts] /\ Return("ok")
       ELSE cli' = NoCatalog /\ Raise("mismatched")
    /\ UNCHANGED server

ClientStep ==
    \/ GetAttrs \/ GetFails \/ ApplyUpdates \/ Install
    \/ \E p \in Part : GetPart(p)
    \/ \E h \in 0 .. Hour(MaxTime) : GetLog(h)

SyncNext ==
    \/ \E k \in Pkg : AddPackage(k) \/ RemovePackage(k)
    \/ \E p \in Part : ReadPart(p)
    \/ Rebuild \/ RestartServer \/ Tick
    \/ \E full \in BOOLEAN : Refresh(full)
    \/ ClientStep

SyncSpec == SyncInit /\ [][SyncNext]_syncvars

(* The user, or a timer, refreshes again and again, and retrievals end.    *)
FairSyncSpec == SyncSpec /\ WF_syncvars(Refresh(FALSE)) /\ WF_syncvars(ClientStep)
-----------------------------------------------------------------------------
(* What a refresh installs are the packages of one of the catalogs the     *)
(* server has saved, the one whose attributes come with it: never a        *)
(* mixture of several, whatever the server did while the files were        *)
(* retrieved, what a cache answered and which update logs were replayed.   *)
InstallsSnapshot ==
    [][cli' # cli /\ status' = "ok"
           => Packages(cli'.pkgs) = Packages(hist[cli'.at].pkgs)]_syncvars

(* The client does not return to an older catalog, as a cache or a restore *)
(* would have it, unless its copy was destroyed first.                     *)
NeverGoesBack ==
    [][Exists /\ cli'.at # 0 => cli'.at >= cli.at]_cli

(* When the server is quiet the client comes to know its packages without  *)
(* anyone asking for a full retrieval, unless it meets a removal that it   *)
(* cannot replay.                                                          *)
InSync == Exists /\ cli.at = Len(hist) /\ Packages(cli.pkgs) = Known
Converges == clock = MaxTime ~> InSync \/ status = "unknown"
=============================================================================
