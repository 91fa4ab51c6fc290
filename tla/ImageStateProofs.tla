--------------------------- MODULE ImageStateProofs ---------------------------
(***************************************************************************)
(* Proofs about ImageState for any packages, processes and crashes.  What  *)
(* a process has loaded is current when it takes the lock (Exclusive).     *)
(***************************************************************************)
EXTENDS ImageState, TLAPS

CatType == {c \in [rows : UNION {[D -> SUBSET States] : D \in SUBSET Pkg}, inst : SUBSET Pkg] :
                c.inst \subseteq DOMAIN c.rows}
DirType == [json : CatType, db : CatType, fresh : BOOLEAN, flag : BOOLEAN,
            avoid : SUBSET Pkg, frozen : SUBSET Pkg]

(* What a process has in memory: what it loaded, a refresh, a plan.        *)
Loaded == [ver : {4, 5}, icat : CatType, avoid : SUBSET Pkg]
Refreshing == [ver : {4, 5}, icat : CatType, updated : BOOLEAN, origins : BOOLEAN]
Planned == [ver : {4, 5}, valid : {TRUE}, add : Pkg \cup {None}, rem : Pkg \cup {None},
            manual : BOOLEAN, avoid : SUBSET Pkg]

(* Where the operation under way is, and which one it is.                  *)
here == IF lock = None THEN "rest" ELSE pc[lock]
doing == IF lock = None THEN "none" ELSE task[lock]

Working == {"refresh", "decide", "build", "save", "swap", "execute", "state", "avoid", "config"}
Tasks == {"refresh", "freeze", "unset", "flag", "execute", "upgrade"}

TypeInv ==
    /\ version \in {4, 5}
    /\ avail \subseteq Pkg /\ pub \subseteq Pkg
    /\ manifests \subseteq Pkg /\ files \subseteq Pkg
    /\ lock \in Proc \cup {None}
    /\ pc \in [Proc -> {"none", "ready", "planned"} \cup Working]
    /\ task \in [Proc -> Tasks \cup {"none"}]
    /\ DOMAIN mem = Proc /\ DOMAIN tmp = Proc
    /\ cut \in BOOLEAN /\ torn \in BOOLEAN

(* Which steps an operation has.                                           *)
StepOf(t, s) ==
    /\ s \in {"refresh", "decide"} => t = "refresh"
    /\ s = "build" => t \in {"refresh", "freeze", "unset"}
    /\ s \in {"execute", "state", "avoid"} => t = "execute"
    /\ s = "config" => t = "upgrade"
    /\ t = "upgrade" => s \in {"save", "swap", "config"}
    /\ t = "execute" => s \in {"execute", "state", "save", "swap", "avoid"}
    /\ t \in {"freeze", "unset"} => s \in {"build", "save", "swap"}
    /\ t = "refresh" => s \in {"refresh", "decide", "build", "save", "swap"}
    /\ t = "flag" => s \in {"save", "swap"}

(* Only the holder of the lock works, until somebody died where nothing    *)
(* protects the state.  One process at a time is between its start and its *)
(* lock.                                                                   *)
LockInv ==
    /\ \A p \in Proc : /\ pc[p] \in Working <=> lock = p
                       /\ task[p] # "none" <=> lock = p
                       /\ pc[p] = "ready" => lock = None /\ ~cut
    /\ \A p, q \in Proc : pc[p] = "ready" /\ pc[q] = "ready" => p = q
    /\ cut => lock = None
    /\ StepOf(doing, here)
    /\ doing = "upgrade" => version = 4

(* The state directory is there but between the two renames, or when a     *)
(* process died there.                                                     *)
DirInv ==
    ~cut => IF here = "swap" THEN salvaged \in DirType ELSE dir \in DirType

(* A plan that is not out of date fits the catalogs.                       *)
Fits(m, s) ==
    /\ m.add # m.rem
    /\ m.add # None => m.add \in DOMAIN s.rows \ s.inst
    /\ m.rem # None => m.rem \in s.inst

(* What a process has loaded is what the state directory holds.            *)
MemInv ==
    /\ \A p \in Proc : pc[p] = "ready" =>
           mem[p] \in Loaded /\ mem[p].ver = version /\ mem[p].icat = Catalogs
    /\ \A p \in Proc : pc[p] = "planned" /\ mem[p] # StalePlan =>
           /\ mem[p] \in Planned /\ mem[p].ver = version
           /\ here \notin {"avoid", "config"}
           /\ ~cut /\ here # "swap" => Fits(mem[p], Catalogs)
    /\ doing \in {"freeze", "unset", "flag", "upgrade"} => mem[lock] \in Loaded
    /\ doing = "refresh" => mem[lock] \in Refreshing
    /\ doing = "execute" => mem[lock] \in Planned
    /\ doing # "none" => mem[lock].ver = version
    /\ here \in {"refresh", "decide", "build"} => mem[lock].icat = Catalogs
    /\ here \in {"execute", "state"} => Fits(mem[lock], Catalogs)
    /\ here \in {"save", "swap"} => tmp[lock] \in DirType

-----------------------------------------------------------------------------
(* Both parts of a catalog say the same of what is installed, and only     *)
(* installed packages are marked as installed manually.                    *)
Good(s) ==
    /\ Having(s, "installed") = s.inst
    /\ Having(s, "manual") \subseteq s.inst

(* A state directory d whose catalog is good, and mirrored by its database *)
(* in version 4.                                                           *)
GoodDir(ver, d) == Good(Store(ver, d)) /\ d.db = Store(ver, d)

(* The version that a new state directory is for, and its catalogs.        *)
NewVersion == IF doing = "upgrade" THEN 5 ELSE version
NewCatalogs == Store(NewVersion, tmp[lock])

(* A mark of a manual installation of the old catalog is in the new one or *)
(* handed on.                                                              *)
MarksKept(old) ==
    doing # "flag" =>
        \A k \in Having(old, "manual") :
            \/ k \in Having(NewCatalogs, "manual")
            \/ doing = "execute" /\ mem[lock].rem = k /\
               (mem[lock].add # None => mem[lock].add \in Having(NewCatalogs, "manual"))

CatalogInv ==
    /\ ~cut /\ here \notin {"swap", "config"} => GoodDir(version, dir)
    /\ here = "config" => GoodDir(5, dir)
    /\ here \in {"save", "swap"} => GoodDir(NewVersion, tmp[lock])
    /\ here = "save" => MarksKept(Catalogs)
    /\ here = "swap" => MarksKept(Store(version, salvaged))

(* The installed packages of the catalogs are those with files, and have   *)
(* manifests, but for what the holder of the lock is doing; so has what a  *)
(* plan installs.                                                          *)
Recorded(s) == s.inst = files /\ files \subseteq manifests
Changing == here = "state" \/ (here \in {"save", "swap"} /\ doing = "execute")
FilesInv ==
    ~cut /\ ~torn =>
        /\ ~Changing /\ here \notin {"swap", "config"} => Recorded(Catalogs)
        /\ \A p \in Proc : pc[p] = "planned" /\ mem[p] # StalePlan /\ mem[p].add # None
                           /\ ~Changing /\ doing # "unset" => mem[p].add \in manifests
        /\ here = "execute" /\ mem[lock].add # None => mem[lock].add \in manifests
        /\ here = "state" =>
               /\ files = (Catalogs.inst \ {mem[lock].rem}) \cup ({mem[lock].add} \ {None})
               /\ files \subseteq manifests
        /\ here \in {"save", "swap"} => Recorded(NewCatalogs)
        /\ here = "config" => Recorded(dir.db)

-----------------------------------------------------------------------------
(* The catalog s of the directory d lists the publisher's packages and     *)
(* marks the frozen ones, or d has the flag of an update under way.        *)
Current(s, d) ==
    /\ Having(s, "known") = pub
    /\ Having(s, "frozen") = DOMAIN s.rows \cap d.frozen

KnownInv ==
    /\ pub = avail
    /\ doing = "refresh" /\ here # "swap" => dir.flag
    /\ here = "refresh" => mem[lock].updated \/ mem[lock].origins \/ Current(Catalogs, dir)
    /\ here = "decide" => mem[lock].updated \/ Current(Catalogs, dir)
    /\ here \in {"save", "swap"} => tmp[lock].flag \/ Current(NewCatalogs, tmp[lock])
    /\ here = "config" => dir.flag \/ Current(dir.db, dir)
    /\ ~cut /\ here \notin {"swap", "config"} /\ doing \notin {"refresh", "freeze", "unset"} =>
           dir.flag \/ Current(Catalogs, dir)

-----------------------------------------------------------------------------
(* Catalogs, taken apart and put together.                                 *)
LEMMA CatElim ==
    ASSUME NEW c \in CatType
    PROVE  /\ c.rows \in [DOMAIN c.rows -> SUBSET States] /\ DOMAIN c.rows \subseteq Pkg
           /\ c.inst \subseteq DOMAIN c.rows
           /\ c = [rows |-> c.rows, inst |-> c.inst]
<1>1. /\ c \in [rows : UNION {[D -> SUBSET States] : D \in SUBSET Pkg}, inst : SUBSET Pkg]
      /\ c.inst \subseteq DOMAIN c.rows
    BY DEF CatType
<1>2. PICK D \in SUBSET Pkg : c.rows \in [D -> SUBSET States]
    BY <1>1
<1>3. DOMAIN c.rows = D
    BY <1>2
<1> QED
    BY <1>1, <1>2, <1>3

(* Rows and installed packages of the right types are a catalog.           *)
LEMMA CatIntro ==
    ASSUME NEW D \in SUBSET Pkg, NEW f \in [D -> SUBSET States], NEW I \in SUBSET D
    PROVE  [rows |-> f, inst |-> I] \in CatType
<1>1. f \in UNION {[X -> SUBSET States] : X \in SUBSET Pkg}
    OBVIOUS
<1>2. I \in SUBSET Pkg /\ I \subseteq DOMAIN f
    OBVIOUS
<1> QED
    BY <1>1, <1>2 DEF CatType

(* The empty catalog is one.                                               *)
LEMMA NoRowsType == NoRows \in CatType
<1>1. <<>> \in [{} -> SUBSET States]
    OBVIOUS
<1> QED
    BY <1>1, CatIntro DEF NoRows

(* The packages in a state.                                                *)
LEMMA HavingElim ==
    ASSUME NEW c, NEW st PROVE \A k : k \in Having(c, st) <=> k \in DOMAIN c.rows /\ st \in c.rows[k]
    BY DEF Having

(* What a rebuild makes of a good catalog.                                 *)
LEMMA RebuiltFacts ==
    ASSUME NEW c \in CatType, Good(c), NEW frozen, pub \subseteq Pkg
    PROVE  LET new == Rebuilt(c, frozen)
           IN  /\ new \in CatType /\ Good(new) /\ new.inst = c.inst
               /\ Having(new, "known") = pub
               /\ Having(new, "frozen") = DOMAIN new.rows \cap frozen
               /\ Having(c, "manual") \subseteq Having(new, "manual")
<1> DEFINE mark(k) == IF k \in frozen THEN {"frozen"} ELSE {}
           row(k) == IF k \in pub
                     THEN {"known"} \cup mark(k) \cup
                          (IF k \in c.inst
                           THEN {"installed"} \cup (c.rows[k] \cap {"manual"}) ELSE {})
                     ELSE (c.rows[k] \ {"known", "frozen"}) \cup mark(k)
           D == pub \cup c.inst
           f == [k \in D |-> row(k)]
           new == Rebuilt(c, frozen)
<1>1. /\ c.rows \in [DOMAIN c.rows -> SUBSET States] /\ DOMAIN c.rows \subseteq Pkg
      /\ c.inst \subseteq DOMAIN c.rows
    BY CatElim
<1>2. /\ \A k \in DOMAIN c.rows : "installed" \in c.rows[k] <=> k \in c.inst
      /\ \A k \in DOMAIN c.rows : "manual" \in c.rows[k] => k \in c.inst
    BY <1>1, HavingElim DEF Good
<1>3. {k \in c.inst : "installed" \in c.rows[k]} = c.inst
    BY <1>1, <1>2
<1>4. new = [rows |-> f, inst |-> c.inst]
    BY <1>3, Zenon DEF Rebuilt
<1>5. \A k \in D : row(k) \in SUBSET States
    BY <1>1 DEF States
<1>6. /\ \A k \in D : "known" \in row(k) <=> k \in pub
      /\ \A k \in D : "frozen" \in row(k) <=> k \in frozen
      /\ \A k \in D : "installed" \in row(k) <=> k \in c.inst
      /\ \A k \in D : "manual" \in row(k) => k \in c.inst
      /\ \A k \in c.inst : "manual" \in c.rows[k] => "manual" \in row(k)
    BY <1>1, <1>2
<1> HIDE DEF row, new
<1>7. new \in CatType
    BY <1>1, <1>4, <1>5, CatIntro
<1>8. DOMAIN new.rows = D /\ new.inst = c.inst /\ \A k \in D : new.rows[k] = row(k)
    BY <1>4
<1>9. Good(new)
    BY <1>6, <1>8 DEF Good, Having
<1>10. Having(new, "known") = pub /\ Having(new, "frozen") = DOMAIN new.rows \cap frozen
    BY <1>6, <1>8 DEF Having
<1>11. Having(c, "manual") \subseteq Having(new, "manual")
    BY <1>1, <1>2, <1>6, <1>8 DEF Having
<1> QED
    BY <1>7, <1>8, <1>9, <1>10, <1>11 DEF new

(* What a finished operation makes of a good catalog s with which its plan *)
(* fits: marks are kept or handed on, and only the two packages change.    *)
InstalledOk(s, new, add, rem) ==
    /\ new \in CatType /\ Good(new)
    /\ new.inst = (s.inst \ {rem}) \cup ({add} \ {None})
    /\ Sync(s, new, {add, rem} \ {None}) = new
    /\ Having(new, "known") = Having(s, "known")
    /\ \A F : Having(s, "frozen") = DOMAIN s.rows \cap F =>
                 Having(new, "frozen") = DOMAIN new.rows \cap F
    /\ \A k \in Having(s, "manual") :
           \/ k \in Having(new, "manual")
           \/ rem = k /\ (add # None => add \in Having(new, "manual"))
(* update_pkg_installed_state() does that, for a plan that fits.           *)
LEMMA InstalledFacts ==
    ASSUME NEW s \in CatType, Good(s), NEW manual \in BOOLEAN,
           NEW add \in Pkg \cup {None}, NEW rem \in Pkg \cup {None}, add # rem,
           add # None => add \in DOMAIN s.rows \ s.inst,
           rem # None => rem \in s.inst
    PROVE  InstalledOk(s, Installed(s, add, rem, manual), add, rem)
<1> DEFINE kept == IF rem = None \/ "known" \in s.rows[rem] THEN {} ELSE {rem}
           asked == manual \/ (rem # None /\ add # None /\ "manual" \in s.rows[rem])
           row(k) == IF k = add THEN s.rows[k] \cup {"installed"} \cup
                                     (IF asked THEN {"manual"} ELSE {})
                     ELSE IF k = rem THEN s.rows[k] \ {"installed", "manual"}
                     ELSE s.rows[k]
           D == DOMAIN s.rows \ kept
           f == [k \in D |-> row(k)]
           I == (s.inst \ {rem}) \cup ({add} \ {None})
           ch == {add, rem} \ {None}
           new == Installed(s, add, rem, manual)
<1>1. /\ s.rows \in [DOMAIN s.rows -> SUBSET States] /\ DOMAIN s.rows \subseteq Pkg
      /\ s.inst \subseteq DOMAIN s.rows
    BY CatElim
<1>2. /\ \A k \in DOMAIN s.rows : "installed" \in s.rows[k] <=> k \in s.inst
      /\ \A k \in DOMAIN s.rows : "manual" \in s.rows[k] => k \in s.inst
    BY <1>1, HavingElim DEF Good
<1>3. None \notin DOMAIN s.rows
    BY <1>1, NoneAssumption
<1>4. new = [rows |-> f, inst |-> I]
    BY Zenon DEF Installed
<1>5. \A k \in DOMAIN s.rows : row(k) \in SUBSET States
    BY <1>1 DEF States
<1>6. I \subseteq D /\ D \subseteq DOMAIN s.rows /\ DOMAIN s.rows \ D \subseteq {rem}
    BY <1>1, <1>3
<1>7. /\ \A k \in D : "installed" \in row(k) <=> k \in I
      /\ \A k \in D : "manual" \in row(k) => k \in I
    BY <1>1, <1>2, <1>3, <1>6
<1>8. /\ \A k \in D : "known" \in row(k) <=> "known" \in s.rows[k]
      /\ \A k \in D : "frozen" \in row(k) <=> "frozen" \in s.rows[k]
      /\ \A k \in DOMAIN s.rows \ D : "known" \notin s.rows[k]
    BY <1>1, <1>6
<1>9. \A k \in DOMAIN s.rows : "manual" \in s.rows[k] =>
          \/ k \in D /\ "manual" \in row(k)
          \/ k = rem /\ (add # None => add \in D /\ "manual" \in row(add))
    BY <1>1, <1>2, <1>3, <1>6
<1>10. /\ (DOMAIN s.rows \ ch) \cup (D \cap ch) = D
       /\ (s.inst \ ch) \cup (I \cap ch) = I
       /\ \A k \in D \ ch : row(k) = s.rows[k]
    BY <1>1, <1>3, <1>6
<1> HIDE DEF row, new
<1>11. new \in CatType
  <2>1. f \in [D -> SUBSET States]
      BY <1>5, <1>6
  <2>2. D \in SUBSET Pkg /\ I \in SUBSET D
      BY <1>1, <1>6
  <2> QED
      BY <2>1, <2>2, <1>4, CatIntro
<1>12. DOMAIN new.rows = D /\ new.inst = I /\ \A k \in D : new.rows[k] = row(k)
    BY <1>4
<1> HIDE DEF D, I
<1>13. Good(new)
    BY <1>6, <1>7, <1>12 DEF Good, Having
<1>14. Having(new, "known") = Having(s, "known")
    BY <1>6, <1>8, <1>12 DEF Having
<1>15. ASSUME NEW F, Having(s, "frozen") = DOMAIN s.rows \cap F
       PROVE  Having(new, "frozen") = DOMAIN new.rows \cap F
    BY <1>6, <1>8, <1>12, <1>15 DEF Having
<1>16. \A k \in Having(s, "manual") :
           \/ k \in Having(new, "manual")
           \/ rem = k /\ (add # None => add \in Having(new, "manual"))
    BY <1>9, <1>12 DEF Having
<1>17. Sync(s, new, ch) = new
  <2> DEFINE g == [k \in (DOMAIN s.rows \ ch) \cup (DOMAIN new.rows \cap ch) |->
                      IF k \in ch THEN new.rows[k] ELSE s.rows[k]]
  <2>1. g = f
      BY <1>10, <1>12, Zenon
  <2>2. Sync(s, new, ch) = [rows |-> g, inst |-> (s.inst \ ch) \cup (new.inst \cap ch)]
      BY DEF Sync
  <2> QED
      BY <1>4, <1>10, <1>12, <2>1, <2>2
<1> QED
    BY <1>11, <1>12, <1>13, <1>14, <1>15, <1>16, <1>17 DEF new, I, InstalledOk

(* The catalog with the mark of the installed package k set or cleared.    *)
Toggled(s, k) ==
    [s EXCEPT !.rows[k] = IF "manual" \in @ THEN @ \ {"manual"} ELSE @ \cup {"manual"}]
(* flag_pkgs() changes nothing but the mark, and bringing that one package *)
(* up to date gives the whole catalog.                                     *)
LEMMA ToggledFacts ==
    ASSUME NEW s \in CatType, Good(s), NEW k \in s.inst
    PROVE  /\ Toggled(s, k) \in CatType /\ Good(Toggled(s, k))
           /\ Toggled(s, k).inst = s.inst
           /\ Sync(s, Toggled(s, k), {k}) = Toggled(s, k)
           /\ Having(Toggled(s, k), "known") = Having(s, "known")
           /\ Having(Toggled(s, k), "frozen") = Having(s, "frozen")
           /\ DOMAIN Toggled(s, k).rows = DOMAIN s.rows
<1> DEFINE row == IF "manual" \in s.rows[k] THEN s.rows[k] \ {"manual"}
                  ELSE s.rows[k] \cup {"manual"}
           f == [s.rows EXCEPT ![k] = row]
           new == Toggled(s, k)
<1>1. /\ s.rows \in [DOMAIN s.rows -> SUBSET States] /\ DOMAIN s.rows \subseteq Pkg
      /\ s.inst \subseteq DOMAIN s.rows /\ s = [rows |-> s.rows, inst |-> s.inst]
    BY CatElim
<1>2. /\ \A j \in DOMAIN s.rows : "installed" \in s.rows[j] <=> j \in s.inst
      /\ \A j \in DOMAIN s.rows : "manual" \in s.rows[j] => j \in s.inst
    BY <1>1, HavingElim DEF Good
<1>3. new = [rows |-> f, inst |-> s.inst]
    BY <1>1 DEF Toggled
<1>4. /\ row \in SUBSET States
      /\ \A st \in {"installed", "known", "frozen"} : st \in row <=> st \in s.rows[k]
    BY <1>1 DEF States
<1> HIDE DEF row, new
<1>5. /\ f \in [DOMAIN s.rows -> SUBSET States] /\ f[k] = row
      /\ \A j \in DOMAIN s.rows \ {k} : f[j] = s.rows[j]
    BY <1>1, <1>4
<1>6. new \in CatType
    BY <1>1, <1>3, <1>5, CatIntro
<1>7. new.rows = f /\ new.inst = s.inst /\ DOMAIN f = DOMAIN s.rows
    BY <1>3, <1>5
<1> HIDE DEF f
<1>8. Good(new)
    BY <1>1, <1>2, <1>4, <1>5, <1>7 DEF Good, Having
<1>9. Having(new, "known") = Having(s, "known") /\ Having(new, "frozen") = Having(s, "frozen")
    BY <1>1, <1>4, <1>5, <1>7 DEF Having
<1>10. Sync(s, new, {k}) = new
  <2> DEFINE g == [j \in (DOMAIN s.rows \ {k}) \cup (DOMAIN new.rows \cap {k}) |->
                      IF j \in {k} THEN new.rows[j] ELSE s.rows[j]]
  <2>1. (DOMAIN s.rows \ {k}) \cup (DOMAIN new.rows \cap {k}) = DOMAIN s.rows
      BY <1>1, <1>7
  <2>2. g = f
    <3>1. g = [j \in DOMAIN s.rows |-> f[j]]
        BY <1>5, <1>7, <2>1
    <3>2. f = [j \in DOMAIN s.rows |-> f[j]]
        BY <1>5
    <3> QED
        BY <3>1, <3>2
  <2>3. (s.inst \ {k}) \cup (new.inst \cap {k}) = s.inst
      BY <1>7
  <2>4. Sync(s, new, {k}) = [rows |-> g, inst |-> (s.inst \ {k}) \cup (new.inst \cap {k})]
      BY DEF Sync
  <2> QED
      BY <1>3, <2>2, <2>3, <2>4
<1> QED
    BY <1>6, <1>7, <1>8, <1>9, <1>10 DEF new

(* A state directory as it is saved with the good catalog new.             *)
Saved(d, ver, new) ==
    [d EXCEPT !.json = IF ver = 4 THEN new ELSE NoRows, !.db = new, !.fresh = TRUE]
(* It is a good directory with that catalog; flag and frozen set are       *)
(* copied.                                                                 *)
LEMMA SavedFacts ==
    ASSUME NEW d \in DirType, NEW ver \in {4, 5}, NEW new \in CatType, Good(new)
    PROVE  /\ Saved(d, ver, new) \in DirType /\ GoodDir(ver, Saved(d, ver, new))
           /\ Store(ver, Saved(d, ver, new)) = new
           /\ Saved(d, ver, new).flag = d.flag /\ Saved(d, ver, new).frozen = d.frozen
    BY NoRowsType DEF Saved, DirType, GoodDir, Store

-----------------------------------------------------------------------------
(* While p works, or is about to, nobody else does.                        *)
LEMMA Alone ==
    ASSUME TypeInv, LockInv, NEW p \in Proc, pc[p] \in Working
    PROVE  /\ lock = p /\ here = pc[p] /\ doing = task[p] /\ doing \in Tasks /\ ~cut
           /\ \A q \in Proc \ {p} : pc[q] \in {"none", "planned"} /\ task[q] = "none"
    BY NoneAssumption DEF TypeInv, LockInv, here, doing, Working

(* Without an owner of the lock no operation is under way.                 *)
LEMMA NobodyWorks ==
    ASSUME TypeInv, LockInv, lock = None
    PROVE  /\ here = "rest" /\ doing = "none"
           /\ \A q \in Proc : task[q] = "none" /\ pc[q] \in {"none", "ready", "planned"}
    BY NoneAssumption DEF TypeInv, LockInv, here, doing, Working

(* A process between its start and its lock finds nobody at work.          *)
LEMMA AloneReady ==
    ASSUME TypeInv, LockInv, NEW p \in Proc, pc[p] = "ready"
    PROVE  /\ lock = None /\ here = "rest" /\ doing = "none" /\ ~cut
           /\ \A q \in Proc : task[q] = "none"
           /\ \A q \in Proc \ {p} : pc[q] \in {"none", "planned"}
<1>1. lock = None /\ ~cut /\ \A q \in Proc \ {p} : pc[q] # "ready"
    BY DEF LockInv
<1> QED
    BY <1>1, NobodyWorks

(* A step makes p the holder of the lock, in operation t at step s; a step *)
(* ends the operation of p.                                                *)
Moves(p, t, s) ==
    /\ lock' = p /\ here' = s /\ doing' = t /\ pc'[p] = s /\ task'[p] = t
    /\ \A q \in Proc \ {p} : pc'[q] = pc[q] /\ task'[q] = task[q]
    /\ pc' \in [Proc -> {"none", "ready", "planned"} \cup Working]
    /\ task' \in [Proc -> Tasks \cup {"none"}]
Ends(p) ==
    /\ lock' = None /\ here' = "rest" /\ doing' = "none" /\ pc'[p] = "none" /\ task'[p] = "none"
    /\ \A q \in Proc \ {p} : pc'[q] = pc[q] /\ task'[q] = task[q]
    /\ pc' \in [Proc -> {"none", "ready", "planned"} \cup Working]
    /\ task' \in [Proc -> Tasks \cup {"none"}]

(* The next step of the operation under way keeps its owner.               *)
LEMMA GotoMoves ==
    ASSUME TypeInv, LockInv, NEW p \in Proc, pc[p] \in Working,
           NEW s \in Working, Goto(p, s)
    PROVE  Moves(p, task[p], s)
    BY Alone, NoneAssumption DEF TypeInv, Goto, Moves, here, doing

(* locked_op() begins an operation of a process that has started.          *)
LEMMA LockedMoves ==
    ASSUME TypeInv, NEW p \in Proc, NEW t \in Tasks, NEW s \in Working, Locked(p, t, s)
    PROVE  Moves(p, t, s) /\ pc[p] = "ready" /\ lock = None /\ ~cut
    BY NoneAssumption DEF TypeInv, Locked, Moves, here, doing

(* The end of an operation touches no other process.                       *)
LEMMA ExitEnds ==
    ASSUME TypeInv, NEW p \in Proc, Exit(p)
    PROVE  /\ Ends(p)
           /\ \A q \in Proc \ {p} : mem'[q] = mem[q] /\ tmp'[q] = tmp[q]
           /\ DOMAIN mem' = Proc /\ DOMAIN tmp' = Proc
    BY DEF TypeInv, Exit, Ends, here, doing

(* The lock is handed over correctly.                                      *)
LEMMA MovesKeepsLock ==
    ASSUME TypeInv, LockInv, NEW p \in Proc, NEW t \in Tasks, NEW s \in Working,
           \A q \in Proc \ {p} : pc[q] # "ready",
           lock \in {p, None}, Moves(p, t, s), StepOf(t, s),
           t = "upgrade" => version' = 4, ~cut'
    PROVE  LockInv'
<1>1. \A q \in Proc \ {p} : pc'[q] \in {"none", "planned"} /\ task'[q] = "none"
    BY NoneAssumption DEF LockInv, Moves, TypeInv, Working
<1>2. pc'[p] = s /\ task'[p] = t /\ lock' = p /\ here' = s /\ doing' = t
    BY DEF Moves
<1>3. \A q \in Proc : /\ pc'[q] \in Working <=> lock' = q
                      /\ task'[q] # "none" <=> lock' = q
                      /\ pc'[q] = "ready" => lock' = None /\ ~cut'
    BY <1>1, <1>2 DEF Working, Tasks
<1>4. \A q, r \in Proc : pc'[q] = "ready" /\ pc'[r] = "ready" => q = r
    BY <1>1, <1>2 DEF Working
<1> QED
    BY <1>2, <1>3, <1>4 DEF LockInv, StepOf

(* The lock is free after the end of an operation, also of one that dies.  *)
LEMMA EndsKeepsLock ==
    ASSUME TypeInv, LockInv, NEW p \in Proc, lock \in {p, None}, Ends(p),
           cut' => cut \/ lock = p
    PROVE  LockInv'
<1>1. \A q \in Proc \ {p} : pc'[q] \in {"none", "ready", "planned"} /\ task'[q] = "none"
                            /\ (pc'[q] = "ready" => pc[q] = "ready")
    BY NoneAssumption DEF LockInv, Ends, TypeInv, Working
<1>2. pc'[p] = "none" /\ task'[p] = "none" /\ lock' = None /\ here' = "rest" /\ doing' = "none"
    BY DEF Ends
<1>3. \A q \in Proc : /\ pc'[q] \in Working <=> lock' = q
                      /\ task'[q] # "none" <=> lock' = q
    BY <1>1, <1>2, NoneAssumption DEF Working
<1>4. \A q \in Proc : pc'[q] = "ready" => ~cut'
    BY <1>1, <1>2, NoneAssumption DEF LockInv
<1>5. \A q, r \in Proc : pc'[q] = "ready" /\ pc'[r] = "ready" => q = r
    BY <1>1, <1>2 DEF LockInv
<1> QED
    BY <1>2, <1>3, <1>4, <1>5 DEF LockInv, StepOf

-----------------------------------------------------------------------------
IInv == TypeInv /\ LockInv /\ DirInv /\ MemInv /\ CatalogInv /\ FilesInv

(* A step that leaves the catalogs of the state directory alone.           *)
Steady ==
    /\ version' = version /\ cut' = cut /\ torn' = torn
    /\ dir' \in DirType /\ dir'.json = dir.json /\ dir'.db = dir.db

(* The catalogs are still good and mirrored after such a step.             *)
LEMMA SteadyFacts ==
    ASSUME IInv, Steady, ~cut, here \notin {"swap", "config"}
    PROVE  Catalogs' = Catalogs /\ GoodDir(version, dir') /\ Catalogs \in CatType
           /\ Good(Catalogs) /\ dir.db = Catalogs
<1>1. GoodDir(version, dir) /\ dir \in DirType /\ version \in {4, 5}
    BY DEF IInv, CatalogInv, DirInv, TypeInv
<1>2. Store(version, dir') = Store(version, dir) /\ Store(version, dir) \in CatType
    BY <1>1 DEF Store, Steady, DirType
<1> QED
    BY <1>1, <1>2 DEF Catalogs, Steady, GoodDir

(* The memory m of a process fits step s of operation t and the catalog c. *)
MemFits(m, c, t, s) ==
    /\ t \in {"freeze", "unset", "flag", "upgrade"} => m \in Loaded
    /\ t = "refresh" => m \in Refreshing
    /\ t = "execute" => m \in Planned
    /\ m.ver = version
    /\ s \in {"refresh", "decide", "build"} => m.icat = c
    /\ s \in {"execute", "state"} => Fits(m, c)

(* A step of an operation before its directories are swapped.              *)
Works(p, t, s) ==
    /\ Moves(p, t, s) /\ Steady /\ StepOf(t, s) /\ t \in Tasks
    /\ s \in Working \ {"swap", "avoid", "config"}
    /\ DOMAIN mem' = Proc /\ DOMAIN tmp' = Proc
    /\ \A q \in Proc \ {p} : mem'[q] = mem[q]
    /\ MemFits(mem'[p], Catalogs, t, s)
    /\ t = "upgrade" => version = 4
    /\ s = "save" => tmp'[p] \in DirType

(* Who may take such a step.                                               *)
MayWork(p) ==
    /\ ~cut /\ lock \in {p, None} /\ here \notin {"swap", "avoid", "config"}
    /\ \A q \in Proc \ {p} : pc[q] # "ready"

(* It leaves the directory in place and all valid plans fit.               *)
LEMMA WorksKeepsMem ==
    ASSUME IInv, NEW p \in Proc, NEW t, NEW s, MayWork(p), Works(p, t, s)
    PROVE  LockInv' /\ DirInv' /\ MemInv'
<1>1. Catalogs' = Catalogs
    BY SteadyFacts DEF MayWork, Works
<1>2. /\ lock' = p /\ here' = s /\ doing' = t /\ pc'[p] = s
      /\ \A q \in Proc \ {p} : pc'[q] = pc[q] /\ mem'[q] = mem[q]
    BY DEF Works, Moves
<1>3. LockInv'
    BY MovesKeepsLock DEF IInv, Works, MayWork, Steady
<1>4. DirInv'
    BY <1>2 DEF DirInv, Works, Steady
<1>5. version' = version /\ cut' = cut /\ ~cut
    BY DEF Works, Steady, MayWork
<1>6. ASSUME NEW q \in Proc, pc'[q] = "ready" PROVE FALSE
    BY <1>2, <1>6 DEF Works, MayWork, Working
<1>7. ASSUME NEW q \in Proc, pc'[q] = "planned", mem'[q] # StalePlan
      PROVE  /\ mem'[q] \in Planned /\ mem'[q].ver = version'
             /\ here' \notin {"avoid", "config"}
             /\ Fits(mem'[q], Catalogs')
  <2>1. q # p /\ pc[q] = "planned" /\ mem'[q] = mem[q]
      BY <1>2, <1>7 DEF Works, Working
  <2>2. mem[q] \in Planned /\ mem[q].ver = version /\ Fits(mem[q], Catalogs)
      BY <1>5, <1>7, <2>1 DEF IInv, MemInv, MayWork
  <2> QED
      BY <1>1, <1>2, <1>5, <2>1, <2>2 DEF Works
<1>8. MemFits(mem'[p], Catalogs, t, s) /\ (s = "save" => tmp'[p] \in DirType) /\ s # "swap"
    BY DEF Works
<1>9. MemInv'
  <2>1. /\ doing' \in {"freeze", "unset", "flag", "upgrade"} => mem'[lock'] \in Loaded
        /\ doing' = "refresh" => mem'[lock'] \in Refreshing
        /\ doing' = "execute" => mem'[lock'] \in Planned
        /\ doing' # "none" => mem'[lock'].ver = version'
        /\ here' \in {"refresh", "decide", "build"} => mem'[lock'].icat = Catalogs'
        /\ here' \in {"execute", "state"} => Fits(mem'[lock'], Catalogs')
        /\ here' \in {"save", "swap"} => tmp'[lock'] \in DirType
      BY <1>1, <1>2, <1>5, <1>8, Zenon DEF MemFits
  <2> QED
      BY <1>6, <1>7, <2>1, Zenon DEF MemInv, Fits
<1> QED
    BY <1>3, <1>4, <1>9

(* The new state directory is good and keeps the marks.                    *)
LEMMA WorksKeepsCatalog ==
    ASSUME IInv, NEW p \in Proc, NEW t, NEW s, MayWork(p), Works(p, t, s),
           s = "save" => /\ GoodDir(IF t = "upgrade" THEN 5 ELSE version, tmp'[p])
                         /\ MarksKept(Catalogs)'
    PROVE  CatalogInv'
<1>1. Catalogs' = Catalogs /\ GoodDir(version, dir')
    BY SteadyFacts DEF MayWork, Works
<1>2. lock' = p /\ here' = s /\ doing' = t
    BY DEF Works, Moves
<1>3. version' = version /\ s \notin {"swap", "config"}
    BY DEF Works, Steady
<1>4. NewVersion' = IF t = "upgrade" THEN 5 ELSE version
    BY <1>2, <1>3 DEF NewVersion
<1>5. GoodDir(version, dir)' /\ (s = "save" => GoodDir(NewVersion, tmp[lock])')
    BY <1>1, <1>2, <1>3, <1>4 DEF GoodDir
<1> QED
    BY <1>1, <1>2, <1>3, <1>4, <1>5 DEF CatalogInv

(* The files and manifests while an operation does not touch them.         *)
LEMMA WorksKeepsFiles ==
    ASSUME IInv, NEW p \in Proc, NEW t, NEW s, MayWork(p), Works(p, t, s),
           files' = files, manifests' = manifests,
           here \in {"rest", "refresh", "decide", "build"},
           t # "execute", t # "unset" => doing # "unset",
           s = "save" => NewCatalogs'.inst = Catalogs.inst
    PROVE  FilesInv'
<1> SUFFICES ASSUME ~cut', ~torn' PROVE FilesInv'
    BY DEF FilesInv
<1>1. Catalogs' = Catalogs
    BY SteadyFacts DEF MayWork, Works
<1>2. /\ lock' = p /\ here' = s /\ doing' = t /\ pc'[p] = s
      /\ \A q \in Proc \ {p} : pc'[q] = pc[q] /\ mem'[q] = mem[q]
    BY DEF Works, Moves
<1>3. s \in Working \ {"swap", "avoid", "config"} /\ StepOf(t, s) /\ ~cut /\ ~torn
    BY DEF Works, Steady
<1>4. ~Changing
    BY DEF Changing
<1>5. /\ Recorded(Catalogs)
      /\ \A q \in Proc : /\ pc[q] = "planned" /\ mem[q] # StalePlan /\ mem[q].add # None
                         /\ doing # "unset"
                         => mem[q].add \in manifests
    BY <1>3, <1>4 DEF IInv, FilesInv
<1>6. Recorded(Catalogs)' /\ (s = "save" => Recorded(NewCatalogs)')
    BY <1>1, <1>5 DEF Recorded
<1>7. \A q \in Proc : /\ pc'[q] = "planned" /\ mem'[q] # StalePlan /\ mem'[q].add # None
                      /\ doing' # "unset"
                      => mem'[q].add \in manifests'
    BY <1>2, <1>3, <1>5 DEF Working
<1>8. s \notin {"execute", "state", "swap", "config"}
    BY <1>3 DEF StepOf
<1> QED
    BY <1>2, <1>6, <1>7, <1>8 DEF FilesInv

(* An operation that ends without another state directory.                 *)
Stops(p) ==
    /\ Ends(p) /\ Steady /\ UNCHANGED <<avail, pub, manifests, files>>
    /\ \A q \in Proc \ {p} : mem'[q] = mem[q]
    /\ DOMAIN mem' = Proc /\ DOMAIN tmp' = Proc
(* It leaves everything in order.                                          *)
LEMMA StopsKeeps ==
    ASSUME IInv, NEW p \in Proc, ~cut, lock \in {p, None}, here \in {"rest", "decide", "avoid"},
           \A q \in Proc \ {p} : pc[q] # "ready", Stops(p)
    PROVE  IInv'
<1>1. Catalogs' = Catalogs /\ GoodDir(version, dir')
    BY SteadyFacts DEF Stops
<1>2. /\ lock' = None /\ here' = "rest" /\ doing' = "none" /\ pc'[p] = "none"
      /\ \A q \in Proc \ {p} : pc'[q] = pc[q] /\ mem'[q] = mem[q]
      /\ version' = version /\ cut' = cut /\ torn' = torn
      /\ manifests' = manifests /\ files' = files
    BY DEF Stops, Ends, Steady
<1>3. TypeInv'
    BY <1>2 DEF IInv, TypeInv, Stops, Ends
<1>4. LockInv'
    BY <1>2, EndsKeepsLock DEF IInv, Stops
<1>5. DirInv'
    BY <1>2 DEF DirInv, Stops, Steady
<1>6. MemInv'
  <2>1. ASSUME NEW q \in Proc, pc'[q] = "ready" PROVE FALSE
      BY <1>2, <2>1
  <2>2. ASSUME NEW q \in Proc, pc'[q] = "planned", mem'[q] # StalePlan
        PROVE  /\ mem'[q] \in Planned /\ mem'[q].ver = version'
               /\ Fits(mem'[q], Catalogs')
    <3>1. q # p /\ pc[q] = "planned" /\ mem'[q] = mem[q]
        BY <1>2, <2>2
    <3>2. mem[q] \in Planned /\ mem[q].ver = version /\ Fits(mem[q], Catalogs)
        BY <2>2, <3>1 DEF IInv, MemInv
    <3> QED
        BY <1>1, <1>2, <3>1, <3>2
  <2> QED
      BY <1>2, <2>1, <2>2, Zenon DEF MemInv, Fits
<1>7. CatalogInv'
    BY <1>1, <1>2 DEF CatalogInv, GoodDir
<1>8. FilesInv'
  <2>1. ~Changing /\ doing # "unset"
      BY DEF IInv, LockInv, Changing, StepOf
  <2>2. ASSUME ~cut', ~torn'
        PROVE  /\ Recorded(Catalogs)
               /\ \A q \in Proc : /\ pc[q] = "planned" /\ mem[q] # StalePlan /\ mem[q].add # None
                                  => mem[q].add \in manifests
      BY <1>2, <2>1, <2>2 DEF IInv, FilesInv
  <2>3. ASSUME ~cut', ~torn'
        PROVE  /\ Recorded(Catalogs)'
               /\ \A q \in Proc :
                    /\ pc'[q] = "planned" /\ mem'[q] # StalePlan /\ mem'[q].add # None
                    => mem'[q].add \in manifests'
      BY <1>1, <1>2, <2>2, <2>3 DEF Recorded
  <2> QED
      BY <1>2, <2>3 DEF FilesInv
<1> QED
    BY <1>3, <1>4, <1>5, <1>6, <1>7, <1>8 DEF IInv

(* Types are kept by such a step.                                          *)
LEMMA WorksKeepsType ==
    ASSUME IInv, NEW p \in Proc, NEW t, NEW s, Works(p, t, s),
           avail' \subseteq Pkg, pub' \subseteq Pkg, manifests' \subseteq Pkg, files' \subseteq Pkg
    PROVE  TypeInv'
    BY DEF IInv, TypeInv, Works, Moves, Steady

(* Such a step that prepares no state directory.                           *)
LEMMA WorksKeeps ==
    ASSUME IInv, NEW p \in Proc, NEW t, NEW s, MayWork(p), Works(p, t, s), s # "save",
           avail' \subseteq Pkg, pub' \subseteq Pkg, files' = files, manifests' = manifests,
           here \in {"rest", "refresh", "decide", "build"}, t # "execute",
           t # "unset" => doing # "unset"
    PROVE  IInv'
<1>1. LockInv' /\ DirInv' /\ MemInv'
    BY WorksKeepsMem
<1>2. CatalogInv'
    BY WorksKeepsCatalog
<1>3. FilesInv'
    BY WorksKeepsFiles
<1>4. TypeInv'
    BY WorksKeepsType DEF IInv, TypeInv
<1> QED
    BY <1>1, <1>2, <1>3, <1>4 DEF IInv

(* What a process that is about to take the lock, or works, may rely on.   *)
Poised(p) ==
    /\ MayWork(p) /\ here = "rest" /\ doing = "none" /\ lock = None
    /\ dir \in DirType /\ Catalogs \in CatType /\ Good(Catalogs) /\ dir.db = Catalogs
    /\ mem[p] \in Loaded /\ mem[p].ver = version /\ mem[p].icat = Catalogs
    /\ version \in {4, 5}
(* A process that has started can rely on that.                            *)
LEMMA ReadyFacts ==
    ASSUME IInv, NEW p \in Proc, pc[p] = "ready" PROVE Poised(p)
<1>1. /\ lock = None /\ here = "rest" /\ doing = "none" /\ ~cut
      /\ \A q \in Proc \ {p} : pc[q] \in {"none", "planned"}
    BY AloneReady DEF IInv
<1>2. dir \in DirType /\ GoodDir(version, dir) /\ version \in {4, 5}
    BY <1>1 DEF IInv, DirInv, CatalogInv, TypeInv
<1>3. Catalogs \in CatType /\ Good(Catalogs) /\ dir.db = Catalogs
    BY <1>2 DEF Catalogs, Store, DirType, GoodDir
<1>4. mem[p] \in Loaded /\ mem[p].ver = version /\ mem[p].icat = Catalogs
    BY DEF IInv, MemInv
<1> QED
    BY <1>1, <1>2, <1>3, <1>4 DEF MayWork, Poised

Busy(p) ==
    /\ MayWork(p) /\ here = pc[p] /\ doing = task[p] /\ lock = p /\ doing \in Tasks
    /\ dir \in DirType /\ Catalogs \in CatType /\ Good(Catalogs) /\ dir.db = Catalogs
    /\ MemFits(mem[p], Catalogs, doing, here) /\ StepOf(doing, here)
    /\ version \in {4, 5} /\ (doing = "upgrade" => version = 4)
(* So can the holder of the lock, before the directories are swapped.      *)
LEMMA BusyFacts ==
    ASSUME IInv, NEW p \in Proc, pc[p] \in Working \ {"swap", "avoid", "config"}
    PROVE  Busy(p)
<1>1. /\ lock = p /\ here = pc[p] /\ doing = task[p] /\ doing \in Tasks /\ ~cut
      /\ \A q \in Proc \ {p} : pc[q] \in {"none", "planned"}
    BY Alone DEF IInv
<1>2. dir \in DirType /\ GoodDir(version, dir) /\ version \in {4, 5}
    BY <1>1 DEF IInv, DirInv, CatalogInv, TypeInv
<1>3. Catalogs \in CatType /\ Good(Catalogs) /\ dir.db = Catalogs
    BY <1>2 DEF Catalogs, Store, DirType, GoodDir
<1>4. MemFits(mem[p], Catalogs, doing, here)
    BY <1>1 DEF IInv, MemInv, MemFits, Tasks
<1>5. StepOf(doing, here) /\ (doing = "upgrade" => version = 4)
    BY DEF IInv, LockInv
<1> QED
    BY <1>1, <1>2, <1>3, <1>4, <1>5 DEF MayWork, Busy

-----------------------------------------------------------------------------
(* The steps of a refresh.                                                 *)
LEMMA StartStateUpdateStep ==
    ASSUME IInv, NEW p \in Proc, StartStateUpdate(p) PROVE IInv'
<1>1. Moves(p, "refresh", "refresh") /\ pc[p] = "ready"
    BY LockedMoves DEF IInv, StartStateUpdate, Working, Tasks
<1>2. Poised(p)
    BY <1>1, ReadyFacts
<1>3. Steady
    BY <1>2 DEF StartStateUpdate, Steady, Poised, DirType, history
<1>4. /\ mem'[p] = [ver |-> mem[p].ver, icat |-> mem[p].icat, updated |-> dir.flag,
                    origins |-> FALSE]
      /\ \A q \in Proc \ {p} : mem'[q] = mem[q]
      /\ DOMAIN mem' = Proc /\ DOMAIN tmp' = Proc
    BY DEF IInv, TypeInv, StartStateUpdate
<1>5. MemFits(mem'[p], Catalogs, "refresh", "refresh")
    BY <1>2, <1>4 DEF MemFits, Poised, Loaded, Refreshing, DirType
<1>6. Works(p, "refresh", "refresh")
    BY <1>1, <1>3, <1>4, <1>5 DEF Works, Working, Tasks, StepOf
<1> QED
    BY <1>2, <1>6, WorksKeeps DEF IInv, TypeInv, Poised, StartStateUpdate

(* Publisher.refresh() of an origin.                                       *)
LEMMA RefreshOriginStep ==
    ASSUME IInv, NEW p \in Proc, NEW ks \in SUBSET Pkg, RefreshOrigin(p, ks) PROVE IInv'
<1>1. Busy(p) /\ here = "refresh" /\ doing = "refresh"
    BY BusyFacts DEF RefreshOrigin, Working, Busy, StepOf
<1>2. Moves(p, "refresh", "refresh")
    BY <1>1 DEF IInv, TypeInv, RefreshOrigin, Moves, Busy, here, doing
<1>3. Steady
    BY <1>1 DEF RefreshOrigin, Steady, Busy, history
<1>4. /\ mem'[p] = [mem[p] EXCEPT !.origins = TRUE]
      /\ \A q \in Proc \ {p} : mem'[q] = mem[q]
      /\ DOMAIN mem' = Proc /\ DOMAIN tmp' = Proc
    BY DEF IInv, TypeInv, RefreshOrigin
<1>5. MemFits(mem'[p], Catalogs, "refresh", "refresh")
    BY <1>1, <1>4 DEF MemFits, Busy, Refreshing
<1>6. Works(p, "refresh", "refresh")
    BY <1>1, <1>2, <1>3, <1>4, <1>5 DEF Works, Working, Tasks, StepOf
<1> QED
    BY <1>1, <1>6, WorksKeeps DEF IInv, TypeInv, Busy, RefreshOrigin

(* Publisher.refresh() of the composed catalog.                            *)
LEMMA RefreshPublisherStep ==
    ASSUME IInv, NEW p \in Proc, RefreshPublisher(p) PROVE IInv'
<1>1. Busy(p) /\ here = "refresh" /\ doing = "refresh" /\ task[p] = "refresh"
    BY BusyFacts DEF RefreshPublisher, Working, Busy, StepOf
<1>2. Moves(p, "refresh", "decide")
    BY <1>1, GotoMoves DEF IInv, RefreshPublisher, Working
<1>3. Steady
    BY <1>1 DEF RefreshPublisher, Steady, Busy, history
<1>4. /\ mem'[p] = [mem[p] EXCEPT !.updated = @ \/ mem[p].origins]
      /\ \A q \in Proc \ {p} : mem'[q] = mem[q]
      /\ DOMAIN mem' = Proc /\ DOMAIN tmp' = Proc
    BY DEF IInv, TypeInv, RefreshPublisher
<1>5. MemFits(mem'[p], Catalogs, "refresh", "decide")
    BY <1>1, <1>4 DEF MemFits, Busy, Refreshing
<1>6. Works(p, "refresh", "decide")
    BY <1>1, <1>2, <1>3, <1>4, <1>5 DEF Works, Working, Tasks, StepOf
<1> QED
    BY <1>1, <1>6, WorksKeeps DEF IInv, TypeInv, Busy, RefreshPublisher

(* A refresh that raises.                                                  *)
LEMMA RefreshFailsStep ==
    ASSUME IInv, NEW p \in Proc, RefreshFails(p) PROVE IInv'
<1>1. Busy(p) /\ here = "refresh" /\ doing = "refresh" /\ task[p] = "refresh"
    BY BusyFacts DEF RefreshFails, Working, Busy, StepOf
<1>2. Moves(p, "refresh", "decide")
    BY <1>1, GotoMoves DEF IInv, RefreshFails, Working
<1>3. Steady
    BY <1>1 DEF RefreshFails, Steady, Busy, history, disk
<1>4. mem' = mem /\ DOMAIN mem' = Proc /\ DOMAIN tmp' = Proc
    BY DEF IInv, TypeInv, RefreshFails
<1>5. MemFits(mem'[p], Catalogs, "refresh", "decide")
    BY <1>1, <1>4 DEF MemFits, Busy, Refreshing
<1>6. Works(p, "refresh", "decide")
    BY <1>1, <1>2, <1>3, <1>4, <1>5 DEF Works, Working, Tasks, StepOf
<1> QED
    BY <1>1, <1>6, WorksKeeps DEF IInv, TypeInv, Busy, RefreshFails, disk

(* A refresh that found changes.                                           *)
LEMMA NeedsRebuildStep ==
    ASSUME IInv, NEW p \in Proc, NeedsRebuild(p) PROVE IInv'
<1>1. Busy(p) /\ here = "decide" /\ doing = "refresh" /\ task[p] = "refresh"
    BY BusyFacts DEF NeedsRebuild, Working, Busy, StepOf
<1>2. Moves(p, "refresh", "build")
    BY <1>1, GotoMoves DEF IInv, NeedsRebuild, Working
<1>3. Steady
    BY <1>1 DEF NeedsRebuild, Steady, Busy, history, disk
<1>4. mem' = mem /\ DOMAIN mem' = Proc /\ DOMAIN tmp' = Proc
    BY DEF IInv, TypeInv, NeedsRebuild
<1>5. MemFits(mem'[p], Catalogs, "refresh", "build")
    BY <1>1, <1>4 DEF MemFits, Busy, Refreshing
<1>6. Works(p, "refresh", "build")
    BY <1>1, <1>2, <1>3, <1>4, <1>5 DEF Works, Working, Tasks, StepOf
<1> QED
    BY <1>1, <1>6, WorksKeeps DEF IInv, TypeInv, Busy, NeedsRebuild, disk

(* A refresh that found none.                                              *)
LEMMA EndStateUpdateStep ==
    ASSUME IInv, NEW p \in Proc, EndStateUpdate(p) PROVE IInv'
<1>1. Busy(p) /\ here = "decide"
    BY BusyFacts DEF EndStateUpdate, Working, Busy
<1>2. Steady
    BY <1>1 DEF EndStateUpdate, Steady, Busy, DirType, history
<1>3. Stops(p)
    BY <1>2, ExitEnds DEF IInv, EndStateUpdate, Stops
<1> QED
    BY <1>1, <1>3, StopsKeeps DEF Busy, MayWork

-----------------------------------------------------------------------------
(* The steps that prepare a new state directory.                           *)
LEMMA SavedKeepsCatalog ==
    ASSUME IInv, NEW p \in Proc, NEW t, MayWork(p), Works(p, t, "save"), t # "upgrade",
           NEW d \in DirType, NEW new \in CatType, Good(new),
           tmp'[p] = Saved(d, version, new),
           t # "flag" =>
               \A k \in Having(Catalogs, "manual") :
                   \/ k \in Having(new, "manual")
                   \/ t = "execute" /\ mem'[p].rem = k /\
                      (mem'[p].add # None => mem'[p].add \in Having(new, "manual"))
    PROVE  CatalogInv' /\ NewCatalogs' = new
<1>1. /\ Catalogs' = Catalogs /\ lock' = p /\ doing' = t /\ version' = version
    BY SteadyFacts DEF MayWork, Works, Moves, Steady
<1>2. version \in {4, 5}
    BY DEF IInv, TypeInv
<1>3. GoodDir(version, tmp'[p]) /\ Store(version, tmp'[p]) = new
    BY <1>2, SavedFacts
<1>4. NewCatalogs' = new
    BY <1>1, <1>3 DEF NewCatalogs, NewVersion
<1>5. MarksKept(Catalogs)'
    BY <1>1, <1>4 DEF MarksKept, Having
<1> QED
    BY <1>3, <1>4, <1>5, WorksKeepsCatalog

(* __rebuild_image_catalogs().                                             *)
LEMMA RebuildStep ==
    ASSUME IInv, NEW p \in Proc, RebuildImageCatalogs(p) PROVE IInv'
<1> DEFINE new == Rebuilt(mem[p].icat, dir.frozen)
           d == [dir EXCEPT !.flag = FALSE]
<1>1. /\ Busy(p) /\ here = "build" /\ task[p] = doing
      /\ doing \in {"refresh", "freeze", "unset"}
    BY BusyFacts DEF RebuildImageCatalogs, Working, Busy, StepOf
<1>2. Moves(p, doing, "save")
    BY <1>1, GotoMoves DEF IInv, RebuildImageCatalogs, Working
<1>3. Steady /\ mem' = mem
    BY <1>1 DEF RebuildImageCatalogs, Steady, Busy, history, disk
<1>4. mem[p].icat = Catalogs /\ mem[p].ver = version
    BY <1>1 DEF Busy, MemFits
<1>5. pub \subseteq Pkg
    BY DEF IInv, TypeInv
<1>6. /\ new \in CatType /\ Good(new) /\ new.inst = Catalogs.inst
      /\ Having(Catalogs, "manual") \subseteq Having(new, "manual")
    BY <1>1, <1>4, <1>5, RebuiltFacts DEF Busy
<1> HIDE DEF new
<1>7. d \in DirType
    BY <1>1 DEF Busy, DirType
<1>8. /\ tmp'[p] = [dir EXCEPT !.json = IF mem[p].ver = 4 THEN new ELSE NoRows,
                               !.db = new, !.fresh = TRUE, !.flag = FALSE]
      /\ DOMAIN mem' = Proc /\ DOMAIN tmp' = Proc
    BY DEF IInv, TypeInv, RebuildImageCatalogs, new
<1>9. tmp'[p] = Saved(d, version, new)
    BY <1>1, <1>4, <1>8 DEF Saved, Busy, DirType
<1>10. Saved(d, version, new) \in DirType
    BY <1>1, <1>6, <1>7, SavedFacts DEF Busy
<1> HIDE DEF d
<1>11. MemFits(mem'[p], Catalogs, doing, "save")
    BY <1>1, <1>3 DEF MemFits, Busy
<1>12. Works(p, doing, "save")
    BY <1>1, <1>2, <1>3, <1>8, <1>9, <1>10, <1>11 DEF Works, Working, StepOf, Busy
<1>13. CatalogInv' /\ NewCatalogs' = new
    BY <1>1, <1>6, <1>7, <1>9, <1>12, SavedKeepsCatalog DEF Busy
<1>14. LockInv' /\ DirInv' /\ MemInv'
    BY <1>1, <1>12, WorksKeepsMem DEF Busy
<1>15. FilesInv'
    BY <1>1, <1>6, <1>12, <1>13, WorksKeepsFiles DEF Busy, RebuildImageCatalogs, disk
<1>16. TypeInv'
    BY <1>12, WorksKeepsType DEF IInv, TypeInv, RebuildImageCatalogs, disk
<1> QED
    BY <1>13, <1>14, <1>15, <1>16 DEF IInv

(* freeze_pkgs() and unfreeze_pkgs().                                      *)
LEMMA FreezeStep ==
    ASSUME IInv, NEW p \in Proc, NEW k \in Freezable, Freeze(p, k) PROVE IInv'
<1>1. Moves(p, "freeze", "build") /\ pc[p] = "ready"
    BY LockedMoves DEF IInv, Freeze, Working, Tasks
<1>2. Poised(p)
    BY <1>1, ReadyFacts
<1>3. Steady
    BY <1>2, SubsetsAssumption DEF Freeze, Steady, Poised, DirType, history
<1>4. mem' = mem /\ DOMAIN mem' = Proc /\ DOMAIN tmp' = Proc
    BY DEF IInv, TypeInv, Freeze
<1>5. MemFits(mem'[p], Catalogs, "freeze", "build")
    BY <1>2, <1>4 DEF MemFits, Poised
<1>6. Works(p, "freeze", "build")
    BY <1>1, <1>3, <1>4, <1>5 DEF Works, Working, Tasks, StepOf
<1> QED
    BY <1>2, <1>6, WorksKeeps DEF IInv, TypeInv, Poised, Freeze

(* remove_publisher(): manifests of installed packages stay.               *)
LEMMA RemovePublisherStep ==
    ASSUME IInv, NEW p \in Proc, RemovePublisher(p) PROVE IInv'
<1>1. Moves(p, "unset", "build") /\ pc[p] = "ready"
    BY LockedMoves DEF IInv, RemovePublisher, Working, Tasks
<1>2. Poised(p)
    BY <1>1, ReadyFacts
<1>3. Steady
    BY <1>2 DEF RemovePublisher, Steady, Poised, history
<1>4. mem' = mem /\ DOMAIN mem' = Proc /\ DOMAIN tmp' = Proc
    BY DEF IInv, TypeInv, RemovePublisher
<1>5. MemFits(mem'[p], Catalogs, "unset", "build")
    BY <1>2, <1>4 DEF MemFits, Poised
<1>6. Works(p, "unset", "build")
    BY <1>1, <1>3, <1>4, <1>5 DEF Works, Working, Tasks, StepOf
<1>7. LockInv' /\ DirInv' /\ MemInv'
    BY <1>2, <1>6, WorksKeepsMem DEF Poised
<1>8. CatalogInv'
    BY <1>2, <1>6, WorksKeepsCatalog DEF Poised
<1>9. FilesInv'
  <2>1. /\ Catalogs' = Catalogs /\ here' = "build" /\ doing' = "unset"
        /\ cut' = cut /\ torn' = torn
      BY <1>2, <1>6, SteadyFacts DEF Poised, MayWork, Works, Moves, Steady
  <2>2. manifests' = manifests \cap Catalogs.inst /\ files' = files
      BY <1>2 DEF RemovePublisher, Poised
  <2>3. ~cut /\ ~torn => Recorded(Catalogs)
      BY <1>2 DEF IInv, FilesInv, Changing, Poised
  <2>4. ~cut /\ ~torn => Recorded(Catalogs)'
      BY <2>1, <2>2, <2>3 DEF Recorded
  <2> QED
      BY <2>1, <2>4 DEF FilesInv
<1>10. TypeInv'
    BY <1>6, WorksKeepsType DEF IInv, TypeInv, RemovePublisher
<1> QED
    BY <1>7, <1>8, <1>9, <1>10 DEF IInv

(* flag_pkgs().                                                            *)
LEMMA FlagPkgsStep ==
    ASSUME IInv, NEW p \in Proc, NEW k \in Pkg, FlagPkgs(p, k) PROVE IInv'
<1> DEFINE new == Toggled(Catalogs, k)
<1>1. Moves(p, "flag", "save") /\ pc[p] = "ready"
    BY LockedMoves DEF IInv, FlagPkgs, Working, Tasks
<1>2. Poised(p)
    BY <1>1, ReadyFacts
<1>3. Steady /\ mem' = mem /\ files' = files /\ manifests' = manifests
    BY <1>2 DEF FlagPkgs, Steady, Poised, history, disk
<1>4. Store(mem[p].ver, dir) = Catalogs /\ mem[p].icat.inst = Catalogs.inst
    BY <1>2 DEF Poised, Catalogs
<1>5. k \in Catalogs.inst
    BY <1>2, <1>4 DEF FlagPkgs, Poised, Good, Having
<1>6. /\ new \in CatType /\ Good(new) /\ new.inst = Catalogs.inst
      /\ Sync(Catalogs, new, {k}) = new
    BY <1>2, <1>5, ToggledFacts DEF Poised
<1>7. new = [Catalogs EXCEPT !.rows[k] = IF "manual" \in @ THEN @ \ {"manual"} ELSE @ \cup {"manual"},
                             !.inst = mem[p].icat.inst]
  <2>1. Catalogs = [rows |-> Catalogs.rows, inst |-> Catalogs.inst]
      BY <1>2, CatElim DEF Poised
  <2> QED
      BY <1>4, <2>1 DEF Toggled
<1>8. CatalogSave(p, new, {k})
    BY <1>4, <1>7 DEF FlagPkgs
<1> HIDE DEF new
<1>9. tmp'[p] = Saved(dir, version, new) /\ DOMAIN tmp' = Proc /\ DOMAIN mem' = Proc
    BY <1>2, <1>3, <1>6, <1>8 DEF CatalogSave, Saved, Poised, IInv, TypeInv
<1>10. Saved(dir, version, new) \in DirType
    BY <1>2, <1>6, SavedFacts DEF Poised
<1>11. MemFits(mem'[p], Catalogs, "flag", "save")
    BY <1>2, <1>3 DEF MemFits, Poised
<1>12. Works(p, "flag", "save")
    BY <1>1, <1>3, <1>9, <1>10, <1>11 DEF Works, Working, StepOf, Tasks
<1>13. CatalogInv' /\ NewCatalogs' = new
    BY <1>2, <1>6, <1>9, <1>12, SavedKeepsCatalog DEF Poised
<1>14. LockInv' /\ DirInv' /\ MemInv'
    BY <1>2, <1>12, WorksKeepsMem DEF Poised
<1>15. FilesInv'
    BY <1>2, <1>3, <1>6, <1>12, <1>13, WorksKeepsFiles DEF Poised
<1>16. TypeInv'
    BY <1>12, WorksKeepsType DEF IInv, TypeInv, FlagPkgs, disk
<1> QED
    BY <1>13, <1>14, <1>15, <1>16 DEF IInv

-----------------------------------------------------------------------------
(* A process starts, makes its plan, leaves or dies beside the operation   *)
(* that may be under way.                                                  *)
Aside(p, s) ==
    /\ pc' = [pc EXCEPT ![p] = s] /\ UNCHANGED <<lock, task, cut, torn>>
    /\ UNCHANGED <<version, dir, salvaged, avail, pub, files>>
    /\ manifests \subseteq manifests' /\ manifests' \subseteq Pkg
    /\ DOMAIN mem' = Proc /\ DOMAIN tmp' = Proc
    /\ \A q \in Proc \ {p} : mem'[q] = mem[q] /\ tmp'[q] = tmp[q]
(* Such a step keeps the invariant.                                        *)
LEMMA AsideKeeps ==
    ASSUME IInv, NEW p \in Proc, pc[p] \in {"none", "ready", "planned"},
           NEW s \in {"none", "ready", "planned"}, Aside(p, s),
           s = "ready" =>
               /\ lock = None /\ ~cut /\ \A q \in Proc : pc[q] # "ready"
               /\ mem'[p] \in Loaded /\ mem'[p].ver = version /\ mem'[p].icat = Catalogs,
           s = "planned" =>
               /\ lock = None
               /\ mem'[p] \in Planned /\ mem'[p].ver = version /\ Fits(mem'[p], Catalogs)
               /\ mem'[p].add # None => mem'[p].add \in manifests'
    PROVE  IInv'
<1>1. /\ lock # p /\ pc'[p] = s /\ \A q \in Proc \ {p} : pc'[q] = pc[q] /\ mem'[q] = mem[q]
      /\ pc \in [Proc -> {"none", "ready", "planned"} \cup Working] /\ lock \in Proc \cup {None}
      /\ pc' \in [Proc -> {"none", "ready", "planned"} \cup Working]
    BY DEF IInv, LockInv, TypeInv, Aside, Working
<1>2. here' = here /\ doing' = doing
    BY <1>1 DEF Aside, here, doing
<1>3. /\ lock' = lock /\ task' = task /\ cut' = cut /\ torn' = torn
      /\ version' = version /\ dir' = dir /\ salvaged' = salvaged
      /\ avail' = avail /\ pub' = pub /\ files' = files
    BY DEF Aside
<1>4. /\ Catalogs' = Catalogs /\ NewVersion' = NewVersion /\ Changing' = Changing
    BY <1>2, <1>3 DEF Catalogs, NewVersion, Changing
<1>5. lock # None => mem'[lock] = mem[lock] /\ tmp'[lock] = tmp[lock]
                     /\ NewCatalogs' = NewCatalogs
    BY <1>1, <1>3, <1>4 DEF Aside, NewCatalogs
<1>6. TypeInv'
    BY <1>1, <1>3 DEF IInv, TypeInv, Aside
<1>7. LockInv'
  <2>1. \A q \in Proc : /\ pc'[q] \in Working <=> lock = q
                        /\ pc'[q] = "ready" => lock = None /\ ~cut
      BY <1>1 DEF IInv, LockInv, Working
  <2>2. \A q, r \in Proc : pc'[q] = "ready" /\ pc'[r] = "ready" => q = r
      BY <1>1 DEF IInv, LockInv
  <2> QED
      BY <1>2, <1>3, <2>1, <2>2 DEF IInv, LockInv
<1>8. DirInv'
    BY <1>2, <1>3 DEF IInv, DirInv
<1>9. here # "rest" => lock # None
    BY DEF here
<1>10. doing # "none" => lock # None
    BY DEF doing
<1>11. MemInv'
  <2>1. \A q \in Proc : pc'[q] = "ready" =>
            mem'[q] \in Loaded /\ mem'[q].ver = version /\ mem'[q].icat = Catalogs
      BY <1>1 DEF IInv, MemInv
  <2>2. ASSUME NEW q \in Proc, pc'[q] = "planned", mem'[q] # StalePlan
        PROVE  /\ mem'[q] \in Planned /\ mem'[q].ver = version
               /\ here \notin {"avoid", "config"}
               /\ ~cut /\ here # "swap" => Fits(mem'[q], Catalogs)
    <3>1. CASE q = p
        BY <1>1, <1>9, <2>2, <3>1
    <3>2. CASE q # p
        BY <1>1, <2>2, <3>2 DEF IInv, MemInv
    <3> QED
        BY <3>1, <3>2
  <2>3. /\ doing \in {"freeze", "unset", "flag", "upgrade"} => mem'[lock] \in Loaded
        /\ doing = "refresh" => mem'[lock] \in Refreshing
        /\ doing = "execute" => mem'[lock] \in Planned
        /\ doing # "none" => mem'[lock].ver = version
        /\ here \in {"refresh", "decide", "build"} => mem'[lock].icat = Catalogs
        /\ here \in {"execute", "state"} => Fits(mem'[lock], Catalogs)
        /\ here \in {"save", "swap"} => tmp'[lock] \in DirType
      BY <1>5, <1>9, <1>10 DEF IInv, MemInv
  <2> QED
      BY <1>2, <1>3, <1>4, <2>1, <2>2, <2>3 DEF MemInv, Fits
<1>12. CatalogInv'
  <2>1. /\ ~cut /\ here \notin {"swap", "config"} => GoodDir(version, dir)
        /\ here = "config" => GoodDir(5, dir)
        /\ here \in {"save", "swap"} => GoodDir(NewVersion, tmp[lock])
        /\ here = "save" => MarksKept(Catalogs)
        /\ here = "swap" => MarksKept(Store(version, salvaged))
      BY DEF IInv, CatalogInv
  <2>2. /\ here = "save" => MarksKept(Catalogs)'
        /\ here = "swap" => MarksKept(Store(version, salvaged))'
      BY <1>2, <1>3, <1>4, <1>5, <1>9, <1>10, <2>1 DEF MarksKept, Having, Store
  <2>3. GoodDir(version, dir)' = GoodDir(version, dir) /\ GoodDir(5, dir)' = GoodDir(5, dir)
        /\ lock # None => GoodDir(NewVersion, tmp[lock])' = GoodDir(NewVersion, tmp[lock])
      BY <1>3, <1>4, <1>5, Zenon DEF GoodDir, Good, Having, Store
  <2> QED
      BY <1>2, <1>3, <1>9, <2>1, <2>2, <2>3 DEF CatalogInv
<1>13. FilesInv'
  <2> SUFFICES ASSUME ~cut, ~torn PROVE FilesInv'
      BY <1>3 DEF FilesInv
  <2>1. \A q \in Proc : pc'[q] = "planned" /\ mem'[q] # StalePlan /\ mem'[q].add # None
                           /\ ~Changing /\ doing # "unset" => mem'[q].add \in manifests'
      BY <1>1 DEF IInv, FilesInv, Aside
  <2>2. /\ ~Changing /\ here \notin {"swap", "config"} => Recorded(Catalogs)
        /\ here = "execute" /\ mem'[lock].add # None => mem'[lock].add \in manifests'
        /\ here = "state" =>
               /\ files = (Catalogs.inst \ {mem'[lock].rem}) \cup ({mem'[lock].add} \ {None})
               /\ files \subseteq manifests'
        /\ here \in {"save", "swap"} => Recorded(NewCatalogs)
        /\ here = "config" => Recorded(dir.db)
      BY <1>5, <1>9 DEF IInv, FilesInv, Aside
  <2>3. /\ ~Changing /\ here \notin {"swap", "config"} => Recorded(Catalogs)'
        /\ here \in {"save", "swap"} => Recorded(NewCatalogs)'
        /\ here = "config" => Recorded(dir.db)'
      BY <1>3, <1>4, <1>5, <1>9, <2>2 DEF Recorded, Aside
  <2> QED
      BY <1>2, <1>3, <1>4, <2>1, <2>2, <2>3 DEF FilesInv
<1> QED
    BY <1>6, <1>7, <1>8, <1>11, <1>12, <1>13 DEF IInv

(* Image(): what is loaded is current, because nothing is under way.       *)
LEMMA StartStep ==
    ASSUME IInv, Exclusive, NEW p \in Proc, Start(p) PROVE IInv'
<1>1. /\ lock = None /\ ~cut /\ (\A q \in Proc : pc[q] # "ready") /\ pc[p] = "none"
      /\ mem' = [mem EXCEPT ![p] = [ver |-> version, icat |-> Catalogs, avoid |-> dir.avoid]]
    BY DEF Start, Undisturbed, Catalogs
<1>2. here = "rest"
    BY <1>1 DEF here
<1>3. dir \in DirType /\ version \in {4, 5} /\ Catalogs \in CatType
    BY <1>1, <1>2 DEF IInv, DirInv, TypeInv, Catalogs, Store, DirType
<1>4. mem'[p] \in Loaded /\ mem'[p].ver = version /\ mem'[p].icat = Catalogs
    BY <1>1, <1>3 DEF IInv, TypeInv, Loaded, DirType
<1>5. Aside(p, "ready")
    BY DEF Start, Aside, disk, history, IInv, TypeInv
<1> QED
    BY <1>1, <1>4, <1>5, AsideKeeps

(* A process that leaves.                                                  *)
LEMMA LeaveStep ==
    ASSUME IInv, NEW p \in Proc, Leave(p) PROVE IInv'
<1>1. Aside(p, "none") /\ pc[p] \in {"none", "ready", "planned"}
    BY DEF Leave, Aside, disk, history, IInv, TypeInv
<1> QED
    BY <1>1, AsideKeeps

(* A plan fits the catalogs it was made from.                              *)
LEMMA MakePlanStep ==
    ASSUME IInv, NEW p \in Proc, NEW add \in Pkg \cup {None}, NEW rem \in Pkg \cup {None},
           NEW manual \in BOOLEAN, MakePlan(p, add, rem, manual)
    PROVE  IInv'
<1>1. Poised(p) /\ pc[p] = "ready"
    BY ReadyFacts DEF MakePlan
<1>2. Store(mem[p].ver, dir) = Catalogs
    BY <1>1 DEF Poised, Catalogs
<1>3. mem'[p] = [ver |-> mem[p].ver, valid |-> TRUE, add |-> add, rem |-> rem,
                 manual |-> manual, avoid |-> mem[p].avoid \ {add}]
    BY DEF MakePlan, IInv, TypeInv
<1>4. mem'[p] \in Planned /\ mem'[p].ver = version /\ mem'[p].add = add /\ mem'[p].rem = rem
    BY <1>1, <1>3 DEF Poised, Loaded, Planned
<1>5. Fits(mem'[p], Catalogs)
    BY <1>2, <1>4 DEF MakePlan, Fits
<1>6. mem'[p].add # None => mem'[p].add \in manifests'
    BY <1>4 DEF MakePlan
<1>7. Aside(p, "planned")
    BY DEF MakePlan, Aside, history, IInv, TypeInv
<1> QED
    BY <1>1, <1>4, <1>5, <1>6, <1>7, AsideKeeps DEF Poised

(* avoid_pkgs() and unavoid_pkgs().                                        *)
LEMMA AvoidPkgsStep ==
    ASSUME IInv, NEW p \in Proc, NEW k \in Avoidable, AvoidPkgs(p, k) \/ UnavoidPkgs(p, k)
    PROVE  IInv'
<1>1. Poised(p)
    BY ReadyFacts DEF AvoidPkgs, UnavoidPkgs
<1>2. Steady
    BY <1>1, SubsetsAssumption
    DEF AvoidPkgs, UnavoidPkgs, Steady, Poised, DirType, Loaded, history
<1>3. Stops(p)
    BY <1>2, ExitEnds DEF IInv, AvoidPkgs, UnavoidPkgs, Stops
<1> QED
    BY <1>1, <1>3, StopsKeeps DEF Poised, MayWork

-----------------------------------------------------------------------------
(* The steps of the execution of a plan.                                   *)
LEMMA ExecuteStep ==
    ASSUME IInv, Exclusive, NEW p \in Proc, Execute(p) PROVE IInv'
<1>1. /\ pc[p] = "planned" /\ lock = None /\ ~cut /\ \A q \in Proc : pc[q] # "ready"
      /\ version' = version /\ dir' = dir /\ cut' = cut /\ torn' = torn
      /\ avail' = avail /\ pub' = pub /\ manifests' = manifests /\ files' = files
    BY DEF Execute, Undisturbed, disk, history
<1>2. here = "rest" /\ doing = "none"
    BY <1>1 DEF here, doing
<1>3. dir \in DirType /\ MayWork(p)
    BY <1>1, <1>2 DEF IInv, DirInv, MayWork
<1>4. Steady
    BY <1>1, <1>3 DEF Steady
<1>5. CASE mem[p].valid
  <2>1. mem[p] # StalePlan
      BY <1>5 DEF StalePlan
  <2>2. mem[p] \in Planned /\ mem[p].ver = version /\ Fits(mem[p], Catalogs)
      BY <1>1, <1>2, <2>1 DEF IInv, MemInv
  <2>3. /\ lock' = p /\ pc' = [pc EXCEPT ![p] = "execute"]
        /\ task' = [task EXCEPT ![p] = "execute"] /\ mem' = mem /\ tmp' = tmp
      BY <1>5 DEF Execute
  <2>4. Moves(p, "execute", "execute")
      BY <2>3, NoneAssumption DEF IInv, TypeInv, Moves, here, doing, Working, Tasks
  <2>5. MemFits(mem'[p], Catalogs, "execute", "execute")
      BY <2>2, <2>3 DEF MemFits
  <2>6. Works(p, "execute", "execute")
      BY <1>4, <2>3, <2>4, <2>5 DEF Works, Working, Tasks, StepOf, IInv, TypeInv
  <2>7. LockInv' /\ DirInv' /\ MemInv'
      BY <1>3, <2>6, WorksKeepsMem
  <2>8. CatalogInv'
      BY <1>3, <2>6, WorksKeepsCatalog
  <2>9. TypeInv'
      BY <1>1, <2>6, WorksKeepsType DEF IInv, TypeInv
  <2>10. FilesInv'
    <3> SUFFICES ASSUME ~torn PROVE FilesInv'
        BY <1>1 DEF FilesInv
    <3>1. /\ here' = "execute" /\ doing' = "execute" /\ lock' = p /\ Catalogs' = Catalogs
          /\ \A q \in Proc \ {p} : pc'[q] = pc[q]
        BY <1>1, <1>2, <1>4, <2>4, SteadyFacts DEF Moves
    <3>2. /\ Recorded(Catalogs)
          /\ \A q \in Proc : pc[q] = "planned" /\ mem[q] # StalePlan /\ mem[q].add # None
                             => mem[q].add \in manifests
        BY <1>1, <1>2 DEF IInv, FilesInv, Changing
    <3>3. Recorded(Catalogs)'
        BY <1>1, <3>1, <3>2 DEF Recorded
    <3>4. \A q \in Proc : pc'[q] = "planned" => q # p
        BY <2>4 DEF Moves
    <3> QED
        BY <1>1, <2>1, <2>3, <3>1, <3>2, <3>3, <3>4 DEF FilesInv
  <2> QED
      BY <2>7, <2>8, <2>9, <2>10 DEF IInv
<1>6. CASE ~mem[p].valid
  <2>1. Exit(p)
      BY <1>6 DEF Execute
  <2>2. Stops(p)
      BY <1>1, <1>4, <2>1, ExitEnds DEF IInv, Stops
  <2> QED
      BY <1>1, <1>2, <2>2, StopsKeeps
<1> QED
    BY <1>5, <1>6

(* The files change, the record does not yet.                              *)
LEMMA ExecuteActionsStep ==
    ASSUME IInv, NEW p \in Proc, ExecuteActions(p) PROVE IInv'
<1>1. Busy(p) /\ here = "execute" /\ doing = "execute" /\ task[p] = "execute"
    BY BusyFacts DEF ExecuteActions, Working, Busy, StepOf
<1>2. Moves(p, "execute", "state")
    BY <1>1, GotoMoves DEF IInv, ExecuteActions, Working
<1>3. Steady
    BY <1>1 DEF ExecuteActions, Steady, Busy, history
<1>4. mem' = mem /\ DOMAIN mem' = Proc /\ DOMAIN tmp' = Proc
    BY DEF IInv, TypeInv, ExecuteActions
<1>5. MemFits(mem[p], Catalogs, "execute", "state") /\ mem[p] \in Planned
    BY <1>1 DEF MemFits, Busy
<1>6. Works(p, "execute", "state")
    BY <1>2, <1>3, <1>4, <1>5 DEF Works, Working, Tasks, StepOf
<1>7. LockInv' /\ DirInv' /\ MemInv'
    BY <1>1, <1>6, WorksKeepsMem DEF Busy
<1>8. CatalogInv'
    BY <1>1, <1>6, WorksKeepsCatalog DEF Busy
<1>9. files' = (files \ {mem[p].rem}) \cup ({mem[p].add} \ {None}) /\ manifests' = manifests
    BY DEF ExecuteActions
<1>10. FilesInv'
  <2> SUFFICES ASSUME ~cut, ~torn PROVE FilesInv'
      BY <1>3 DEF FilesInv, Steady
  <2>1. here' = "state" /\ doing' = "execute" /\ lock' = p /\ Catalogs' = Catalogs
      BY <1>1, <1>2, <1>3, SteadyFacts DEF Moves
  <2>2. Recorded(Catalogs) /\ (mem[p].add # None => mem[p].add \in manifests)
      BY <1>1 DEF IInv, FilesInv, Changing, Busy
  <2>3. Changing'
      BY <2>1 DEF Changing
  <2>4. /\ files' = (Catalogs'.inst \ {mem'[lock'].rem}) \cup ({mem'[lock'].add} \ {None})
        /\ files' \subseteq manifests'
      BY <1>4, <1>9, <2>1, <2>2 DEF Recorded
  <2> QED
      BY <2>1, <2>3, <2>4 DEF FilesInv
<1>11. TypeInv'
    BY <1>5, <1>6, <1>9, WorksKeepsType DEF IInv, TypeInv, ExecuteActions, Planned
<1> QED
    BY <1>7, <1>8, <1>10, <1>11 DEF IInv

(* update_pkg_installed_state() makes the record of them.                  *)
LEMMA UpdatePkgInstalledStateStep ==
    ASSUME IInv, NEW p \in Proc, UpdatePkgInstalledState(p) PROVE IInv'
<1> DEFINE m == mem[p]
           new == Installed(Catalogs, m.add, m.rem, m.manual)
           ch == {m.add, m.rem} \ {None}
<1>1. Busy(p) /\ here = "state" /\ doing = "execute" /\ task[p] = "execute"
    BY BusyFacts DEF UpdatePkgInstalledState, Working, Busy, StepOf
<1>2. Moves(p, "execute", "save")
    BY <1>1, GotoMoves DEF IInv, UpdatePkgInstalledState, Working
<1>3. Steady /\ mem' = mem /\ files' = files /\ manifests' = manifests \ {m.rem}
    BY <1>1 DEF UpdatePkgInstalledState, Steady, Busy, history
<1>4. m \in Planned /\ m.ver = version /\ Fits(m, Catalogs)
    BY <1>1 DEF Busy, MemFits
<1>5. /\ m.manual \in BOOLEAN /\ m.add \in Pkg \cup {None} /\ m.rem \in Pkg \cup {None}
      /\ m.add # m.rem
      /\ m.add # None => m.add \in DOMAIN Catalogs.rows \ Catalogs.inst
      /\ m.rem # None => m.rem \in Catalogs.inst
    BY <1>4 DEF Planned, Fits
<1>6. InstalledOk(Catalogs, new, m.add, m.rem)
    BY <1>1, <1>5, InstalledFacts DEF Busy
<1>7. CatalogSave(p, new, ch)
    BY <1>4 DEF UpdatePkgInstalledState, Catalogs
<1> HIDE DEF new, ch
<1>8. tmp'[p] = Saved(dir, version, new) /\ DOMAIN tmp' = Proc /\ DOMAIN mem' = Proc
    BY <1>1, <1>3, <1>4, <1>6, <1>7 DEF CatalogSave, Saved, Busy, IInv, TypeInv, InstalledOk, ch
<1>9. Saved(dir, version, new) \in DirType
    BY <1>1, <1>6, SavedFacts DEF Busy, InstalledOk
<1>10. MemFits(mem'[p], Catalogs, "execute", "save")
    BY <1>3, <1>4 DEF MemFits
<1>11. Works(p, "execute", "save")
    BY <1>2, <1>3, <1>8, <1>9, <1>10 DEF Works, Working, StepOf, Tasks
<1>12. CatalogInv' /\ NewCatalogs' = new
    BY <1>1, <1>3, <1>6, <1>8, <1>11, SavedKeepsCatalog DEF Busy, InstalledOk
<1>13. LockInv' /\ DirInv' /\ MemInv'
    BY <1>1, <1>11, WorksKeepsMem DEF Busy
<1>14. FilesInv'
  <2> SUFFICES ASSUME ~cut, ~torn PROVE FilesInv'
      BY <1>3 DEF FilesInv, Steady
  <2>1. here' = "save" /\ doing' = "execute" /\ lock' = p
      BY <1>2 DEF Moves
  <2>2. /\ files = (Catalogs.inst \ {m.rem}) \cup ({m.add} \ {None})
        /\ files \subseteq manifests
      BY <1>1 DEF IInv, FilesInv, Busy
  <2>3. Recorded(NewCatalogs)'
      BY <1>3, <1>5, <1>6, <1>12, <2>2 DEF Recorded, InstalledOk
  <2>4. Changing'
      BY <2>1 DEF Changing
  <2> QED
      BY <2>1, <2>3, <2>4 DEF FilesInv
<1>15. TypeInv'
    BY <1>11, WorksKeepsType DEF IInv, TypeInv, UpdatePkgInstalledState
<1> QED
    BY <1>12, <1>13, <1>14, <1>15 DEF IInv

(* The avoid set is written back.                                          *)
LEMMA AvoidSetSaveStep ==
    ASSUME IInv, NEW p \in Proc, AvoidSetSave(p) PROVE IInv'
<1>1. /\ lock = p /\ here = "avoid" /\ ~cut
      /\ \A q \in Proc \ {p} : pc[q] \in {"none", "planned"}
    BY Alone DEF IInv, AvoidSetSave, Working
<1>2. dir \in DirType /\ mem[p] \in Planned
    BY <1>1 DEF IInv, DirInv, MemInv, LockInv, StepOf
<1>3. Steady
    BY <1>2 DEF AvoidSetSave, Steady, DirType, Planned, history
<1>4. Stops(p)
    BY <1>3, ExitEnds DEF IInv, AvoidSetSave, Stops
<1> QED
    BY <1>1, <1>4, StopsKeeps

-----------------------------------------------------------------------------
(* The steps of an upgrade.                                                *)
LEMMA UpgradeStateDbStep ==
    ASSUME IInv, NEW p \in Proc, UpgradeStateDb(p) PROVE IInv'
<1>1. Moves(p, "upgrade", "save") /\ pc[p] = "ready"
    BY LockedMoves DEF IInv, UpgradeStateDb, Working, Tasks
<1>2. Poised(p) /\ version = 4
    BY <1>1, ReadyFacts DEF UpgradeStateDb, Poised
<1>3. Steady /\ mem' = mem
    BY <1>2 DEF UpgradeStateDb, Steady, Poised, disk, history
<1>4. /\ tmp'[p] = [dir EXCEPT !.json = NoRows, !.db = dir.json, !.fresh = TRUE]
      /\ DOMAIN mem' = Proc /\ DOMAIN tmp' = Proc
    BY DEF IInv, TypeInv, UpgradeStateDb
<1>5. dir.json = Catalogs
    BY <1>2 DEF Catalogs, Store
<1>6. tmp'[p] = Saved(dir, 5, Catalogs)
    BY <1>4, <1>5 DEF Saved
<1>7. /\ tmp'[p] \in DirType /\ GoodDir(5, tmp'[p]) /\ Store(5, tmp'[p]) = Catalogs
    BY <1>2, <1>6, SavedFacts DEF Poised
<1>8. MemFits(mem'[p], Catalogs, "upgrade", "save")
    BY <1>2, <1>3 DEF MemFits, Poised
<1>9. Works(p, "upgrade", "save")
    BY <1>1, <1>2, <1>3, <1>4, <1>7, <1>8 DEF Works, Working, Tasks, StepOf
<1>10. NewCatalogs' = Catalogs /\ Catalogs' = Catalogs
    BY <1>1, <1>2, <1>3, <1>7, SteadyFacts
    DEF NewCatalogs, NewVersion, Moves, Poised, MayWork
<1>11. MarksKept(Catalogs)'
    BY <1>10 DEF MarksKept, Having
<1>12. LockInv' /\ DirInv' /\ MemInv'
    BY <1>2, <1>9, WorksKeepsMem DEF Poised
<1>13. CatalogInv'
    BY <1>2, <1>7, <1>9, <1>11, WorksKeepsCatalog DEF Poised
<1>14. FilesInv'
    BY <1>2, <1>9, <1>10, WorksKeepsFiles DEF Poised, UpgradeStateDb, disk
<1>15. TypeInv'
    BY <1>9, WorksKeepsType DEF IInv, TypeInv, UpgradeStateDb, disk
<1> QED
    BY <1>12, <1>13, <1>14, <1>15 DEF IInv

(* The format in the configuration follows the upgraded directory.         *)
LEMMA SetVersionStep ==
    ASSUME IInv, NEW p \in Proc, SetVersion(p) PROVE IInv'
<1>1. /\ lock = p /\ here = "config" /\ ~cut
      /\ \A q \in Proc \ {p} : pc[q] \in {"none", "planned"}
    BY Alone DEF IInv, SetVersion, Working
<1>2. Ends(p) /\ DOMAIN mem' = Proc /\ DOMAIN tmp' = Proc
      /\ \A q \in Proc \ {p} : mem'[q] = mem[q]
    BY ExitEnds DEF IInv, SetVersion
<1>3. /\ version' = 5 /\ dir' = dir /\ avail' = avail /\ pub' = pub
      /\ manifests' = manifests /\ files' = files /\ cut' = cut /\ torn' = torn
    BY DEF SetVersion, history
<1>4. here' = "rest" /\ doing' = "none" /\ \A q \in Proc : pc'[q] \in {"none", "planned"}
    BY <1>1, <1>2 DEF Ends
<1>5. Catalogs' = dir.db
    BY <1>3 DEF Catalogs, Store
<1>6. TypeInv'
    BY <1>2, <1>3 DEF IInv, TypeInv, Ends
<1>7. LockInv'
    BY <1>1, <1>2, <1>3, EndsKeepsLock DEF IInv
<1>8. DirInv'
    BY <1>1, <1>3, <1>4 DEF IInv, DirInv
<1>9. \A q \in Proc : pc'[q] = "planned" => mem'[q] = StalePlan
    BY <1>1, <1>2, <1>4 DEF IInv, MemInv, Ends
<1>10. MemInv'
    BY <1>4, <1>9 DEF MemInv
<1>11. CatalogInv'
  <2>1. GoodDir(5, dir)
      BY <1>1 DEF IInv, CatalogInv
  <2>2. GoodDir(version, dir)'
      BY <1>3, <2>1 DEF GoodDir
  <2> QED
      BY <1>4, <2>2 DEF CatalogInv
<1>12. FilesInv'
  <2>1. ~torn => Recorded(dir.db)
      BY <1>1 DEF IInv, FilesInv
  <2>2. ~torn => Recorded(Catalogs)'
      BY <1>3, <1>5, <2>1 DEF Recorded
  <2> QED
      BY <1>3, <1>4, <1>9, <2>2 DEF FilesInv
<1> QED
    BY <1>6, <1>7, <1>8, <1>10, <1>11, <1>12 DEF IInv

-----------------------------------------------------------------------------
(* The two renames.                                                        *)
LEMMA SalvageStep ==
    ASSUME IInv, NEW p \in Proc, Salvage(p) PROVE IInv'
<1>1. Busy(p) /\ here = "save"
    BY BusyFacts DEF Salvage, Working, Busy
<1>2. Moves(p, doing, "swap")
    BY <1>1, GotoMoves DEF IInv, Salvage, Working, Busy
<1>3. /\ dir' = Gone /\ salvaged' = dir /\ version' = version /\ mem' = mem /\ tmp' = tmp
      /\ avail' = avail /\ pub' = pub /\ manifests' = manifests /\ files' = files
      /\ cut' = cut /\ torn' = torn
    BY DEF Salvage, history
<1>4. /\ lock = p /\ lock' = p /\ here' = "swap" /\ doing' = doing /\ ~cut
      /\ \A q \in Proc \ {p} : pc'[q] = pc[q] /\ pc[q] # "ready"
      /\ pc'[p] = "swap"
    BY <1>1, <1>2 DEF Moves, Busy, MayWork
<1>5. TypeInv'
    BY <1>2, <1>3, <1>4 DEF IInv, TypeInv, Moves
<1>6. LockInv'
    BY <1>1, <1>2, <1>3, <1>4, MovesKeepsLock DEF IInv, Busy, MayWork, StepOf, Working
<1>7. DirInv'
    BY <1>1, <1>3, <1>4 DEF DirInv, Busy
<1>8. MemInv'
  <2>1. \A q \in Proc : pc'[q] # "ready"
      BY <1>4
  <2>2. \A q \in Proc : pc'[q] = "planned" /\ mem[q] # StalePlan =>
            mem[q] \in Planned /\ mem[q].ver = version
      BY <1>4 DEF IInv, MemInv
  <2>3. /\ doing \in {"freeze", "unset", "flag", "upgrade"} => mem[p] \in Loaded
        /\ doing = "refresh" => mem[p] \in Refreshing
        /\ doing = "execute" => mem[p] \in Planned
        /\ mem[p].ver = version
        /\ tmp[p] \in DirType
      BY <1>1, <1>4 DEF IInv, MemInv, Busy, MemFits
  <2> QED
      BY <1>3, <1>4, <2>1, <2>2, <2>3 DEF MemInv
<1>9. NewVersion' = NewVersion /\ NewCatalogs' = NewCatalogs /\ Changing' = Changing
    BY <1>1, <1>3, <1>4 DEF NewVersion, NewCatalogs, Changing
<1>10. CatalogInv'
  <2>1. GoodDir(NewVersion, tmp[p]) /\ MarksKept(Catalogs)
      BY <1>1, <1>4 DEF IInv, CatalogInv
  <2>2. GoodDir(NewVersion, tmp[lock])'
      BY <1>3, <1>4, <1>9, <2>1 DEF GoodDir
  <2>3. Store(version, salvaged)' = Catalogs
      BY <1>3 DEF Catalogs, Store
  <2>4. MarksKept(Store(version, salvaged))'
      BY <1>3, <1>4, <1>9, <2>1, <2>3 DEF MarksKept, Having
  <2> QED
      BY <1>4, <2>2, <2>4 DEF CatalogInv
<1>11. FilesInv'
  <2> SUFFICES ASSUME ~torn PROVE FilesInv'
      BY <1>3 DEF FilesInv
  <2>1. Recorded(NewCatalogs)
      BY <1>1, <1>4 DEF IInv, FilesInv
  <2>2. Recorded(NewCatalogs)'
      BY <1>3, <1>9, <2>1 DEF Recorded
  <2>3. \A q \in Proc : pc'[q] = "planned" /\ mem'[q] # StalePlan /\ mem'[q].add # None
                        /\ ~Changing' /\ doing' # "unset" => mem'[q].add \in manifests'
      BY <1>3, <1>4, <1>9 DEF IInv, FilesInv
  <2> QED
      BY <1>4, <2>2, <2>3 DEF FilesInv
<1> QED
    BY <1>5, <1>6, <1>7, <1>8, <1>10, <1>11 DEF IInv

(* The new directory in place: every plan made before is out of date.      *)
LEMMA SwapInStep ==
    ASSUME IInv, NEW p \in Proc, SwapIn(p) PROVE IInv'
<1>1. /\ lock = p /\ here = "swap" /\ doing = task[p] /\ doing \in Tasks /\ ~cut
      /\ \A q \in Proc \ {p} : pc[q] \in {"none", "planned"} /\ task[q] = "none"
    BY Alone DEF IInv, SwapIn, Working
<1>2. /\ dir' = tmp[p] /\ version' = version /\ cut' = cut /\ torn' = torn
      /\ avail' = avail /\ pub' = pub /\ manifests' = manifests /\ files' = files
      /\ DOMAIN mem' = Proc /\ DOMAIN tmp' = Proc /\ pc[p] = "swap"
    BY DEF SwapIn, history, IInv, TypeInv
<1>3. /\ \A q \in Proc \ {p} : pc[q] = "planned" => mem'[q] = StalePlan
      /\ doing \in {"execute", "upgrade"} => mem'[p] = mem[p]
    BY <1>1, <1>2 DEF SwapIn
<1>4. /\ dir' \in DirType /\ GoodDir(NewVersion, dir') /\ dir'.db = NewCatalogs
      /\ NewCatalogs = Store(NewVersion, dir')
  <2>1. tmp[p] \in DirType /\ GoodDir(NewVersion, tmp[p])
      BY <1>1 DEF IInv, MemInv, CatalogInv
  <2> QED
      BY <1>1, <1>2, <2>1 DEF GoodDir, NewCatalogs
<1>5. ~torn => Recorded(NewCatalogs)
    BY <1>1 DEF IInv, FilesInv
<1>6. mem[p].ver = version /\ (doing = "upgrade" => mem[p] \in Loaded /\ version = 4)
      /\ (doing = "execute" => mem[p] \in Planned)
    BY <1>1 DEF IInv, MemInv, LockInv, Tasks
<1>7. CASE doing \in {"execute", "upgrade"}
  <2> DEFINE s == IF doing = "execute" THEN "avoid" ELSE "config"
  <2>1. Goto(p, s)
      BY <1>1, <1>7 DEF SwapIn, AfterSwap
  <2>2. Moves(p, doing, s)
      BY <1>1, <1>2, <2>1, GotoMoves DEF IInv, Working
  <2>3. /\ lock' = p /\ here' = s /\ doing' = doing /\ pc'[p] = s
        /\ \A q \in Proc : /\ pc'[q] # "ready"
                           /\ pc'[q] = "planned" => mem'[q] = StalePlan
      BY <1>1, <1>3, <2>2 DEF Moves
  <2>4. TypeInv'
      BY <1>2, <2>2, <2>3 DEF IInv, TypeInv, Moves
  <2>5. LockInv'
    <3>1. StepOf(doing, s) /\ s \in Working
        BY <1>7 DEF StepOf, Working
    <3> QED
        BY <1>1, <1>2, <1>6, <2>2, <3>1, MovesKeepsLock DEF IInv
  <2>6. DirInv'
      BY <1>4, <2>3 DEF DirInv
  <2>7. MemInv'
    <3>1. mem'[p] = mem[p]
        BY <1>3, <1>7
    <3> QED
        BY <1>2, <1>6, <1>7, <2>3, <3>1 DEF MemInv
  <2>8. CASE doing = "execute"
    <3>1. NewVersion = version /\ Catalogs' = NewCatalogs
        BY <1>2, <1>4, <2>8 DEF NewVersion, Catalogs
    <3>2. GoodDir(version, dir)'
        BY <1>2, <1>4, <3>1 DEF GoodDir
    <3>3. CatalogInv'
        BY <2>3, <2>8, <3>2 DEF CatalogInv
    <3>4. ~torn => Recorded(Catalogs)'
        BY <1>2, <1>5, <3>1 DEF Recorded
    <3>5. FilesInv'
        BY <1>2, <2>3, <2>8, <3>4 DEF FilesInv
    <3> QED
        BY <2>4, <2>5, <2>6, <2>7, <3>3, <3>5 DEF IInv
  <2>9. CASE doing = "upgrade"
    <3>1. GoodDir(5, dir)'
        BY <1>4, <2>9 DEF GoodDir, NewVersion
    <3>2. CatalogInv'
        BY <2>3, <2>9, <3>1 DEF CatalogInv
    <3>3. ~torn => Recorded(dir.db)'
        BY <1>2, <1>4, <1>5 DEF Recorded
    <3>4. FilesInv'
        BY <1>2, <2>3, <2>9, <3>3 DEF FilesInv
    <3> QED
        BY <2>4, <2>5, <2>6, <2>7, <3>2, <3>4 DEF IInv
  <2> QED
      BY <1>7, <2>8, <2>9
<1>8. CASE doing \notin {"execute", "upgrade"}
  <2>1. /\ lock' = None /\ pc' = [pc EXCEPT ![p] = "none"]
        /\ task' = [task EXCEPT ![p] = "none"]
      BY <1>1, <1>8 DEF SwapIn, AfterSwap
  <2>2. Ends(p)
      BY <2>1 DEF IInv, TypeInv, Ends, here, doing
  <2>3. /\ lock' = None /\ here' = "rest" /\ doing' = "none"
        /\ \A q \in Proc : /\ pc'[q] # "ready"
                           /\ pc'[q] = "planned" => mem'[q] = StalePlan
      BY <1>1, <1>3, <2>2 DEF Ends
  <2>4. TypeInv'
      BY <1>2, <2>2, <2>3 DEF IInv, TypeInv, Ends
  <2>5. LockInv'
      BY <1>1, <1>2, <2>2, EndsKeepsLock DEF IInv
  <2>6. DirInv'
      BY <1>4, <2>3 DEF DirInv
  <2>7. MemInv'
      BY <2>3 DEF MemInv
  <2>8. NewVersion = version /\ Catalogs' = NewCatalogs
      BY <1>2, <1>4, <1>8 DEF NewVersion, Catalogs
  <2>9. GoodDir(version, dir)'
      BY <1>2, <1>4, <2>8 DEF GoodDir
  <2>10. CatalogInv'
      BY <2>3, <2>9 DEF CatalogInv
  <2>11. ~torn => Recorded(Catalogs)'
      BY <1>2, <1>5, <2>8 DEF Recorded
  <2>12. FilesInv'
      BY <1>2, <2>3, <2>11 DEF FilesInv
  <2> QED
      BY <2>4, <2>5, <2>6, <2>7, <2>10, <2>12 DEF IInv
<1> QED
    BY <1>7, <1>8

(* A process may die anywhere.                                             *)
LEMMA CrashStep ==
    ASSUME IInv, NEW p \in Proc, Crash(p) PROVE IInv'
<1>1. CASE pc[p] \notin Working
  <2>1. pc[p] \in {"none", "ready", "planned"} /\ lock # p /\ task[p] = "none"
      BY <1>1 DEF IInv, TypeInv, LockInv
  <2>2. task' = task
      BY <2>1 DEF Crash, IInv, TypeInv
  <2>3. cut' = cut /\ torn' = torn
      BY <1>1, <2>1 DEF Crash, Working, IInv, TypeInv
  <2>4. Aside(p, "none")
      BY <2>1, <2>2, <2>3 DEF Crash, Aside, disk, IInv, TypeInv
  <2> QED
      BY <2>1, <2>4, AsideKeeps
<1>2. CASE pc[p] \in Working
  <2>1. /\ lock = p /\ here = pc[p] /\ doing = task[p] /\ ~cut /\ doing \in Tasks
        /\ \A q \in Proc \ {p} : pc[q] \in {"none", "planned"}
      BY <1>2, Alone DEF IInv
  <2>2. /\ version' = version /\ dir' = dir /\ avail' = avail /\ pub' = pub
        /\ manifests' = manifests /\ files' = files
        /\ cut' = (here \in {"swap", "config"} \/ doing \in {"freeze", "unset"})
        /\ torn' = (torn \/ (doing = "execute" /\ here # "avoid"))
        /\ DOMAIN mem' = Proc /\ DOMAIN tmp' = Proc
        /\ \A q \in Proc \ {p} : mem'[q] = mem[q]
      BY <2>1 DEF Crash, disk, IInv, TypeInv
  <2>3. Ends(p)
      BY <2>1 DEF Crash, IInv, TypeInv, Ends, here, doing
  <2>4. /\ lock' = None /\ here' = "rest" /\ doing' = "none" /\ pc'[p] = "none"
        /\ \A q \in Proc : pc'[q] # "ready" /\ (pc'[q] = "planned" => q # p /\ pc[q] = "planned")
      BY <2>1, <2>3 DEF Ends
  <2>5. TypeInv'
      BY <2>2, <2>3 DEF IInv, TypeInv, Ends
  <2>6. LockInv'
      BY <2>1, <2>3, EndsKeepsLock DEF IInv
  <2>7. DirInv'
      BY <2>1, <2>2, <2>4 DEF IInv, DirInv
  <2>8. Catalogs' = Catalogs
      BY <2>2 DEF Catalogs
  <2>9. MemInv'
    <3>1. ASSUME NEW q \in Proc, pc'[q] = "planned", mem'[q] # StalePlan
          PROVE  /\ mem'[q] \in Planned /\ mem'[q].ver = version'
                 /\ ~cut' => Fits(mem'[q], Catalogs')
        BY <2>1, <2>2, <2>4, <2>8, <3>1 DEF IInv, MemInv
    <3> QED
        BY <2>4, <3>1, Zenon DEF MemInv, Fits
  <2>10. CatalogInv'
    <3>1. ~cut' => GoodDir(version, dir)
        BY <2>1, <2>2 DEF IInv, CatalogInv
    <3>2. ~cut' => GoodDir(version, dir)'
        BY <2>2, <3>1 DEF GoodDir
    <3> QED
        BY <2>4, <3>2 DEF CatalogInv
  <2>11. FilesInv'
    <3> SUFFICES ASSUME ~cut', ~torn' PROVE FilesInv'
        BY DEF FilesInv
    <3>1. ~torn /\ here \notin {"swap", "config"} /\ doing # "unset" /\ ~Changing
        BY <2>2 DEF IInv, LockInv, StepOf, Changing
    <3>2. Recorded(Catalogs)
        BY <2>1, <3>1 DEF IInv, FilesInv
    <3>3. Recorded(Catalogs)'
        BY <2>2, <2>8, <3>2 DEF Recorded
    <3>4. \A q \in Proc : pc'[q] = "planned" /\ mem'[q] # StalePlan /\ mem'[q].add # None
                          => mem'[q].add \in manifests'
        BY <2>1, <2>2, <2>4, <3>1 DEF IInv, FilesInv
    <3> QED
        BY <2>4, <3>3, <3>4 DEF FilesInv
  <2> QED
      BY <2>5, <2>6, <2>7, <2>9, <2>10, <2>11 DEF IInv
<1> QED
    BY <1>1, <1>2

-----------------------------------------------------------------------------
(* A new image.                                                            *)
LEMMA InitHolds == Init => IInv
<1> SUFFICES ASSUME Init PROVE IInv
    OBVIOUS
<1>1. /\ here = "rest" /\ doing = "none" /\ lock = None /\ ~cut /\ version = 4
      /\ \A p \in Proc : pc[p] = "none" /\ task[p] = "none"
      /\ Catalogs = NoRows /\ dir = NewDir /\ files = {} /\ manifests = {}
    BY DEF Init, here, doing, Catalogs, Store, NewDir
<1>2. TypeInv
    BY DEF Init, TypeInv
<1>3. LockInv
    BY <1>1, NoneAssumption DEF LockInv, StepOf, Working
<1>4. DirInv
    BY <1>1, NoRowsType DEF DirInv, NewDir, DirType
<1>5. MemInv
    BY <1>1 DEF MemInv
<1>6. CatalogInv
  <2>1. Good(NoRows)
      BY DEF NoRows, Good, Having
  <2>2. GoodDir(version, dir)
      BY <1>1, <2>1 DEF GoodDir, Store, NewDir
  <2> QED
      BY <1>1, <2>2 DEF CatalogInv
<1>7. FilesInv
    BY <1>1 DEF FilesInv, Recorded, NoRows
<1> QED
    BY <1>2, <1>3, <1>4, <1>5, <1>6, <1>7 DEF IInv

(* Nothing happens.                                                        *)
LEMMA StutterStep ==
    ASSUME IInv, UNCHANGED vars PROVE IInv'
<1>1. here' = here /\ doing' = doing /\ Catalogs' = Catalogs /\ NewVersion' = NewVersion
      /\ NewCatalogs' = NewCatalogs /\ Changing' = Changing
    BY DEF vars, here, doing, Catalogs, NewVersion, NewCatalogs, Changing, Store
<1>2. TypeInv' /\ LockInv' /\ DirInv'
    BY <1>1 DEF IInv, TypeInv, LockInv, DirInv, vars
<1>3. MemInv'
    BY <1>1 DEF IInv, MemInv, Fits, vars
<1>4. CatalogInv'
    BY <1>1 DEF IInv, CatalogInv, MarksKept, GoodDir, Good, Having, Store, vars
<1>5. FilesInv'
    BY <1>1 DEF IInv, FilesInv, Recorded, vars
<1> QED
    BY <1>2, <1>3, <1>4, <1>5 DEF IInv

(* Every step keeps the invariant.                                         *)
LEMMA NextKeeps ==
    ASSUME IInv, Exclusive, [Next]_vars PROVE IInv'
<1>1. ASSUME NEW p \in Proc,
             \/ Start(p) \/ Leave(p) \/ Salvage(p) \/ SwapIn(p)
             \/ StartStateUpdate(p) \/ RefreshPublisher(p) \/ RefreshFails(p)
             \/ EndStateUpdate(p) \/ NeedsRebuild(p) \/ RebuildImageCatalogs(p)
             \/ RemovePublisher(p) \/ Execute(p) \/ ExecuteActions(p)
             \/ UpdatePkgInstalledState(p) \/ AvoidSetSave(p)
             \/ UpgradeStateDb(p) \/ SetVersion(p) \/ Crash(p)
      PROVE  IInv'
    BY <1>1, StartStep, LeaveStep, SalvageStep, SwapInStep, StartStateUpdateStep,
       RefreshPublisherStep, RefreshFailsStep, EndStateUpdateStep, NeedsRebuildStep,
       RebuildStep, RemovePublisherStep, ExecuteStep, ExecuteActionsStep,
       UpdatePkgInstalledStateStep, AvoidSetSaveStep, UpgradeStateDbStep, SetVersionStep,
       CrashStep, Zenon
<1>2. ASSUME NEW p \in Proc, NEW ks \in SUBSET Pkg, RefreshOrigin(p, ks) PROVE IInv'
    BY <1>2, RefreshOriginStep
<1>3. ASSUME NEW p \in Proc, NEW k \in Freezable, Freeze(p, k) PROVE IInv'
    BY <1>3, FreezeStep
<1>4. ASSUME NEW p \in Proc, NEW k \in Pkg, FlagPkgs(p, k) PROVE IInv'
    BY <1>4, FlagPkgsStep
<1>5. ASSUME NEW p \in Proc, NEW k \in Avoidable, AvoidPkgs(p, k) \/ UnavoidPkgs(p, k)
      PROVE  IInv'
    BY <1>5, AvoidPkgsStep
<1>6. ASSUME NEW p \in Proc, NEW add \in Pkg \cup {None}, NEW rem \in Pkg \cup {None},
             NEW manual \in BOOLEAN, MakePlan(p, add, rem, manual)
      PROVE  IInv'
    BY <1>6, MakePlanStep
<1>7. CASE UNCHANGED vars
    BY <1>7, StutterStep
<1> QED
    BY <1>1, <1>2, <1>3, <1>4, <1>5, <1>6, <1>7 DEF Next

(* The invariant holds whatever is interrupted, if nothing changes while a *)
(* process waits for the lock.                                             *)
THEOREM Invariance ==
    ASSUME Exclusive PROVE Spec => []IInv
    BY InitHolds, NextKeeps, PTL DEF Spec

(* The record of what is installed, in either catalog, is true of the      *)
(* files, for any number of packages, clients and interruptions outside    *)
(* execution, whether or not refreshes fail in part.                       *)
THEOREM RecordCorrect ==
    ASSUME Exclusive PROVE Spec => []RecordMatchesFiles
<1>1. IInv => RecordMatchesFiles
  <2> SUFFICES ASSUME IInv, AtRest, ~torn
               PROVE  /\ Catalogs.inst = files
                      /\ Having(Catalogs, "installed") = files
                      /\ files \subseteq manifests
      BY DEF RecordMatchesFiles
  <2>1. here = "rest" /\ doing = "none" /\ ~cut
      BY NobodyWorks DEF AtRest, IInv
  <2>2. Recorded(Catalogs) /\ GoodDir(version, dir)
      BY <2>1 DEF IInv, FilesInv, CatalogInv, Changing
  <2> QED
      BY <2>2 DEF Recorded, GoodDir, Good, Catalogs
<1> QED
    BY <1>1, Invariance, PTL

(* The database of a version 4 image says what its JSON catalogs say       *)
(* whenever no operation is under way.                                     *)
THEOREM MirrorCorrect ==
    ASSUME Exclusive PROVE Spec => []MirrorAgrees
<1>1. IInv => MirrorAgrees
  <2> SUFFICES ASSUME IInv, AtRest, version = 4 PROVE dir.db = dir.json
      BY DEF MirrorAgrees
  <2>1. here = "rest" /\ ~cut
      BY NobodyWorks DEF AtRest, IInv
  <2>2. GoodDir(version, dir)
      BY <2>1 DEF IInv, CatalogInv
  <2> QED
      BY <2>2 DEF GoodDir, Store
<1> QED
    BY <1>1, Invariance, PTL

(* No state directory that takes the place of another has lost a mark of a *)
(* manual installation.                                                    *)
THEOREM ManualCorrect ==
    ASSUME Exclusive PROVE Spec => ManualIsKept
<1> DEFINE Keeps(p) ==
        SwapIn(p) /\ task[p] # "flag" =>
            LET old == Store(mem[p].ver, salvaged)
                new == IF task[p] = "upgrade" THEN dir'.db ELSE Store(mem[p].ver, dir')
            IN  \A k \in Having(old, "manual") :
                   \/ k \in Having(new, "manual")
                   \/ task[p] = "execute" /\ mem[p].rem = k /\
                      (mem[p].add # None => mem[p].add \in Having(new, "manual"))
<1>1. ASSUME IInv, NEW p \in Proc PROVE Keeps(p)
  <2> SUFFICES ASSUME SwapIn(p), task[p] # "flag" PROVE Keeps(p)
      OBVIOUS
  <2>1. lock = p /\ here = "swap" /\ doing = task[p] /\ doing \in Tasks
      BY <1>1, Alone DEF IInv, SwapIn, Working
  <2>2. dir' = tmp[p] /\ mem[p].ver = version
      BY <1>1, <2>1 DEF SwapIn, IInv, MemInv, Tasks
  <2>3. NewCatalogs = IF task[p] = "upgrade" THEN dir'.db ELSE Store(mem[p].ver, dir')
      BY <2>1, <2>2 DEF NewCatalogs, NewVersion, Store
  <2>4. MarksKept(Store(mem[p].ver, salvaged))
      BY <1>1, <2>1, <2>2 DEF IInv, CatalogInv
  <2> QED
      BY <2>1, <2>3, <2>4 DEF MarksKept
<1>2. IInv => \A p \in Proc : Keeps(p)
    BY <1>1
<1> QED
    BY <1>2, Invariance, PTL DEF ManualIsKept

-----------------------------------------------------------------------------
(* The list of known packages.                                             *)
LEMMA SameCurrent ==
    ASSUME pub' = pub, Catalogs' = Catalogs, dir'.frozen = dir.frozen
    PROVE  Current(Catalogs, dir)' = Current(Catalogs, dir)
    BY DEF Current, Having

(* The catalogs are the same if both stores are.                           *)
LEMMA SameCatalogs ==
    ASSUME version \in {4, 5}, version' = version, dir'.json = dir.json, dir'.db = dir.db
    PROVE  Catalogs' = Catalogs
    BY DEF Catalogs, Store

(* Beside the operation under way.                                         *)
LEMMA AsideKnown ==
    ASSUME IInv, KnownInv, NEW p \in Proc, pc[p] \in {"none", "ready", "planned"},
           NEW s, Aside(p, s)
    PROVE  KnownInv'
<1>1. lock # p /\ lock \in Proc \cup {None} /\ pc \in [Proc -> {"none", "ready", "planned"} \cup Working]
    BY DEF IInv, LockInv, TypeInv, Working
<1>2. /\ here' = here /\ doing' = doing /\ lock' = lock /\ version' = version
      /\ dir' = dir /\ pub' = pub /\ avail' = avail /\ cut' = cut
    BY <1>1 DEF Aside, here, doing
<1>3. Catalogs' = Catalogs /\ Current(Catalogs, dir)' = Current(Catalogs, dir)
    BY <1>2, SameCurrent DEF Catalogs
<1>4. Current(dir.db, dir)' = Current(dir.db, dir)
    BY <1>2 DEF Current, Having
<1>5. lock # None => mem'[lock] = mem[lock] /\ tmp'[lock] = tmp[lock]
    BY <1>1 DEF Aside
<1>6. lock # None => Current(NewCatalogs, tmp[lock])' = Current(NewCatalogs, tmp[lock])
    BY <1>2, <1>5 DEF Current, Having, NewCatalogs, NewVersion
<1>7. here # "rest" => lock # None
    BY DEF here
<1> QED
    BY <1>2, <1>3, <1>4, <1>5, <1>6, <1>7 DEF KnownInv

(* A step that leaves the catalogs, the frozen packages and the publisher  *)
(* alone, and no refresh.                                                  *)
LEMMA QuietKnown ==
    ASSUME IInv, KnownInv, Steady, UNCHANGED <<avail, pub>>, ~cut,
           here \notin {"swap", "config"}, dir'.frozen = dir.frozen, dir'.flag = dir.flag,
           doing \notin {"refresh", "freeze", "unset"}, doing' # "refresh",
           here' \in {"rest", "execute", "state", "save"},
           here' = "save" => /\ tmp'[lock'].flag = dir.flag
                             /\ Current(Catalogs, dir) => Current(NewCatalogs, tmp[lock])'
    PROVE  KnownInv'
<1>1. Catalogs' = Catalogs
    BY SteadyFacts
<1>2. Current(Catalogs, dir)' = Current(Catalogs, dir)
    BY <1>1, SameCurrent
<1>3. pub = avail /\ (dir.flag \/ Current(Catalogs, dir))
    BY DEF KnownInv
<1> QED
    BY <1>2, <1>3 DEF KnownInv

(* While a refresh works the flag is up, and a change is remembered.       *)
LEMMA RefreshKnown ==
    ASSUME IInv, KnownInv, SingleOrigin, ~PartialFailures, NEW p \in Proc,
           \/ StartStateUpdate(p) \/ RefreshPublisher(p) \/ RefreshFails(p)
           \/ NeedsRebuild(p) \/ \E ks \in SUBSET Pkg : RefreshOrigin(p, ks)
    PROVE  KnownInv'
<1>1. CASE StartStateUpdate(p)
  <2>1. Poised(p) /\ lock' = p /\ here' = "refresh" /\ doing' = "refresh"
      BY <1>1, ReadyFacts, LockedMoves DEF IInv, StartStateUpdate, Locked, Working, Tasks, Moves
  <2>2. /\ mem'[p].updated = dir.flag /\ dir'.flag /\ dir'.frozen = dir.frozen
        /\ dir'.json = dir.json /\ dir'.db = dir.db /\ version' = version
        /\ pub' = pub /\ avail' = avail
      BY <1>1, <2>1 DEF IInv, TypeInv, StartStateUpdate, Poised, DirType
  <2>3. Current(Catalogs, dir)' = Current(Catalogs, dir)
      BY <2>1, <2>2, SameCatalogs, SameCurrent DEF Poised
  <2>4. pub = avail /\ (dir.flag \/ Current(Catalogs, dir))
      BY <2>1 DEF KnownInv, Poised, MayWork
  <2> QED
      BY <2>1, <2>2, <2>3, <2>4 DEF KnownInv
<1>2. ASSUME NEW ks \in SUBSET Pkg, RefreshOrigin(p, ks) PROVE KnownInv'
  <2>1. Busy(p) /\ here = "refresh" /\ doing = "refresh"
      BY <1>2, BusyFacts DEF RefreshOrigin, Working, Busy, StepOf
  <2>2. /\ lock' = p /\ here' = here /\ doing' = doing /\ mem'[p].origins
        /\ dir' = dir /\ pub' = avail'
      BY <1>2, <2>1 DEF RefreshOrigin, Busy, IInv, TypeInv, here, doing, MemFits, Refreshing
  <2>3. dir.flag
      BY <2>1 DEF KnownInv
  <2> QED
      BY <2>1, <2>2, <2>3 DEF KnownInv
<1>3. CASE RefreshPublisher(p) \/ RefreshFails(p)
  <2>1. Busy(p) /\ here = "refresh" /\ doing = "refresh" /\ mem[p] \in Refreshing /\ lock = p
      BY <1>3, BusyFacts DEF RefreshPublisher, RefreshFails, Working, Busy, StepOf, MemFits
  <2>2. lock' = p /\ here' = "decide" /\ doing' = "refresh"
      BY <1>3, <2>1, GotoMoves DEF IInv, RefreshPublisher, RefreshFails, Moves, Working, Busy
  <2>3. dir' = dir /\ version' = version /\ pub' = avail' /\ pub' = pub
      BY <1>3 DEF RefreshPublisher, RefreshFails, disk, KnownInv
  <2>4. mem[p].updated \/ mem[p].origins => mem'[p].updated
      BY <1>3, <2>1 DEF RefreshPublisher, RefreshFails, IInv, TypeInv, Refreshing
  <2>5. Current(Catalogs, dir)' = Current(Catalogs, dir)
      BY <2>1, <2>3, SameCatalogs, SameCurrent DEF Busy
  <2>6. dir.flag /\ (mem[p].updated \/ mem[p].origins \/ Current(Catalogs, dir))
      BY <2>1 DEF KnownInv
  <2> QED
      BY <2>2, <2>3, <2>4, <2>5, <2>6 DEF KnownInv
<1>4. CASE NeedsRebuild(p)
  <2>1. Busy(p) /\ here = "decide" /\ doing = "refresh"
      BY <1>4, BusyFacts DEF NeedsRebuild, Working, Busy, StepOf
  <2>2. lock' = p /\ here' = "build" /\ doing' = "refresh"
      BY <1>4, <2>1, GotoMoves DEF IInv, NeedsRebuild, Moves, Working, Busy
  <2>3. dir' = dir /\ pub' = avail' /\ dir.flag
      BY <1>4, <2>1 DEF NeedsRebuild, disk, KnownInv
  <2> QED
      BY <2>2, <2>3 DEF KnownInv
<1> QED
    BY <1>1, <1>2, <1>3, <1>4

(* The flag goes down only if the list is current.                         *)
LEMMA EndStateUpdateKnown ==
    ASSUME IInv, KnownInv, NEW p \in Proc, EndStateUpdate(p) PROVE KnownInv'
<1>1. Busy(p) /\ here = "decide" /\ lock = p
    BY BusyFacts DEF EndStateUpdate, Working, Busy
<1>2. here' = "rest" /\ doing' = "none"
    BY ExitEnds DEF IInv, EndStateUpdate, Ends
<1>3. /\ dir'.json = dir.json /\ dir'.db = dir.db /\ dir'.frozen = dir.frozen
      /\ pub' = pub /\ avail' = avail /\ version' = version
    BY <1>1 DEF EndStateUpdate, Busy, DirType
<1>4. Current(Catalogs, dir)' = Current(Catalogs, dir)
    BY <1>1, <1>3, SameCatalogs, SameCurrent DEF Busy
<1>5. Current(Catalogs, dir) /\ pub = avail
    BY <1>1 DEF KnownInv, EndStateUpdate
<1> QED
    BY <1>2, <1>3, <1>4, <1>5 DEF KnownInv

(* A rebuild makes the list current.                                       *)
LEMMA RebuildKnown ==
    ASSUME IInv, KnownInv, NEW p \in Proc, RebuildImageCatalogs(p) PROVE KnownInv'
<1> DEFINE new == Rebuilt(mem[p].icat, dir.frozen)
<1>1. /\ Busy(p) /\ here = "build" /\ task[p] = doing
      /\ doing \in {"refresh", "freeze", "unset"}
    BY BusyFacts DEF RebuildImageCatalogs, Working, Busy, StepOf
<1>2. lock' = p /\ here' = "save" /\ doing' = doing
    BY <1>1, GotoMoves DEF IInv, RebuildImageCatalogs, Working, Moves
<1>3. dir' = dir /\ version' = version /\ pub' = pub /\ avail' = avail
    BY DEF RebuildImageCatalogs, disk
<1>4. mem[p].icat = Catalogs /\ mem[p].ver = version
    BY <1>1 DEF Busy, MemFits
<1>5. pub \subseteq Pkg
    BY DEF IInv, TypeInv
<1>6. /\ Having(new, "known") = pub
      /\ Having(new, "frozen") = DOMAIN new.rows \cap dir.frozen
    BY <1>1, <1>4, <1>5, RebuiltFacts DEF Busy
<1> HIDE DEF new
<1>7. tmp'[p] = [dir EXCEPT !.json = IF mem[p].ver = 4 THEN new ELSE NoRows,
                            !.db = new, !.fresh = TRUE, !.flag = FALSE]
    BY DEF IInv, TypeInv, RebuildImageCatalogs, new
<1>8. NewCatalogs' = new /\ tmp'[p].frozen = dir.frozen
    BY <1>1, <1>2, <1>3, <1>4, <1>7 DEF NewCatalogs, NewVersion, Store, Busy, DirType
<1>9. Current(NewCatalogs, tmp[lock])'
    BY <1>2, <1>3, <1>6, <1>8 DEF Current, Having
<1>10. pub = avail /\ (doing = "refresh" => dir.flag)
    BY <1>1 DEF KnownInv
<1> QED
    BY <1>1, <1>2, <1>3, <1>9, <1>10 DEF KnownInv

(* What needs a rebuild gets one.                                          *)
LEMMA BeginRebuildKnown ==
    ASSUME IInv, KnownInv, NEW p \in Proc,
           RemovePublisher(p) \/ \E k \in Freezable : Freeze(p, k)
    PROVE  KnownInv'
<1>1. here' = "build" /\ doing' \in {"freeze", "unset"}
    BY LockedMoves DEF IInv, RemovePublisher, Freeze, Working, Tasks, Moves
<1>2. pub' = avail'
    BY DEF KnownInv, RemovePublisher, Freeze
<1> QED
    BY <1>1, <1>2 DEF KnownInv

(* flag_pkgs() lists what was listed.                                      *)
LEMMA FlagPkgsKnown ==
    ASSUME IInv, KnownInv, NEW p \in Proc, NEW k \in Pkg, FlagPkgs(p, k) PROVE KnownInv'
<1> DEFINE new == Toggled(Catalogs, k)
<1>1. lock' = p /\ here' = "save" /\ doing' = "flag" /\ pc[p] = "ready"
    BY LockedMoves DEF IInv, FlagPkgs, Working, Tasks, Moves
<1>2. Poised(p)
    BY <1>1, ReadyFacts
<1>3. dir' = dir /\ version' = version /\ pub' = pub /\ avail' = avail /\ Steady
    BY <1>2 DEF FlagPkgs, Poised, Steady, disk, history
<1>4. Store(mem[p].ver, dir) = Catalogs /\ mem[p].icat.inst = Catalogs.inst
    BY <1>2 DEF Poised, Catalogs
<1>5. k \in Catalogs.inst
    BY <1>2, <1>4 DEF FlagPkgs, Poised, Good, Having
<1>6. /\ new \in CatType /\ Good(new)
      /\ Sync(Catalogs, new, {k}) = new
      /\ Having(new, "known") = Having(Catalogs, "known")
      /\ Having(new, "frozen") = Having(Catalogs, "frozen")
      /\ DOMAIN new.rows = DOMAIN Catalogs.rows
    BY <1>2, <1>5, ToggledFacts DEF Poised
<1>7. new = [Catalogs EXCEPT !.rows[k] = IF "manual" \in @ THEN @ \ {"manual"} ELSE @ \cup {"manual"},
                             !.inst = mem[p].icat.inst]
  <2>1. Catalogs = [rows |-> Catalogs.rows, inst |-> Catalogs.inst]
      BY <1>2, CatElim DEF Poised
  <2> QED
      BY <1>4, <2>1 DEF Toggled
<1>8. CatalogSave(p, new, {k})
    BY <1>4, <1>7 DEF FlagPkgs
<1> HIDE DEF new
<1>9. tmp'[p] = Saved(dir, version, new)
    BY <1>2, <1>6, <1>8 DEF CatalogSave, Saved, Poised, IInv, TypeInv
<1>10. /\ Store(version, tmp'[p]) = new /\ tmp'[p].flag = dir.flag
       /\ tmp'[p].frozen = dir.frozen
  <2>1. dir \in DirType /\ version \in {4, 5} /\ new \in CatType /\ Good(new)
      BY <1>2, <1>6 DEF Poised
  <2> QED
      BY <1>9, <2>1, SavedFacts
<1>11. NewCatalogs' = new
    BY <1>1, <1>3, <1>10 DEF NewCatalogs, NewVersion
<1>12. Current(Catalogs, dir) => Current(NewCatalogs, tmp[lock])'
    BY <1>1, <1>3, <1>6, <1>10, <1>11 DEF Current, Having
<1> QED
    BY <1>1, <1>2, <1>3, <1>10, <1>12, QuietKnown DEF Poised, MayWork

(* The avoid set has nothing to do with the list.                          *)
LEMMA AvoidKnown ==
    ASSUME IInv, KnownInv, NEW p \in Proc,
           \/ AvoidSetSave(p) \/ \E k \in Avoidable : AvoidPkgs(p, k) \/ UnavoidPkgs(p, k)
    PROVE  KnownInv'
<1>1. /\ dir \in DirType /\ ~cut /\ here \in {"rest", "avoid"} /\ doing \in {"none", "execute"}
      /\ mem[p] \in Loaded \cup Planned
  <2>1. CASE AvoidSetSave(p)
    <3>1. lock = p /\ here = "avoid" /\ ~cut
        BY <2>1, Alone DEF IInv, AvoidSetSave, Working
    <3> QED
        BY <3>1 DEF IInv, DirInv, MemInv, LockInv, StepOf
  <2>2. CASE \E k \in Avoidable : AvoidPkgs(p, k) \/ UnavoidPkgs(p, k)
      BY <2>2, ReadyFacts DEF AvoidPkgs, UnavoidPkgs, Poised, MayWork
  <2> QED
      BY <2>1, <2>2
<1>2. Steady /\ dir'.flag = dir.flag /\ dir'.frozen = dir.frozen /\ pub' = pub /\ avail' = avail
  <2>1. mem[p].avoid \subseteq Pkg
      BY <1>1 DEF Loaded, Planned
  <2>2. PICK A \in SUBSET Pkg : dir' = [dir EXCEPT !.avoid = A]
      BY <2>1, SubsetsAssumption DEF AvoidSetSave, AvoidPkgs, UnavoidPkgs
  <2>3. /\ version' = version /\ cut' = cut /\ torn' = torn /\ pub' = pub /\ avail' = avail
      BY DEF AvoidSetSave, AvoidPkgs, UnavoidPkgs, history
  <2> QED
      BY <1>1, <2>2, <2>3 DEF Steady, DirType
<1>3. here' = "rest" /\ doing' = "none"
    BY ExitEnds DEF IInv, AvoidSetSave, AvoidPkgs, UnavoidPkgs, Ends
<1> QED
    BY <1>1, <1>2, <1>3, QuietKnown

(* Nor have the files.                                                     *)
LEMMA ExecuteKnown ==
    ASSUME IInv, KnownInv, NEW p \in Proc, Execute(p) \/ ExecuteActions(p) PROVE KnownInv'
<1>1. CASE Execute(p)
  <2>1. here = "rest" /\ doing = "none" /\ ~cut /\ dir' = dir /\ pub' = pub /\ avail' = avail
        /\ version' = version /\ cut' = cut /\ torn' = torn
      BY <1>1 DEF Execute, here, doing, disk, history
  <2>2. Steady
      BY <2>1 DEF Steady, IInv, DirInv
  <2>3. \/ here' = "rest" /\ doing' = "none"
        \/ here' = "execute" /\ doing' = "execute"
      BY <1>1, ExitEnds, NoneAssumption DEF Execute, IInv, TypeInv, here, doing, Ends
  <2> QED
      BY <2>1, <2>2, <2>3, QuietKnown
<1>2. CASE ExecuteActions(p)
  <2>1. Busy(p) /\ here = "execute" /\ doing = "execute" /\ task[p] = "execute"
      BY <1>2, BusyFacts DEF ExecuteActions, Working, Busy, StepOf
  <2>2. here' = "state" /\ doing' = "execute"
      BY <1>2, <2>1, GotoMoves DEF IInv, ExecuteActions, Working, Moves
  <2>3. Steady /\ dir' = dir /\ pub' = pub /\ avail' = avail
      BY <1>2, <2>1 DEF ExecuteActions, Steady, Busy, history
  <2> QED
      BY <2>1, <2>2, <2>3, QuietKnown DEF Busy, MayWork
<1> QED
    BY <1>1, <1>2

(* A package that is removed and no longer known leaves the list, no       *)
(* other.                                                                  *)
LEMMA UpdatePkgInstalledStateKnown ==
    ASSUME IInv, KnownInv, NEW p \in Proc, UpdatePkgInstalledState(p) PROVE KnownInv'
<1> DEFINE m == mem[p]
           new == Installed(Catalogs, m.add, m.rem, m.manual)
           ch == {m.add, m.rem} \ {None}
<1>1. Busy(p) /\ here = "state" /\ doing = "execute" /\ task[p] = "execute"
    BY BusyFacts DEF UpdatePkgInstalledState, Working, Busy, StepOf
<1>2. lock' = p /\ here' = "save" /\ doing' = "execute"
    BY <1>1, GotoMoves DEF IInv, UpdatePkgInstalledState, Working, Moves
<1>3. Steady /\ dir' = dir /\ version' = version /\ pub' = pub /\ avail' = avail
    BY <1>1 DEF UpdatePkgInstalledState, Steady, Busy, history
<1>4. m \in Planned /\ m.ver = version /\ Fits(m, Catalogs)
    BY <1>1 DEF Busy, MemFits
<1>5. /\ m.manual \in BOOLEAN /\ m.add \in Pkg \cup {None} /\ m.rem \in Pkg \cup {None}
      /\ m.add # m.rem
      /\ m.add # None => m.add \in DOMAIN Catalogs.rows \ Catalogs.inst
      /\ m.rem # None => m.rem \in Catalogs.inst
    BY <1>4 DEF Planned, Fits
<1>6. InstalledOk(Catalogs, new, m.add, m.rem)
    BY <1>1, <1>5, InstalledFacts DEF Busy
<1>7. CatalogSave(p, new, ch)
    BY <1>4 DEF UpdatePkgInstalledState, Catalogs
<1> HIDE DEF new, ch
<1>8. tmp'[p] = Saved(dir, version, new)
    BY <1>1, <1>4, <1>6, <1>7 DEF CatalogSave, Saved, Busy, IInv, TypeInv, InstalledOk, ch
<1>9. /\ Store(version, tmp'[p]) = new /\ tmp'[p].flag = dir.flag
      /\ tmp'[p].frozen = dir.frozen
  <2>1. dir \in DirType /\ version \in {4, 5} /\ new \in CatType /\ Good(new)
      BY <1>1, <1>6 DEF Busy, InstalledOk
  <2> QED
      BY <1>8, <2>1, SavedFacts
<1>10. NewCatalogs' = new
    BY <1>2, <1>3, <1>9 DEF NewCatalogs, NewVersion
<1>11. /\ Having(new, "known") = Having(Catalogs, "known")
       /\ Having(Catalogs, "frozen") = DOMAIN Catalogs.rows \cap dir.frozen =>
             Having(new, "frozen") = DOMAIN new.rows \cap dir.frozen
    BY <1>6 DEF InstalledOk
<1>12. Current(Catalogs, dir) => Current(NewCatalogs, tmp[lock])'
    BY <1>2, <1>3, <1>9, <1>10, <1>11 DEF Current, Having
<1> QED
    BY <1>1, <1>2, <1>3, <1>9, <1>12, QuietKnown DEF Busy, MayWork

(* An upgrade lists what was listed.                                       *)
LEMMA UpgradeKnown ==
    ASSUME IInv, KnownInv, NEW p \in Proc, UpgradeStateDb(p) \/ SetVersion(p) PROVE KnownInv'
<1>1. CASE UpgradeStateDb(p)
  <2>1. lock' = p /\ here' = "save" /\ doing' = "upgrade" /\ pc[p] = "ready"
      BY <1>1, LockedMoves DEF IInv, UpgradeStateDb, Working, Tasks, Moves
  <2>2. Poised(p) /\ version = 4
      BY <1>1, <2>1, ReadyFacts DEF UpgradeStateDb, Poised
  <2>3. dir' = dir /\ version' = version /\ pub' = pub /\ avail' = avail /\ Steady
      BY <1>1, <2>2 DEF UpgradeStateDb, Poised, Steady, disk, history
  <2>4. tmp'[p] = [dir EXCEPT !.json = NoRows, !.db = dir.json, !.fresh = TRUE]
      BY <1>1 DEF IInv, TypeInv, UpgradeStateDb
  <2>5. tmp'[p].db = dir.json /\ tmp'[p].flag = dir.flag /\ tmp'[p].frozen = dir.frozen
      BY <2>2, <2>4 DEF Poised, DirType
  <2>6. NewCatalogs' = Catalogs
      BY <2>1, <2>2, <2>5 DEF NewCatalogs, NewVersion, Catalogs, Store
  <2>7. Current(Catalogs, dir) => Current(NewCatalogs, tmp[lock])'
      BY <2>1, <2>3, <2>5, <2>6 DEF Current, Having
  <2> QED
      BY <2>1, <2>2, <2>3, <2>5, <2>7, QuietKnown DEF Poised, MayWork
<1>2. CASE SetVersion(p)
  <2>1. here = "config"
      BY <1>2, Alone DEF IInv, SetVersion, Working
  <2>2. here' = "rest" /\ doing' = "none"
      BY <1>2, ExitEnds DEF IInv, SetVersion, Ends
  <2>3. /\ dir' = dir /\ pub' = pub /\ avail' = avail /\ Catalogs' = dir.db
      BY <1>2 DEF SetVersion, Catalogs, Store
  <2>4. pub = avail /\ (dir.flag \/ Current(dir.db, dir))
      BY <2>1 DEF KnownInv
  <2>5. Current(Catalogs, dir)' = Current(dir.db, dir)
      BY <2>3 DEF Current, Having
  <2> QED
      BY <2>2, <2>3, <2>4, <2>5 DEF KnownInv
<1> QED
    BY <1>1, <1>2

(* The renames bring the prepared list.                                    *)
LEMMA SwapKnown ==
    ASSUME IInv, KnownInv, NEW p \in Proc, Salvage(p) \/ SwapIn(p) PROVE KnownInv'
<1>1. CASE Salvage(p)
  <2>1. Busy(p) /\ here = "save" /\ lock = p
      BY <1>1, BusyFacts DEF Salvage, Working, Busy
  <2>2. here' = "swap" /\ doing' = doing /\ lock' = p
      BY <1>1, <2>1, GotoMoves DEF IInv, Salvage, Working, Busy, Moves
  <2>3. pub' = pub /\ avail' = avail /\ tmp' = tmp /\ version' = version
      BY <1>1 DEF Salvage
  <2>4. Current(NewCatalogs, tmp[lock])' = Current(NewCatalogs, tmp[lock])
      BY <2>1, <2>2, <2>3 DEF Current, Having, NewCatalogs, NewVersion
  <2>5. pub = avail /\ (tmp[p].flag \/ Current(NewCatalogs, tmp[lock]))
      BY <2>1 DEF KnownInv
  <2> QED
      BY <2>2, <2>3, <2>4, <2>5 DEF KnownInv
<1>2. CASE SwapIn(p)
  <2>1. lock = p /\ here = "swap" /\ doing = task[p] /\ doing \in Tasks
      BY <1>2, Alone DEF IInv, SwapIn, Working
  <2>2. dir' = tmp[p] /\ version' = version /\ pub' = pub /\ avail' = avail
      BY <1>2 DEF SwapIn
  <2>3. pub = avail /\ (tmp[p].flag \/ Current(NewCatalogs, tmp[p]))
      BY <2>1 DEF KnownInv
  <2>4. doing # "upgrade" => Catalogs' = NewCatalogs
      BY <2>1, <2>2 DEF Catalogs, NewCatalogs, NewVersion
  <2>5. doing = "upgrade" => dir'.db = NewCatalogs
      BY <2>1, <2>2 DEF NewCatalogs, NewVersion, Store
  <2>6. /\ doing # "upgrade" => (dir.flag \/ Current(Catalogs, dir))'
        /\ doing = "upgrade" => (dir.flag \/ Current(dir.db, dir))'
      BY <2>2, <2>3, <2>4, <2>5 DEF Current, Having
  <2>7. \/ doing = "execute" /\ here' = "avoid" /\ doing' = "execute"
        \/ doing = "upgrade" /\ here' = "config" /\ doing' = "upgrade"
        \/ doing # "upgrade" /\ here' = "rest" /\ doing' = "none"
    <3>1. CASE doing \in {"execute", "upgrade"}
      <4>1. Goto(p, IF doing = "execute" THEN "avoid" ELSE "config") /\ pc[p] = "swap"
          BY <1>2, <2>1, <3>1 DEF SwapIn, AfterSwap
      <4>2. Moves(p, task[p], IF doing = "execute" THEN "avoid" ELSE "config")
          BY <4>1, GotoMoves DEF IInv, Working
      <4> QED
          BY <2>1, <3>1, <4>2 DEF Moves
    <3>2. CASE doing \notin {"execute", "upgrade"}
      <4>1. lock' = None
          BY <1>2, <2>1, <3>2 DEF SwapIn, AfterSwap
      <4> QED
          BY <3>2, <4>1 DEF here, doing
    <3> QED
        BY <3>1, <3>2
  <2> QED
      BY <2>2, <2>3, <2>6, <2>7 DEF KnownInv
<1> QED
    BY <1>1, <1>2

(* A death leaves the flag up, or a list that is current.                  *)
LEMMA CrashKnown ==
    ASSUME IInv, KnownInv, NEW p \in Proc, Crash(p) PROVE KnownInv'
<1>1. CASE pc[p] \notin Working
  <2>1. pc[p] \in {"none", "ready", "planned"} /\ lock # p /\ task[p] = "none"
      BY <1>1 DEF IInv, TypeInv, LockInv
  <2>2. task' = task /\ cut' = cut /\ torn' = torn
      BY <1>1, <2>1 DEF Crash, Working, IInv, TypeInv
  <2>3. Aside(p, "none")
      BY <2>1, <2>2 DEF Crash, Aside, disk, IInv, TypeInv
  <2> QED
      BY <2>1, <2>3, AsideKnown
<1>2. CASE pc[p] \in Working
  <2>1. lock = p /\ here = pc[p] /\ doing = task[p] /\ ~cut
      BY <1>2, Alone DEF IInv
  <2>2. /\ version' = version /\ dir' = dir /\ avail' = avail /\ pub' = pub
        /\ cut' = (here \in {"swap", "config"} \/ doing \in {"freeze", "unset"})
        /\ here' = "rest" /\ doing' = "none"
      BY <2>1 DEF Crash, disk, here, doing
  <2>3. Current(Catalogs, dir)' = Current(Catalogs, dir)
      BY <2>2, SameCurrent DEF Catalogs
  <2>4. pub = avail /\ (~cut' => dir.flag \/ Current(Catalogs, dir))
      BY <2>1, <2>2 DEF KnownInv
  <2> QED
      BY <2>2, <2>3, <2>4 DEF KnownInv
<1> QED
    BY <1>1, <1>2

(* Other processes do not touch the list.                                  *)
LEMMA AsideStepKnown ==
    ASSUME IInv, KnownInv, NEW p \in Proc,
           \/ Start(p) \/ Leave(p)
           \/ \E add, rem \in Pkg \cup {None}, manual \in BOOLEAN : MakePlan(p, add, rem, manual)
    PROVE  KnownInv'
<1>1. CASE Start(p) \/ Leave(p)
  <2>1. Aside(p, IF Start(p) THEN "ready" ELSE "none") /\ pc[p] \in {"none", "ready", "planned"}
      BY <1>1 DEF Start, Leave, Aside, disk, history, IInv, TypeInv
  <2> QED
      BY <2>1, AsideKnown
<1>2. ASSUME NEW add \in Pkg \cup {None}, NEW rem \in Pkg \cup {None}, NEW manual \in BOOLEAN,
             MakePlan(p, add, rem, manual)
      PROVE  KnownInv'
  <2>1. Aside(p, "planned") /\ pc[p] = "ready"
      BY <1>2 DEF MakePlan, Aside, history, IInv, TypeInv
  <2> QED
      BY <2>1, AsideKnown
<1> QED
    BY <1>1, <1>2

(* A new image knows no package.                                           *)
LEMMA InitKnown == Init => KnownInv
<1> SUFFICES ASSUME Init PROVE KnownInv
    OBVIOUS
<1>1. here = "rest" /\ doing = "none" /\ pub = {} /\ avail = {} /\ dir = NewDir
      /\ Catalogs = NoRows
    BY DEF Init, here, doing, Catalogs, Store, NewDir
<1>2. Current(Catalogs, dir)
    BY <1>1 DEF Current, Having, NoRows, NewDir
<1> QED
    BY <1>1, <1>2 DEF KnownInv

(* Every step keeps the list of known packages current or flagged.         *)
LEMMA NextKnown ==
    ASSUME IInv, KnownInv, SingleOrigin, ~PartialFailures, [Next]_vars PROVE KnownInv'
<1>1. ASSUME NEW p \in Proc,
             \/ Start(p) \/ Leave(p) \/ Salvage(p) \/ SwapIn(p)
             \/ StartStateUpdate(p) \/ RefreshPublisher(p) \/ RefreshFails(p)
             \/ EndStateUpdate(p) \/ NeedsRebuild(p) \/ RebuildImageCatalogs(p)
             \/ RemovePublisher(p) \/ Execute(p) \/ ExecuteActions(p)
             \/ UpdatePkgInstalledState(p) \/ AvoidSetSave(p)
             \/ UpgradeStateDb(p) \/ SetVersion(p) \/ Crash(p)
             \/ \E ks \in SUBSET Pkg : RefreshOrigin(p, ks)
             \/ \E k \in Freezable : Freeze(p, k)
             \/ \E k \in Pkg : FlagPkgs(p, k)
             \/ \E k \in Avoidable : AvoidPkgs(p, k) \/ UnavoidPkgs(p, k)
             \/ \E add, rem \in Pkg \cup {None}, manual \in BOOLEAN :
                    MakePlan(p, add, rem, manual)
      PROVE  KnownInv'
    BY <1>1, AsideStepKnown, SwapKnown, RefreshKnown, EndStateUpdateKnown, RebuildKnown,
       BeginRebuildKnown, ExecuteKnown, UpdatePkgInstalledStateKnown, AvoidKnown,
       UpgradeKnown, CrashKnown, FlagPkgsKnown, Zenon
<1>2. CASE UNCHANGED vars
    BY <1>2 DEF vars, KnownInv, here, doing, Catalogs, NewCatalogs, NewVersion, Current,
                Having, Store
<1> QED
    BY <1>1, <1>2 DEF Next

(* The packages listed as available are the publisher's, or the next       *)
(* refresh will rebuild the list, wherever processes died: for publishers  *)
(* of one origin whose refresh changes all or nothing.                     *)
THEOREM KnownCorrect ==
    ASSUME Exclusive, SingleOrigin, ~PartialFailures
    PROVE  Spec => []KnownIsCurrentOrFlagged
<1>1. Init => IInv /\ KnownInv
    BY InitHolds, InitKnown
<1>2. IInv /\ KnownInv /\ [Next]_vars => (IInv /\ KnownInv)'
    BY NextKeeps, NextKnown
<1>3. IInv /\ KnownInv => KnownIsCurrentOrFlagged
  <2> SUFFICES ASSUME IInv, KnownInv, AtRest PROVE dir.flag \/ Current(Catalogs, dir)
      BY DEF KnownIsCurrentOrFlagged, Current
  <2>1. here = "rest" /\ doing = "none" /\ ~cut
      BY NobodyWorks DEF AtRest, IInv
  <2> QED
      BY <2>1 DEF KnownInv
<1> QED
    BY <1>1, <1>2, <1>3, PTL DEF Spec

===============================================================================
