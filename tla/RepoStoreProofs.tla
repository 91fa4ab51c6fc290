---------------------------- MODULE RepoStoreProofs ----------------------------
(***************************************************************************)
(* Proofs about RepoStore for any processes, threads, packages and files.  *)
(***************************************************************************)
EXTENDS RepoStore, TLAPS

(* The directory of a transaction with its manifest closed or its sets of  *)
(* files changed is one still.                                             *)
LEMMA TransFields ==
    ASSUME NEW t \in [open : BOOLEAN, manifest : BOOLEAN,
                      added : SUBSET File, stored : SUBSET File],
           NEW x \in SUBSET File, NEW y \in SUBSET File
    PROVE  /\ [t EXCEPT !.manifest = FALSE]
                \in [open : BOOLEAN, manifest : BOOLEAN,
                     added : SUBSET File, stored : SUBSET File]
           /\ [t EXCEPT !.stored = y]
                \in [open : BOOLEAN, manifest : BOOLEAN,
                     added : SUBSET File, stored : SUBSET File]
           /\ [t EXCEPT !.added = x, !.stored = y]
                \in [open : BOOLEAN, manifest : BOOLEAN,
                     added : SUBSET File, stored : SUBSET File]
    OBVIOUS

(* Every step keeps the types of the store.                                *)
LEMMA TypeStep == TypeOK /\ [Next]_vars => TypeOK'
<1> SUFFICES ASSUME TypeOK, [Next]_vars PROVE TypeOK'
    OBVIOUS
<1> USE ProcOfAssumption, ContentsAssumption, NoneAssumption
    DEF TypeOK, Locations, Operations, Goto, store, history
<1>1. CASE UNCHANGED vars
    BY <1>1 DEF vars
<1>2. ASSUME NEW p \in Process, Start(p) PROVE TypeOK'
    BY <1>2 DEF Start
<1>3. ASSUME NEW p \in Process, Stop(p) PROVE TypeOK'
    BY <1>3 DEF Stop
<1>4. ASSUME NEW a \in Actor, MoveOld(a) PROVE TypeOK'
    BY <1>4 DEF MoveOld
<1>5. ASSUME NEW a \in Actor, MoveNew(a) PROVE TypeOK'
  <2>1. mem[ProcOf[a]] \in (SUBSET Pkg) \cup {NoCat} /\ arg[a].pkgs \subseteq Pkg
    OBVIOUS
  <2>2. pc' \in [Actor -> Locations] /\ listed' \subseteq Pkg
    BY <1>5, <2>1 DEF MoveNew
  <2>3. arg' \in [Actor -> [op : Operations, pkgs : SUBSET Pkg]]
    BY <1>5 DEF MoveNew, Begin
  <2>4. catalog' \in (SUBSET Pkg) \cup {NoCat} /\ lock' \in Actor \cup {None}
    BY <1>5, <2>1 DEF MoveNew
  <2> QED
    BY <1>5, <2>2, <2>3, <2>4 DEF MoveNew
<1>6. ASSUME NEW a \in Actor, AddContent(a) PROVE TypeOK'
    BY <1>6 DEF AddContent, Begin, SetMem, Entries, Loaded, Idle
<1>7. ASSUME NEW a \in Actor, Rebuild(a) PROVE TypeOK'
    BY <1>7 DEF Rebuild, Begin, SetMem, Idle
<1>8. ASSUME NEW a \in Actor, Analyze(a) PROVE TypeOK'
    BY <1>8 DEF Analyze, FilesOf
<1>9. ASSUME NEW a \in Actor, AnalyzeFails(a) PROVE TypeOK'
    BY <1>9 DEF AnalyzeFails, Begin
<1>10. ASSUME NEW a \in Actor, RemoveManifests(a) PROVE TypeOK'
    BY <1>10 DEF RemoveManifests
<1>11. ASSUME NEW a \in Actor, RemoveFiles(a) PROVE TypeOK'
    BY <1>11 DEF RemoveFiles, Begin
<1>12. ASSUME NEW a \in Actor, NEW k \in Pkg, Open(a, k) PROVE TypeOK'
    BY <1>12 DEF Open, SetMem, Loaded, Entries, Idle, NoTrans
<1>13. ASSUME NEW a \in Actor, NEW k \in Pkg, Abandon(a, k) PROVE TypeOK'
    BY <1>13 DEF Abandon, NoTrans, Idle
<1>14. ASSUME NEW a \in Actor, NEW k \in Pkg, Close(a, k) PROVE TypeOK'
  <2>1. trans' = [trans EXCEPT ![k] = [trans[k] EXCEPT !.manifest = FALSE]]
    BY <1>14 DEF Close
  <2>2. [trans[k] EXCEPT !.manifest = FALSE]
            \in [open : BOOLEAN, manifest : BOOLEAN,
                 added : SUBSET File, stored : SUBSET File]
    <3>1. trans[k] \in [open : BOOLEAN, manifest : BOOLEAN,
                       added : SUBSET File, stored : SUBSET File]
      OBVIOUS
    <3> HIDE DEF TypeOK
    <3> QED
      BY <3>1, TransFields
  <2>3. trans' \in [Pkg -> [open : BOOLEAN, manifest : BOOLEAN,
                           added : SUBSET File, stored : SUBSET File]]
    BY <2>1, <2>2
  <2>4. arg' \in [Actor -> [op : Operations, pkgs : SUBSET Pkg]]
    BY <1>14 DEF Close, Begin
  <2>5. pc' \in [Actor -> Locations] /\ manifests' \subseteq Pkg
    BY <1>14 DEF Close
  <2> QED
    BY <1>14, <2>3, <2>4, <2>5 DEF Close
<1>15. ASSUME NEW a \in Actor, NEW k \in Pkg, InsertFile(a, k) PROVE TypeOK'
  <2>1. PICK f \in trans[k].stored :
            /\ files' = files \cup {f}
            /\ trans' = [trans EXCEPT ![k].stored = @ \ {f}]
    BY <1>15 DEF InsertFile
  <2>2. f \in File /\ trans[k].stored \ {f} \subseteq File
    OBVIOUS
  <2>3. files' \subseteq File
    BY <2>1, <2>2
  <2> DEFINE y == trans[k].stored \ {f}
  <2>4. [trans[k] EXCEPT !.stored = y]
            \in [open : BOOLEAN, manifest : BOOLEAN,
                 added : SUBSET File, stored : SUBSET File]
    <3>1. trans[k] \in [open : BOOLEAN, manifest : BOOLEAN,
                       added : SUBSET File, stored : SUBSET File]
      OBVIOUS
    <3>2. y \in SUBSET File
      BY <2>2
    <3> HIDE DEF y, TypeOK
    <3> QED
      BY <3>1, <3>2, TransFields
  <2>5. trans' = [trans EXCEPT ![k] = [trans[k] EXCEPT !.stored = y]]
    BY <2>1
  <2>6. trans' \in [Pkg -> [open : BOOLEAN, manifest : BOOLEAN,
                           added : SUBSET File, stored : SUBSET File]]
    BY <2>4, <2>5
  <2> QED
    BY <1>15, <2>3, <2>6 DEF InsertFile
<1>16. ASSUME NEW a \in Actor, NEW k \in Pkg, Inserted(a, k) PROVE TypeOK'
    BY <1>16 DEF Inserted
<1>17. ASSUME NEW a \in Actor, NEW k \in Pkg, AddPackage(a, k) PROVE TypeOK'
  <2>1. Entries(ProcOf[a]) \subseteq Pkg
    BY DEF Entries, Loaded
  <2>2. PICK c \in SUBSET Pkg : mem' = [mem EXCEPT ![ProcOf[a]] = c]
    BY <1>17, <2>1 DEF AddPackage, SetMem
  <2>3. pc' \in [Actor -> Locations] /\ lock' \in Actor \cup {None}
    BY <1>17 DEF AddPackage
  <2>4. arg' \in [Actor -> [op : Operations, pkgs : SUBSET Pkg]]
    BY <1>17 DEF AddPackage, Begin
  <2> QED
    BY <1>17, <2>2, <2>3, <2>4 DEF AddPackage
<1>18. ASSUME NEW a \in Actor, NEW k \in Pkg, Closed(a, k) PROVE TypeOK'
    BY <1>18 DEF Closed, Begin, NoTrans
<1>19. ASSUME NEW a \in Actor, NEW k \in Pkg, NEW f \in File, AddFile(a, k, f) PROVE TypeOK'
  <2>1. trans[k].added \cup {f} \subseteq File /\ trans[k].stored \cup {f} \subseteq File
    OBVIOUS
  <2> DEFINE x == trans[k].added \cup {f}
             y == IF f \in files THEN trans[k].stored ELSE trans[k].stored \cup {f}
  <2>2. [trans[k] EXCEPT !.added = x, !.stored = y]
            \in [open : BOOLEAN, manifest : BOOLEAN,
                 added : SUBSET File, stored : SUBSET File]
    <3>1. trans[k] \in [open : BOOLEAN, manifest : BOOLEAN,
                       added : SUBSET File, stored : SUBSET File]
      OBVIOUS
    <3>2. x \in SUBSET File /\ y \in SUBSET File
      BY <2>1
    <3> HIDE DEF x, y, TypeOK
    <3> QED
      BY <3>1, <3>2, TransFields
  <2>3. trans' = [trans EXCEPT ![k] = [trans[k] EXCEPT !.added = x, !.stored = y]]
    BY <1>19 DEF AddFile
  <2>4. trans' \in [Pkg -> [open : BOOLEAN, manifest : BOOLEAN,
                           added : SUBSET File, stored : SUBSET File]]
    BY <2>2, <2>3
  <2> QED
    BY <1>19, <2>4 DEF AddFile
<1>20. ASSUME NEW a \in Actor, NEW ks \in SUBSET Pkg, RemovePackages(a, ks) PROVE TypeOK'
    BY <1>20 DEF RemovePackages, Begin, SetMem, Entries, Loaded, Idle
<1> QED
    BY <1>1, <1>2, <1>3, <1>4, <1>5, <1>6, <1>7, <1>8, <1>9,
       <1>10, <1>11, <1>12, <1>13, <1>14, <1>15, <1>16, <1>17, <1>18,
       <1>19, <1>20
       DEF Next

(* The type invariant holds in every reachable state of the store.         *)
THEOREM Typing == Spec => []TypeOK
<1>1. ASSUME Init PROVE TypeOK
  <2>1. NoTrans \in [open : BOOLEAN, manifest : BOOLEAN,
                    added : SUBSET File, stored : SUBSET File]
    BY DEF NoTrans
  <2>2. [op |-> "none", pkgs |-> {}] \in [op : Operations, pkgs : SUBSET Pkg]
    BY DEF Operations
  <2> QED
    BY <1>1, <2>1, <2>2 DEF Init, TypeOK, Locations
<1> QED
    BY <1>1, TypeStep, PTL DEF Spec

(* What a thread is doing: its location and its operation agree.           *)
OpMatches ==
    \A a \in Actor :
        /\ pc[a] = "idle" => arg[a].op = "none" /\ arg[a].pkgs = {}
        /\ pc[a] \in {"insert", "lock", "rmtree"} => arg[a].op = "close"
        /\ pc[a] \in {"analyze", "rmmanifest", "rmfiles"} => arg[a].op = "remove"
        /\ arg[a].op = "remove" => Removes

(* A transaction being closed is complete, its manifest is in the store    *)
(* and, past the insertion, so are its files.                              *)
CloseIsSound ==
    \A a \in Actor, k \in Pkg :
        arg[a].op = "close" /\ k \in arg[a].pkgs =>
            /\ trans[k].open /\ ~trans[k].manifest
            /\ trans[k].added = Contents[k]
            /\ k \in manifests
            /\ pc[a] # "insert" => trans[k].stored = {}

(* No two threads close the same transaction.                              *)
ClosesApart ==
    \A a, b \in Actor, k \in Pkg :
        /\ arg[a].op = "close" /\ k \in arg[a].pkgs
        /\ arg[b].op = "close" /\ k \in arg[b].pkgs
        => a = b

(* A file a transaction relies on is in the store or in its directory.     *)
PayloadIsKept ==
    \A k \in Pkg : trans[k].open => trans[k].added \subseteq files \cup trans[k].stored

(* A removal sees no transaction and spares what was answered PUBLISHED.   *)
RemoveSpares ==
    \A a \in Actor : arg[a].op = "remove" =>
        /\ \A k \in Pkg : ~trans[k].open
        /\ acked \cap arg[a].pkgs = {}
        /\ pc[a] \in {"rmmanifest", "rmfiles"} =>
               \A k \in acked : Contents[k] \cap doomed[a] = {}

DurableInv ==
    /\ OpMatches /\ CloseIsSound /\ ClosesApart
    /\ PayloadIsKept /\ RemoveSpares /\ AckedIsDurable

(* Every step keeps the invariant from which durability follows.           *)
LEMMA DurableStep ==
    ASSUME TypeOK, TypeOK', DurableInv, [Next]_vars, Removes => QuietRemoves
    PROVE  DurableInv'
<1> USE ProcOfAssumption, ContentsAssumption, NoneAssumption DEF Goto, store, history
<1>1. CASE UNCHANGED vars
    BY <1>1 DEF vars, DurableInv, OpMatches, CloseIsSound, ClosesApart,
                PayloadIsKept, RemoveSpares, AckedIsDurable
<1>2. ASSUME NEW p \in Process, Start(p) PROVE DurableInv'
    BY <1>2 DEF TypeOK, DurableInv, OpMatches, CloseIsSound, ClosesApart,
      PayloadIsKept, RemoveSpares, AckedIsDurable, Start
<1>3. ASSUME NEW p \in Process, Stop(p) PROVE DurableInv'
  <2>1. OpMatches'
    BY <1>3 DEF TypeOK, DurableInv, OpMatches,
      Stop
  <2>2. CloseIsSound'
    BY <1>3 DEF TypeOK, DurableInv, CloseIsSound,
      Stop
  <2>3. ClosesApart'
    BY <1>3 DEF TypeOK, DurableInv, ClosesApart,
      Stop
  <2>4. PayloadIsKept'
    BY <1>3 DEF TypeOK, DurableInv, PayloadIsKept,
      Stop
  <2>5. RemoveSpares'
    BY <1>3 DEF TypeOK, DurableInv, RemoveSpares,
      Stop
  <2>6. AckedIsDurable'
    BY <1>3 DEF TypeOK, DurableInv, AckedIsDurable,
      Stop
  <2> QED
    BY <2>1, <2>2, <2>3, <2>4, <2>5, <2>6 DEF DurableInv
<1>4. ASSUME NEW a \in Actor, MoveOld(a) PROVE DurableInv'
    BY <1>4 DEF TypeOK, DurableInv, OpMatches, CloseIsSound, ClosesApart,
      PayloadIsKept, RemoveSpares, AckedIsDurable, MoveOld
<1>5. ASSUME NEW a \in Actor, MoveNew(a) PROVE DurableInv'
  <2>1. OpMatches'
    BY <1>5 DEF TypeOK, DurableInv, OpMatches,
      MoveNew, Begin
  <2>2. CloseIsSound'
    BY <1>5 DEF TypeOK, DurableInv, CloseIsSound, OpMatches, ClosesApart,
      PayloadIsKept, RemoveSpares,
      AckedIsDurable,
      MoveNew, Begin
  <2>3. ClosesApart'
    BY <1>5 DEF TypeOK, DurableInv, ClosesApart,
      MoveNew, Begin
  <2>4. PayloadIsKept'
    BY <1>5 DEF TypeOK, DurableInv, PayloadIsKept,
      MoveNew, Begin
  <2>5. RemoveSpares'
    <3>1. CASE arg[a].op = "close"
      BY <1>5, <3>1 DEF TypeOK, DurableInv, RemoveSpares,
        MoveNew, Begin
    <3>2. CASE ~(arg[a].op = "close")
      BY <1>5, <3>2 DEF TypeOK, DurableInv, RemoveSpares,
        MoveNew, Begin
    <3> QED
      BY <3>1, <3>2
  <2>6. AckedIsDurable'
    BY <1>5 DEF TypeOK, DurableInv, AckedIsDurable,
      MoveNew, Begin
  <2> QED
    BY <2>1, <2>2, <2>3, <2>4, <2>5, <2>6 DEF DurableInv
<1>6. ASSUME NEW a \in Actor, AddContent(a) PROVE DurableInv'
    BY <1>6 DEF TypeOK, DurableInv, OpMatches, CloseIsSound, ClosesApart,
      PayloadIsKept, RemoveSpares, AckedIsDurable, AddContent, Begin, Idle
<1>7. ASSUME NEW a \in Actor, Rebuild(a) PROVE DurableInv'
    BY <1>7 DEF TypeOK, DurableInv, OpMatches, CloseIsSound, ClosesApart,
      PayloadIsKept, RemoveSpares, AckedIsDurable, Rebuild, Begin, Idle
<1>8. ASSUME NEW a \in Actor, Analyze(a) PROVE DurableInv'
  <2>1. OpMatches'
    BY <1>8 DEF TypeOK, DurableInv, OpMatches,
      Analyze, FilesOf
  <2>2. CloseIsSound'
    BY <1>8 DEF TypeOK, DurableInv, CloseIsSound,
      Analyze, FilesOf
  <2>3. ClosesApart'
    BY <1>8 DEF TypeOK, DurableInv, ClosesApart,
      Analyze, FilesOf
  <2>4. PayloadIsKept'
    BY <1>8 DEF TypeOK, DurableInv, PayloadIsKept,
      Analyze, FilesOf
  <2>5. RemoveSpares'
    BY <1>8 DEF TypeOK, DurableInv, RemoveSpares, OpMatches, CloseIsSound, ClosesApart,
      PayloadIsKept, AckedIsDurable,
      Analyze, FilesOf
  <2>6. AckedIsDurable'
    BY <1>8 DEF TypeOK, DurableInv, AckedIsDurable,
      Analyze, FilesOf
  <2> QED
    BY <2>1, <2>2, <2>3, <2>4, <2>5, <2>6 DEF DurableInv
<1>9. ASSUME NEW a \in Actor, AnalyzeFails(a) PROVE DurableInv'
    BY <1>9 DEF TypeOK, DurableInv, OpMatches, CloseIsSound, ClosesApart,
      PayloadIsKept, RemoveSpares, AckedIsDurable, AnalyzeFails, Begin
<1>10. ASSUME NEW a \in Actor, RemoveManifests(a) PROVE DurableInv'
  <2>1. OpMatches'
    BY <1>10 DEF TypeOK, DurableInv, OpMatches,
      RemoveManifests
  <2>2. CloseIsSound'
    BY <1>10 DEF TypeOK, DurableInv, CloseIsSound, OpMatches, ClosesApart,
      PayloadIsKept, RemoveSpares,
      AckedIsDurable,
      RemoveManifests
  <2>3. ClosesApart'
    BY <1>10 DEF TypeOK, DurableInv, ClosesApart,
      RemoveManifests
  <2>4. PayloadIsKept'
    BY <1>10 DEF TypeOK, DurableInv, PayloadIsKept,
      RemoveManifests
  <2>5. RemoveSpares'
    BY <1>10 DEF TypeOK, DurableInv, RemoveSpares,
      RemoveManifests
  <2>6. AckedIsDurable'
    BY <1>10 DEF TypeOK, DurableInv, AckedIsDurable, OpMatches, CloseIsSound, ClosesApart,
      PayloadIsKept, RemoveSpares,
      RemoveManifests
  <2> QED
    BY <2>1, <2>2, <2>3, <2>4, <2>5, <2>6 DEF DurableInv
<1>11. ASSUME NEW a \in Actor, RemoveFiles(a) PROVE DurableInv'
  <2>1. OpMatches'
    BY <1>11 DEF TypeOK, DurableInv, OpMatches,
      RemoveFiles, Begin
  <2>2. CloseIsSound'
    BY <1>11 DEF TypeOK, DurableInv, CloseIsSound,
      RemoveFiles, Begin
  <2>3. ClosesApart'
    BY <1>11 DEF TypeOK, DurableInv, ClosesApart,
      RemoveFiles, Begin
  <2>4. PayloadIsKept'
    BY <1>11 DEF TypeOK, DurableInv, PayloadIsKept, OpMatches, CloseIsSound,
       ClosesApart, RemoveSpares,
      AckedIsDurable,
      RemoveFiles, Begin
  <2>5. RemoveSpares'
    BY <1>11 DEF TypeOK, DurableInv, RemoveSpares,
      RemoveFiles, Begin
  <2>6. AckedIsDurable'
    BY <1>11 DEF TypeOK, DurableInv, AckedIsDurable, OpMatches, CloseIsSound, ClosesApart,
      PayloadIsKept, RemoveSpares,
      RemoveFiles, Begin
  <2> QED
    BY <2>1, <2>2, <2>3, <2>4, <2>5, <2>6 DEF DurableInv
<1>12. ASSUME NEW a \in Actor, NEW k \in Pkg, Open(a, k) PROVE DurableInv'
  <2>1. OpMatches'
    BY <1>12 DEF TypeOK, DurableInv, OpMatches,
      Open, NoTrans, Idle
  <2>2. CloseIsSound'
    BY <1>12 DEF TypeOK, DurableInv, CloseIsSound,
      Open, NoTrans, Idle
  <2>3. ClosesApart'
    BY <1>12 DEF TypeOK, DurableInv, ClosesApart,
      Open, NoTrans, Idle
  <2>4. PayloadIsKept'
    BY <1>12 DEF TypeOK, DurableInv, PayloadIsKept,
      Open, NoTrans, Idle
  <2>5. RemoveSpares'
    BY <1>12 DEF TypeOK, DurableInv, RemoveSpares, OpMatches, CloseIsSound, ClosesApart,
      PayloadIsKept, AckedIsDurable,
      Open, NoTrans, Idle
  <2>6. AckedIsDurable'
    BY <1>12 DEF TypeOK, DurableInv, AckedIsDurable,
      Open, NoTrans, Idle
  <2> QED
    BY <2>1, <2>2, <2>3, <2>4, <2>5, <2>6 DEF DurableInv
<1>13. ASSUME NEW a \in Actor, NEW k \in Pkg, Abandon(a, k) PROVE DurableInv'
  <2>1. OpMatches'
    BY <1>13 DEF TypeOK, DurableInv, OpMatches,
      Abandon, NoTrans, Idle
  <2>2. CloseIsSound'
    BY <1>13 DEF TypeOK, DurableInv, CloseIsSound,
      Abandon, NoTrans, Idle
  <2>3. ClosesApart'
    BY <1>13 DEF TypeOK, DurableInv, ClosesApart,
      Abandon, NoTrans, Idle
  <2>4. PayloadIsKept'
    BY <1>13 DEF TypeOK, DurableInv, PayloadIsKept,
      Abandon, NoTrans, Idle
  <2>5. RemoveSpares'
    BY <1>13 DEF TypeOK, DurableInv, RemoveSpares,
      Abandon, NoTrans, Idle
  <2>6. AckedIsDurable'
    BY <1>13 DEF TypeOK, DurableInv, AckedIsDurable,
      Abandon, NoTrans, Idle
  <2> QED
    BY <2>1, <2>2, <2>3, <2>4, <2>5, <2>6 DEF DurableInv
<1>14. ASSUME NEW a \in Actor, NEW k \in Pkg, Close(a, k) PROVE DurableInv'
  <2>1. OpMatches'
    BY <1>14 DEF TypeOK, DurableInv, OpMatches,
      Close, Begin, Idle
  <2>2. CloseIsSound'
    BY <1>14 DEF TypeOK, DurableInv, CloseIsSound,
      Close, Begin, Idle
  <2>3. ClosesApart'
    BY <1>14 DEF TypeOK, DurableInv, ClosesApart, OpMatches, CloseIsSound,
       PayloadIsKept, RemoveSpares,
      AckedIsDurable,
      Close, Begin, Idle
  <2>4. PayloadIsKept'
    BY <1>14 DEF TypeOK, DurableInv, PayloadIsKept,
      Close, Begin, Idle
  <2>5. RemoveSpares'
    BY <1>14 DEF TypeOK, DurableInv, RemoveSpares,
      Close, Begin, Idle
  <2>6. AckedIsDurable'
    BY <1>14 DEF TypeOK, DurableInv, AckedIsDurable,
      Close, Begin, Idle
  <2> QED
    BY <2>1, <2>2, <2>3, <2>4, <2>5, <2>6 DEF DurableInv
<1>15. ASSUME NEW a \in Actor, NEW k \in Pkg, InsertFile(a, k) PROVE DurableInv'
  <2>1. OpMatches'
    BY <1>15 DEF TypeOK, DurableInv, OpMatches,
      InsertFile
  <2>2. CloseIsSound'
    BY <1>15 DEF TypeOK, DurableInv, CloseIsSound,
      InsertFile
  <2>3. ClosesApart'
    BY <1>15 DEF TypeOK, DurableInv, ClosesApart,
      InsertFile
  <2>4. PayloadIsKept'
    BY <1>15 DEF TypeOK, DurableInv, PayloadIsKept,
      InsertFile
  <2>5. RemoveSpares'
    BY <1>15 DEF TypeOK, DurableInv, RemoveSpares,
      InsertFile
  <2>6. AckedIsDurable'
    BY <1>15 DEF TypeOK, DurableInv, AckedIsDurable,
      InsertFile
  <2> QED
    BY <2>1, <2>2, <2>3, <2>4, <2>5, <2>6 DEF DurableInv
<1>16. ASSUME NEW a \in Actor, NEW k \in Pkg, Inserted(a, k) PROVE DurableInv'
    BY <1>16, SMTT(30) DEF TypeOK, DurableInv, OpMatches, CloseIsSound, ClosesApart,
      PayloadIsKept, RemoveSpares, AckedIsDurable, Inserted
<1>17. ASSUME NEW a \in Actor, NEW k \in Pkg, AddPackage(a, k) PROVE DurableInv'
  <2>0. /\ UNCHANGED <<manifests, files, trans, doomed, acked>>
        /\ pc[a] = "lock"
        /\ \/ /\ pc' = [pc EXCEPT ![a] = "idle"]
              /\ arg' = [arg EXCEPT ![a] = [op |-> "none", pkgs |-> {}]]
           \/ /\ pc' = [pc EXCEPT ![a] = "save"]
              /\ UNCHANGED arg
    BY <1>17 DEF AddPackage, Begin
  <2>7. ASSUME NEW b \in Actor, arg'[b].op = "close"
        PROVE  arg'[b] = arg[b] /\ (pc'[b] # "insert" => pc[b] # "insert")
    BY <2>0, <2>7 DEF TypeOK
  <2>1. OpMatches'
    BY <2>0 DEF TypeOK, DurableInv, OpMatches
  <2>2. CloseIsSound'
    BY <2>0, <2>7 DEF DurableInv, CloseIsSound
  <2>3. ClosesApart'
    BY <2>0, <2>7 DEF DurableInv, ClosesApart
  <2>4. PayloadIsKept'
    BY <2>0 DEF TypeOK, DurableInv, PayloadIsKept
  <2>5. RemoveSpares'
    BY <2>0, SMTT(30) DEF TypeOK, DurableInv, RemoveSpares
  <2>6. AckedIsDurable'
    BY <2>0 DEF TypeOK, DurableInv, AckedIsDurable
  <2> QED
    BY <2>1, <2>2, <2>3, <2>4, <2>5, <2>6 DEF DurableInv
<1>18. ASSUME NEW a \in Actor, NEW k \in Pkg, Closed(a, k) PROVE DurableInv'
  <2>1. OpMatches'
    BY <1>18 DEF TypeOK, DurableInv, OpMatches,
      Closed, NoTrans, Begin
  <2>2. CloseIsSound'
    BY <1>18 DEF TypeOK, DurableInv, CloseIsSound, OpMatches, ClosesApart,
      PayloadIsKept, RemoveSpares,
      AckedIsDurable,
      Closed, NoTrans, Begin
  <2>3. ClosesApart'
    BY <1>18 DEF TypeOK, DurableInv, ClosesApart,
      Closed, NoTrans, Begin
  <2>4. PayloadIsKept'
    BY <1>18 DEF TypeOK, DurableInv, PayloadIsKept,
      Closed, NoTrans, Begin
  <2>5. RemoveSpares'
    BY <1>18 DEF TypeOK, DurableInv, RemoveSpares, OpMatches, CloseIsSound, ClosesApart,
      PayloadIsKept, AckedIsDurable,
      Closed, NoTrans, Begin
  <2>6. AckedIsDurable'
    BY <1>18 DEF TypeOK, DurableInv, AckedIsDurable, OpMatches, CloseIsSound, ClosesApart,
      PayloadIsKept, RemoveSpares,
      Closed, NoTrans, Begin
  <2> QED
    BY <2>1, <2>2, <2>3, <2>4, <2>5, <2>6 DEF DurableInv
<1>19. ASSUME NEW a \in Actor, NEW k \in Pkg, NEW f \in File, AddFile(a, k, f) PROVE DurableInv'
  <2>1. OpMatches'
    BY <1>19 DEF TypeOK, DurableInv, OpMatches,
      AddFile, Idle
  <2>2. CloseIsSound'
    BY <1>19 DEF TypeOK, DurableInv, CloseIsSound,
      AddFile, Idle
  <2>3. ClosesApart'
    BY <1>19 DEF TypeOK, DurableInv, ClosesApart,
      AddFile, Idle
  <2>4. PayloadIsKept'
    BY <1>19 DEF TypeOK, DurableInv, PayloadIsKept,
      AddFile, Idle
  <2>5. RemoveSpares'
    BY <1>19 DEF TypeOK, DurableInv, RemoveSpares,
      AddFile, Idle
  <2>6. AckedIsDurable'
    BY <1>19 DEF TypeOK, DurableInv, AckedIsDurable,
      AddFile, Idle
  <2> QED
    BY <2>1, <2>2, <2>3, <2>4, <2>5, <2>6 DEF DurableInv
<1>20. ASSUME NEW a \in Actor, NEW ks \in SUBSET Pkg, RemovePackages(a, ks) PROVE DurableInv'
  <2>1. OpMatches'
    BY <1>20 DEF TypeOK, DurableInv, OpMatches,
      RemovePackages, Begin, Idle
  <2>2. CloseIsSound'
    BY <1>20 DEF TypeOK, DurableInv, CloseIsSound,
      RemovePackages, Begin, Idle
  <2>3. ClosesApart'
    BY <1>20 DEF TypeOK, DurableInv, ClosesApart,
      RemovePackages, Begin, Idle
  <2>4. PayloadIsKept'
    BY <1>20 DEF TypeOK, DurableInv, PayloadIsKept,
      RemovePackages, Begin, Idle
  <2>5. RemoveSpares'
    BY <1>20 DEF TypeOK, DurableInv, RemoveSpares,
      RemovePackages, Begin, Idle
  <2>6. AckedIsDurable'
    BY <1>20 DEF TypeOK, DurableInv, AckedIsDurable,
      RemovePackages, Begin, Idle
  <2> QED
    BY <2>1, <2>2, <2>3, <2>4, <2>5, <2>6 DEF DurableInv
<1> QED
    BY <1>1, <1>2, <1>3, <1>4, <1>5, <1>6, <1>7, <1>8, <1>9, <1>10, <1>11, <1>12,
       <1>13, <1>14, <1>15, <1>16, <1>17, <1>18, <1>19, <1>20 DEF Next

(* What was answered PUBLISHED keeps its manifest and its files in every   *)
(* store, whatever crashes, repairs and other threads do, provided that    *)
(* packages are removed only while no transaction is open.                 *)
THEOREM PublishedIsDurable ==
    ASSUME Removes => QuietRemoves PROVE Spec => []AckedIsDurable
<1>1. Init => DurableInv
    BY DEF Init, NoTrans, DurableInv, OpMatches, CloseIsSound, ClosesApart,
           PayloadIsKept, RemoveSpares, AckedIsDurable
<1>2. TypeOK /\ TypeOK' /\ DurableInv /\ [Next]_vars => DurableInv'
    BY DurableStep
<1>3. DurableInv => AckedIsDurable
    BY DEF DurableInv
<1> QED
    BY <1>1, <1>2, <1>3, Typing, PTL DEF Spec
-----------------------------------------------------------------------------
(* The catalog, when one process at a time has the repository open and the *)
(* catalog is not repaired from the manifests.                             *)

\* Where a thread holds the repository lock.
Locking == {"save", "move", "analyze", "rmmanifest", "rmfiles"}
Servable(ks) == \A k \in ks : k \in manifests /\ Contents[k] \subseteq files

\* One process has the repository open; only it has a catalog object and
\* threads at work, one of which may hold the lock.
OneProcess ==
    /\ \A p, q \in up : p = q
    /\ \A p \in Process : p \notin up => mem[p] = NoCat
    /\ \A a \in Actor : /\ pc[a] # "idle" => ProcOf[a] \in up
                        /\ pc[a] \in Locking <=> lock = a

\* A catalog object differs from the catalog on disk only while it is saved:
\* it has the package that is published too.
MemIsCatalog ==
    /\ \A a \in Actor : pc[a] \in {"save", "move"} =>
           /\ arg[a].op = "close"
           /\ mem[ProcOf[a]] # NoCat /\ arg[a].pkgs \subseteq mem[ProcOf[a]]
           /\ pc[a] = "save" => catalog # NoCat /\ catalog \subseteq mem[ProcOf[a]]
    /\ (\A a \in Actor : pc[a] \notin {"save", "move"}) =>
           \A p \in Process : mem[p] # NoCat => mem[p] = catalog

\* Readers find no catalog between the two renames only, or after a process
\* died there, until the next one opens the repository.
CatalogIsThere ==
    catalog = NoCat => \/ \E a \in Actor : pc[a] = "move"
                       \/ cut /\ up = {}

MemIsServable ==
    /\ catalog # NoCat => Servable(catalog)
    /\ \A p \in Process : mem[p] # NoCat => Servable(mem[p])

\* A removal spares what the catalog lists.
RemoveSparesCatalog ==
    \A a \in Actor : pc[a] \in {"analyze", "rmmanifest", "rmfiles"} =>
        /\ catalog \cap arg[a].pkgs = {}
        /\ pc[a] # "analyze" => \A k \in Pkg : k \in catalog => Contents[k] \cap doomed[a] = {}

CatalogInv ==
    /\ OneProcess /\ MemIsCatalog /\ CatalogIsThere
    /\ MemIsServable /\ RemoveSparesCatalog

(* A step of a thread without the lock that leaves the catalog alone and   *)
(* only adds to the store.                                                 *)
LEMMA QuietStep ==
    ASSUME TypeOK, CatalogInv, NEW a \in Actor, ProcOf[a] \in up, pc[a] \notin Locking,
           NEW l \in Locations \ Locking, pc' = [pc EXCEPT ![a] = l],
           \A b \in Actor \ {a} : arg'[b] = arg[b],
           manifests \subseteq manifests', files \subseteq files',
           UNCHANGED <<catalog, mem, lock, up, doomed, cut>>
    PROVE  CatalogInv'
<1> USE ProcOfAssumption DEF TypeOK, Locking, CatalogInv
<1>0. \A b \in Actor : pc'[b] \in Locking => b # a /\ pc[b] = pc'[b] /\ arg'[b] = arg[b]
    OBVIOUS
<1>1. OneProcess'
    BY <1>0 DEF OneProcess
<1>2. MemIsCatalog'
    BY <1>0 DEF MemIsCatalog
<1>3. CatalogIsThere'
    BY <1>0 DEF CatalogIsThere
<1>4. MemIsServable'
    BY <1>0 DEF MemIsServable, Servable
<1>5. RemoveSparesCatalog'
    BY <1>0 DEF RemoveSparesCatalog
<1> QED
    BY <1>1, <1>2, <1>3, <1>4, <1>5

(* Every step keeps the catalog servable.                                  *)
LEMMA CatalogStep ==
    ASSUME TypeOK, TypeOK', DurableInv, CatalogInv, [Next]_vars,
           Exclusive, ~Repairs, Removes => QuietRemoves
    PROVE  CatalogInv'
<1> USE ProcOfAssumption, ContentsAssumption, NoneAssumption DEF Goto, store, history
<1>0. /\ OneProcess /\ MemIsCatalog /\ CatalogIsThere
      /\ MemIsServable /\ RemoveSparesCatalog
      /\ OpMatches /\ CloseIsSound /\ PayloadIsKept /\ RemoveSpares
    BY DEF CatalogInv, DurableInv
<1>n. \A ks \in SUBSET Pkg : ks # NoCat
    BY DEF NoCat
<1>1. CASE UNCHANGED vars
    BY <1>0, <1>1 DEF vars, CatalogInv, Servable, OneProcess, MemIsCatalog, CatalogIsThere,
      MemIsServable, RemoveSparesCatalog
<1>2. ASSUME NEW p \in Process, Start(p) PROVE CatalogInv'
  <2>1. OneProcess'
    BY <1>0, <1>n, <1>2 DEF TypeOK, OneProcess, Locking, Start
  <2>2. MemIsCatalog'
    BY <1>0, <1>n, <1>2 DEF TypeOK, MemIsCatalog, OneProcess, CatalogIsThere,
       OpMatches, Locking, Start
  <2>3. CatalogIsThere'
    BY <1>0, <1>n, <1>2 DEF TypeOK, CatalogIsThere, OneProcess, MemIsCatalog, Locking, Start
  <2>4. MemIsServable'
    BY <1>0, <1>n, <1>2 DEF TypeOK, MemIsServable, Servable, OneProcess,
       MemIsCatalog, CatalogIsThere, RemoveSparesCatalog, CloseIsSound, PayloadIsKept,
       OpMatches, Locking, Start
  <2>5. RemoveSparesCatalog'
    BY <1>0, <1>n, <1>2 DEF TypeOK, RemoveSparesCatalog, OneProcess, MemIsCatalog,
       CatalogIsThere, MemIsServable, Servable, OpMatches, Locking, Start
  <2> QED
    BY <2>1, <2>2, <2>3, <2>4, <2>5 DEF CatalogInv
<1>3. ASSUME NEW p \in Process, Stop(p) PROVE CatalogInv'
  <2>1. OneProcess'
    BY <1>0, <1>n, <1>3 DEF TypeOK, OneProcess, Locking, Stop
  <2>2. MemIsCatalog'
    BY <1>0, <1>n, <1>3 DEF TypeOK, MemIsCatalog, OneProcess, CatalogIsThere,
       OpMatches, Locking, Stop
  <2>3. CatalogIsThere'
    <3>1. up' = up \ {p} /\ UNCHANGED catalog
          /\ cut' = (cut \/ \E a \in Actor : ProcOf[a] = p /\ pc[a] = "move")
      BY <1>3 DEF Stop
    <3>2. up' = {}
      BY <1>0, <1>3, <3>1 DEF OneProcess, Stop, TypeOK
    <3>3. ASSUME catalog = NoCat PROVE cut'
      <4>1. CASE cut
        BY <3>1, <4>1
      <4>2. CASE \E a \in Actor : pc[a] = "move"
        <5>1. PICK a \in Actor : pc[a] = "move"
          BY <4>2
        <5>2. ProcOf[a] = p
          BY <1>0, <1>3, <5>1 DEF OneProcess, Stop
        <5> QED
          BY <3>1, <5>1, <5>2
      <4> QED
        BY <1>0, <3>3, <4>1, <4>2 DEF CatalogIsThere
    <3> QED
      BY <3>1, <3>2, <3>3 DEF CatalogIsThere
  <2>4. MemIsServable'
    BY <1>0, <1>n, <1>3 DEF TypeOK, MemIsServable, Servable, OneProcess,
       MemIsCatalog, CatalogIsThere, RemoveSparesCatalog, CloseIsSound, PayloadIsKept,
       OpMatches, Locking, Stop
  <2>5. RemoveSparesCatalog'
    BY <1>0, <1>n, <1>3 DEF TypeOK, RemoveSparesCatalog, OneProcess, MemIsCatalog,
       CatalogIsThere, MemIsServable, Servable, OpMatches, Locking, Stop
  <2> QED
    BY <2>1, <2>2, <2>3, <2>4, <2>5 DEF CatalogInv
<1>4. ASSUME NEW a \in Actor, MoveOld(a) PROVE CatalogInv'
  <2>1. OneProcess'
    BY <1>0, <1>n, <1>4 DEF TypeOK, OneProcess, Locking, MoveOld
  <2>2. MemIsCatalog'
    BY <1>0, <1>n, <1>4 DEF TypeOK, MemIsCatalog, OneProcess, CatalogIsThere,
       OpMatches, Locking, MoveOld
  <2>3. CatalogIsThere'
    BY <1>0, <1>n, <1>4 DEF TypeOK, CatalogIsThere, OneProcess, MemIsCatalog,
       Locking, MoveOld
  <2>4. MemIsServable'
    BY <1>0, <1>n, <1>4 DEF TypeOK, MemIsServable, Servable, OneProcess,
       MemIsCatalog, CatalogIsThere, RemoveSparesCatalog, CloseIsSound, PayloadIsKept,
       OpMatches, Locking, MoveOld
  <2>5. RemoveSparesCatalog'
    BY <1>0, <1>n, <1>4 DEF TypeOK, RemoveSparesCatalog, OneProcess, MemIsCatalog,
       CatalogIsThere, MemIsServable, Servable, OpMatches, Locking, MoveOld
  <2> QED
    BY <2>1, <2>2, <2>3, <2>4, <2>5 DEF CatalogInv
<1>5. ASSUME NEW a \in Actor, MoveNew(a) PROVE CatalogInv'
  <2>1. OneProcess'
    BY <1>0, <1>n, <1>5 DEF TypeOK, OneProcess, Locking, MoveNew, Begin
  <2>2. MemIsCatalog'
    BY <1>0, <1>n, <1>5 DEF TypeOK, MemIsCatalog, OneProcess, CatalogIsThere,
       OpMatches, Locking, MoveNew, Begin
  <2>3. CatalogIsThere'
    BY <1>0, <1>n, <1>5 DEF TypeOK, CatalogIsThere, OneProcess, MemIsCatalog,
       Locking, MoveNew, Begin
  <2>4. MemIsServable'
    BY <1>0, <1>n, <1>5 DEF TypeOK, MemIsServable, Servable, OneProcess,
       MemIsCatalog, CatalogIsThere, RemoveSparesCatalog, CloseIsSound, PayloadIsKept,
       OpMatches, Locking, MoveNew, Begin
  <2>5. RemoveSparesCatalog'
    BY <1>0, <1>n, <1>5 DEF TypeOK, RemoveSparesCatalog, OneProcess, MemIsCatalog,
       CatalogIsThere, MemIsServable, Servable, OpMatches, Locking, MoveNew, Begin
  <2> QED
    BY <2>1, <2>2, <2>3, <2>4, <2>5 DEF CatalogInv
<1>6. ASSUME NEW a \in Actor, Analyze(a) PROVE CatalogInv'
  <2>1. OneProcess'
    BY <1>0, <1>n, <1>6 DEF TypeOK, OneProcess, Locking, Analyze, FilesOf
  <2>2. MemIsCatalog'
    BY <1>0, <1>n, <1>6 DEF TypeOK, MemIsCatalog, OneProcess, CatalogIsThere,
       OpMatches, Locking, Analyze, FilesOf
  <2>3. CatalogIsThere'
    BY <1>0, <1>n, <1>6 DEF TypeOK, CatalogIsThere, OneProcess, MemIsCatalog,
       Locking, Analyze, FilesOf
  <2>4. MemIsServable'
    BY <1>0, <1>n, <1>6 DEF TypeOK, MemIsServable, Servable, OneProcess,
       MemIsCatalog, CatalogIsThere, RemoveSparesCatalog, CloseIsSound, PayloadIsKept,
       OpMatches, Locking, Analyze, FilesOf
  <2>5. RemoveSparesCatalog'
    BY <1>0, <1>n, <1>6 DEF TypeOK, RemoveSparesCatalog, OneProcess, MemIsCatalog,
       CatalogIsThere, MemIsServable, Servable, OpMatches, Locking, Analyze, FilesOf
  <2> QED
    BY <2>1, <2>2, <2>3, <2>4, <2>5 DEF CatalogInv
<1>7. ASSUME NEW a \in Actor, AnalyzeFails(a) PROVE CatalogInv'
  <2>1. OneProcess'
    BY <1>0, <1>n, <1>7 DEF TypeOK, OneProcess, Locking, AnalyzeFails, Begin
  <2>2. MemIsCatalog'
    BY <1>0, <1>n, <1>7 DEF TypeOK, MemIsCatalog, OneProcess, CatalogIsThere,
       OpMatches, Locking, AnalyzeFails, Begin
  <2>3. CatalogIsThere'
    BY <1>0, <1>n, <1>7 DEF TypeOK, CatalogIsThere, OneProcess, MemIsCatalog,
       Locking, AnalyzeFails, Begin
  <2>4. MemIsServable'
    BY <1>0, <1>n, <1>7 DEF TypeOK, MemIsServable, Servable, OneProcess,
       MemIsCatalog, CatalogIsThere, RemoveSparesCatalog, CloseIsSound, PayloadIsKept,
       OpMatches, Locking, AnalyzeFails, Begin
  <2>5. RemoveSparesCatalog'
    BY <1>0, <1>n, <1>7 DEF TypeOK, RemoveSparesCatalog, OneProcess, MemIsCatalog,
       CatalogIsThere, MemIsServable, Servable, OpMatches, Locking, AnalyzeFails, Begin
  <2> QED
    BY <2>1, <2>2, <2>3, <2>4, <2>5 DEF CatalogInv
<1>8. ASSUME NEW a \in Actor, RemoveManifests(a) PROVE CatalogInv'
  <2>1. OneProcess'
    BY <1>0, <1>n, <1>8 DEF TypeOK, OneProcess, Locking, RemoveManifests
  <2>2. MemIsCatalog'
    BY <1>0, <1>n, <1>8 DEF TypeOK, MemIsCatalog, OneProcess, CatalogIsThere,
       OpMatches, Locking, RemoveManifests
  <2>3. CatalogIsThere'
    BY <1>0, <1>n, <1>8 DEF TypeOK, CatalogIsThere, OneProcess, MemIsCatalog,
       Locking, RemoveManifests
  <2>4. MemIsServable'
    BY <1>0, <1>n, <1>8 DEF TypeOK, MemIsServable, Servable, OneProcess,
       MemIsCatalog, CatalogIsThere, RemoveSparesCatalog, CloseIsSound, PayloadIsKept,
       OpMatches, Locking, RemoveManifests
  <2>5. RemoveSparesCatalog'
    BY <1>0, <1>n, <1>8 DEF TypeOK, RemoveSparesCatalog, OneProcess, MemIsCatalog,
       CatalogIsThere, MemIsServable, Servable, OpMatches, Locking, RemoveManifests
  <2> QED
    BY <2>1, <2>2, <2>3, <2>4, <2>5 DEF CatalogInv
<1>9. ASSUME NEW a \in Actor, RemoveFiles(a) PROVE CatalogInv'
  <2>1. OneProcess'
    BY <1>0, <1>n, <1>9 DEF TypeOK, OneProcess, Locking, RemoveFiles, Begin
  <2>2. MemIsCatalog'
    BY <1>0, <1>n, <1>9 DEF TypeOK, MemIsCatalog, OneProcess, CatalogIsThere,
       OpMatches, Locking, RemoveFiles, Begin
  <2>3. CatalogIsThere'
    BY <1>0, <1>n, <1>9 DEF TypeOK, CatalogIsThere, OneProcess, MemIsCatalog,
       Locking, RemoveFiles, Begin
  <2>4. MemIsServable'
    BY <1>0, <1>n, <1>9 DEF TypeOK, MemIsServable, Servable, OneProcess,
       MemIsCatalog, CatalogIsThere, RemoveSparesCatalog, CloseIsSound, PayloadIsKept,
       OpMatches, Locking, RemoveFiles, Begin
  <2>5. RemoveSparesCatalog'
    BY <1>0, <1>n, <1>9 DEF TypeOK, RemoveSparesCatalog, OneProcess, MemIsCatalog,
       CatalogIsThere, MemIsServable, Servable, OpMatches, Locking, RemoveFiles, Begin
  <2> QED
    BY <2>1, <2>2, <2>3, <2>4, <2>5 DEF CatalogInv
<1>10. ASSUME NEW a \in Actor, NEW k \in Pkg, Open(a, k) PROVE CatalogInv'
  <2>1. OneProcess'
    BY <1>0, <1>n, <1>10 DEF TypeOK, OneProcess, Locking, Open, SetMem, Loaded,
       Entries, Idle
  <2>2. MemIsCatalog'
    BY <1>0, <1>n, <1>10 DEF TypeOK, MemIsCatalog, OneProcess, CatalogIsThere,
       OpMatches, Locking, Open, SetMem, Loaded, Entries, Idle
  <2>3. CatalogIsThere'
    BY <1>0, <1>n, <1>10 DEF TypeOK, CatalogIsThere, OneProcess, MemIsCatalog,
       Locking, Open, SetMem, Loaded, Entries, Idle
  <2>4. MemIsServable'
    BY <1>0, <1>n, <1>10 DEF TypeOK, MemIsServable, Servable, OneProcess,
       MemIsCatalog, CatalogIsThere, RemoveSparesCatalog, CloseIsSound, PayloadIsKept,
       OpMatches, Locking, Open, SetMem, Loaded, Entries, Idle
  <2>5. RemoveSparesCatalog'
    BY <1>0, <1>n, <1>10 DEF TypeOK, RemoveSparesCatalog, OneProcess, MemIsCatalog,
       CatalogIsThere, MemIsServable, Servable, OpMatches, Locking, Open, SetMem,
       Loaded, Entries, Idle
  <2> QED
    BY <2>1, <2>2, <2>3, <2>4, <2>5 DEF CatalogInv
<1>11. ASSUME NEW a \in Actor, NEW k \in Pkg, AddPackage(a, k) PROVE CatalogInv'
  <2>a. /\ pc[a] = "lock" /\ arg[a].pkgs = {k} /\ arg[a].op = "close" /\ ProcOf[a] \in up
        /\ \A b \in Actor : pc[b] \notin Locking
    BY <1>0, <1>11 DEF TypeOK, AddPackage, OpMatches, OneProcess, Locking
  <2>b. catalog # NoCat /\ Entries(ProcOf[a]) = catalog
    BY <1>0, <2>a DEF CatalogIsThere, MemIsCatalog, Locking, Entries, Loaded
  <2>c. \A p \in Process : p # ProcOf[a] => mem[p] = NoCat
    BY <1>0, <2>a DEF OneProcess
  <2>d. \/ /\ pc' = [pc EXCEPT ![a] = "idle"]
           /\ mem' = [mem EXCEPT ![ProcOf[a]] = catalog]
        \/ /\ pc' = [pc EXCEPT ![a] = "save"] /\ UNCHANGED arg
           /\ mem' = [mem EXCEPT ![ProcOf[a]] = catalog \cup {k}]
    BY <1>11, <2>b DEF AddPackage, SetMem
  <2>e. UNCHANGED catalog /\ catalog \cup {k} # NoCat
    BY <1>n, <1>11, <2>b DEF TypeOK, AddPackage
  <2>1. OneProcess'
    BY <1>0, <1>n, <1>11 DEF TypeOK, OneProcess, Locking, AddPackage, SetMem,
       Loaded, Entries, Begin
  <2>2. MemIsCatalog'
    <3>1. CASE /\ pc' = [pc EXCEPT ![a] = "idle"]
               /\ mem' = [mem EXCEPT ![ProcOf[a]] = catalog]
      BY <2>a, <2>c, <2>e, <3>1 DEF TypeOK, MemIsCatalog, Locking
    <3>2. CASE /\ pc' = [pc EXCEPT ![a] = "save"] /\ UNCHANGED arg
               /\ mem' = [mem EXCEPT ![ProcOf[a]] = catalog \cup {k}]
      <4>1. /\ pc'[a] = "save" /\ \A b \in Actor \ {a} : pc'[b] \notin {"save", "move"}
            /\ mem'[ProcOf[a]] = catalog \cup {k}
        BY <2>a, <3>2 DEF TypeOK, Locking
      <4> QED
        BY <2>a, <2>b, <2>e, <3>2, <4>1 DEF MemIsCatalog
    <3> QED
      BY <2>d, <3>1, <3>2
  <2>3. CatalogIsThere'
    BY <1>0, <1>n, <1>11 DEF TypeOK, CatalogIsThere, OneProcess, MemIsCatalog,
       Locking, AddPackage, SetMem, Loaded, Entries, Begin
  <2>4. MemIsServable'
    <3>1. k \in manifests /\ Contents[k] \subseteq files
      BY <1>0, <2>a DEF TypeOK, CloseIsSound, PayloadIsKept
    <3>2. Servable(catalog) /\ Servable(catalog \cup {k})
      BY <1>0, <2>b, <3>1 DEF MemIsServable, Servable
    <3>3. UNCHANGED <<manifests, files>>
      BY <1>11 DEF AddPackage
    <3>4. \A ks : Servable(ks)' <=> Servable(ks)
      BY <3>3 DEF Servable
    <3>5. \A p \in Process : mem'[p] \in {mem[p], catalog, catalog \cup {k}}
      BY <2>d DEF TypeOK
    <3>6. \A p \in Process : mem'[p] # NoCat => Servable(mem'[p])
      BY <1>0, <3>2, <3>5 DEF MemIsServable
    <3> QED
      BY <1>0, <2>e, <3>3, <3>6 DEF MemIsServable, Servable
  <2>5. RemoveSparesCatalog'
    BY <1>0, <1>n, <1>11 DEF TypeOK, RemoveSparesCatalog, OneProcess, MemIsCatalog,
       CatalogIsThere, MemIsServable, Servable, OpMatches, Locking, AddPackage, SetMem,
       Loaded, Entries, Begin
  <2> QED
    BY <2>1, <2>2, <2>3, <2>4, <2>5 DEF CatalogInv
<1>12. ASSUME NEW a \in Actor, NEW ks \in SUBSET Pkg, RemovePackages(a, ks) PROVE CatalogInv'
  <2>1. OneProcess'
    BY <1>0, <1>n, <1>12 DEF TypeOK, OneProcess, Locking, RemovePackages, SetMem,
       Loaded, Entries, Begin, Idle
  <2>2. MemIsCatalog'
    <3>1. /\ ProcOf[a] \in up /\ pc' = [pc EXCEPT ![a] = "analyze"]
          /\ \A b \in Actor : pc[b] \notin Locking
      BY <1>0, <1>12 DEF TypeOK, RemovePackages, Idle, OneProcess, Locking
    <3>2. catalog # NoCat /\ Entries(ProcOf[a]) = catalog
      BY <1>0, <3>1 DEF CatalogIsThere, MemIsCatalog, Locking, Entries, Loaded
    <3>3. \A p \in Process : p # ProcOf[a] => mem[p] = NoCat
      BY <1>0, <3>1 DEF OneProcess
    <3>4. /\ catalog' = catalog \ ks
          /\ mem' = [mem EXCEPT ![ProcOf[a]] = catalog \ ks]
      BY <1>12, <3>2 DEF RemovePackages, SetMem
    <3> QED
      BY <3>1, <3>3, <3>4 DEF TypeOK, MemIsCatalog, Locking
  <2>3. CatalogIsThere'
    BY <1>0, <1>n, <1>12 DEF TypeOK, CatalogIsThere, OneProcess, MemIsCatalog,
       Locking, RemovePackages, SetMem, Loaded, Entries, Begin, Idle
  <2>4. MemIsServable'
    BY <1>0, <1>n, <1>12 DEF TypeOK, MemIsServable, Servable, OneProcess,
       MemIsCatalog, CatalogIsThere, RemoveSparesCatalog, CloseIsSound, PayloadIsKept,
       OpMatches, Locking, RemovePackages, SetMem, Loaded, Entries, Begin, Idle
  <2>5. RemoveSparesCatalog'
    BY <1>0, <1>n, <1>12 DEF TypeOK, RemoveSparesCatalog, OneProcess, MemIsCatalog,
       CatalogIsThere, MemIsServable, Servable, OpMatches, Locking, RemovePackages,
       SetMem, Loaded, Entries, Begin, Idle
  <2> QED
    BY <2>1, <2>2, <2>3, <2>4, <2>5 DEF CatalogInv
<1>13. ASSUME NEW a \in Actor, NEW k \in Pkg, Abandon(a, k) PROVE CatalogInv'
  <2>1. /\ ProcOf[a] \in up /\ pc[a] \notin Locking
        /\ \A b \in Actor \ {a} : arg'[b] = arg[b]
        /\ manifests \subseteq manifests' /\ files \subseteq files'
        /\ UNCHANGED <<catalog, mem, lock, up, doomed, listed, cut>>
    BY <1>0, <1>13 DEF TypeOK, OneProcess, Locking, Abandon, Idle
  <2>2. pc' = [pc EXCEPT ![a] = pc[a]] /\ pc[a] \in Locations \ Locking
    BY <1>13, <2>1 DEF TypeOK, Locations, Locking, Abandon, Idle
  <2> QED
    BY <2>1, <2>2, QuietStep
<1>14. ASSUME NEW a \in Actor, NEW k \in Pkg, Close(a, k) PROVE CatalogInv'
  <2>1. /\ ProcOf[a] \in up /\ pc[a] \notin Locking
        /\ \A b \in Actor \ {a} : arg'[b] = arg[b]
        /\ manifests \subseteq manifests' /\ files \subseteq files'
        /\ UNCHANGED <<catalog, mem, lock, up, doomed, listed, cut>>
    BY <1>0, <1>14 DEF TypeOK, OneProcess, Locking, Close, Idle, Begin
  <2>2. pc' = [pc EXCEPT ![a] = "insert"] /\ "insert" \in Locations \ Locking
    BY <1>14, <2>1 DEF TypeOK, Locations, Locking, Close, Idle, Begin
  <2> QED
    BY <2>1, <2>2, QuietStep
<1>15. ASSUME NEW a \in Actor, NEW k \in Pkg, InsertFile(a, k) PROVE CatalogInv'
  <2>1. /\ ProcOf[a] \in up /\ pc[a] \notin Locking
        /\ \A b \in Actor \ {a} : arg'[b] = arg[b]
        /\ manifests \subseteq manifests' /\ files \subseteq files'
        /\ UNCHANGED <<catalog, mem, lock, up, doomed, listed, cut>>
    BY <1>0, <1>15 DEF TypeOK, OneProcess, Locking, InsertFile
  <2>2. pc' = [pc EXCEPT ![a] = pc[a]] /\ pc[a] \in Locations \ Locking
    BY <1>15, <2>1 DEF TypeOK, Locations, Locking, InsertFile
  <2> QED
    BY <2>1, <2>2, QuietStep
<1>16. ASSUME NEW a \in Actor, NEW k \in Pkg, Inserted(a, k) PROVE CatalogInv'
  <2>1. /\ ProcOf[a] \in up /\ pc[a] \notin Locking
        /\ \A b \in Actor \ {a} : arg'[b] = arg[b]
        /\ manifests \subseteq manifests' /\ files \subseteq files'
        /\ UNCHANGED <<catalog, mem, lock, up, doomed, listed, cut>>
    BY <1>0, <1>16 DEF TypeOK, OneProcess, Locking, Inserted
  <2>2. \E l \in Locations \ Locking : pc' = [pc EXCEPT ![a] = l]
    BY <1>16 DEF Locations, Locking, Inserted
  <2> QED
    BY <2>1, <2>2, QuietStep
<1>17. ASSUME NEW a \in Actor, NEW k \in Pkg, Closed(a, k) PROVE CatalogInv'
  <2>1. /\ ProcOf[a] \in up /\ pc[a] \notin Locking
        /\ \A b \in Actor \ {a} : arg'[b] = arg[b]
        /\ manifests \subseteq manifests' /\ files \subseteq files'
        /\ UNCHANGED <<catalog, mem, lock, up, doomed, listed, cut>>
    BY <1>0, <1>17 DEF TypeOK, OneProcess, Locking, Closed, Begin
  <2>2. pc' = [pc EXCEPT ![a] = "idle"] /\ "idle" \in Locations \ Locking
    BY <1>17, <2>1 DEF TypeOK, Locations, Locking, Closed, Begin
  <2> QED
    BY <2>1, <2>2, QuietStep
<1>18. ASSUME NEW a \in Actor, NEW k \in Pkg, NEW f \in File, AddFile(a, k, f) PROVE CatalogInv'
  <2>1. /\ ProcOf[a] \in up /\ pc[a] \notin Locking
        /\ \A b \in Actor \ {a} : arg'[b] = arg[b]
        /\ manifests \subseteq manifests' /\ files \subseteq files'
        /\ UNCHANGED <<catalog, mem, lock, up, doomed, listed, cut>>
    BY <1>0, <1>18 DEF TypeOK, OneProcess, Locking, AddFile, Idle
  <2>2. pc' = [pc EXCEPT ![a] = pc[a]] /\ pc[a] \in Locations \ Locking
    BY <1>18, <2>1 DEF TypeOK, Locations, Locking, AddFile, Idle
  <2> QED
    BY <2>1, <2>2, QuietStep
<1> QED
    BY <1>1, <1>2, <1>3, <1>4, <1>5, <1>6, <1>7, <1>8, <1>9, <1>10, <1>11, <1>12,
       <1>13, <1>14, <1>15, <1>16, <1>17, <1>18
       DEF Next, AddContent, Rebuild

(* With one process at a time, and while the catalog is not repaired, the  *)
(* catalog on disk lists only packages whose manifests and files are all   *)
(* in the store, and every package that was published into it.             *)
LEMMA CatalogInvariance ==
    ASSUME Exclusive, ~Repairs, Removes => QuietRemoves
    PROVE  Spec => []CatalogInv
<1>1. Init => DurableInv
    BY DEF Init, NoTrans, DurableInv, OpMatches, CloseIsSound, ClosesApart,
           PayloadIsKept, RemoveSpares, AckedIsDurable
<1>2. Init => CatalogInv
    BY NoneAssumption DEF Init, CatalogInv, Locking, Servable, NoCat, OneProcess,
       MemIsCatalog,
       CatalogIsThere, MemIsServable, RemoveSparesCatalog
<1>3. TypeOK /\ TypeOK' /\ DurableInv /\ [Next]_vars => DurableInv'
    BY DurableStep
<1>4. TypeOK /\ TypeOK' /\ DurableInv /\ CatalogInv /\ [Next]_vars => CatalogInv'
    BY CatalogStep
<1> QED
    BY <1>1, <1>2, <1>3, <1>4, Typing, PTL DEF Spec

(* What the catalog lists can be served, after a crash and while packages  *)
(* come and go, as long as one process at a time has the repository open   *)
(* and packages are removed only while no transaction is open.             *)
THEOREM CatalogServes ==
    ASSUME Exclusive, ~Repairs, Removes => QuietRemoves
    PROVE  Spec => []CatalogIsServable
<1>1. CatalogInv => CatalogIsServable
    BY DEF CatalogInv, MemIsServable, Servable, CatalogIsServable
<1> QED
    BY CatalogInvariance, <1>1, PTL

-----------------------------------------------------------------------------
(* Refreshing the catalog, with any number of processes at once.           *)

\* The thread that is past the lock has it, and until it is released nobody
\* changes the catalog object that a refresh is going to save.
LockIsOwned == \A a \in Actor : pc[a] \in Locking <=> lock = a
RefreshInv ==
    /\ LockIsOwned
    /\ \A a \in Actor : arg[a].op = "refresh" =>
           /\ pc[a] \in {"save", "move"}
           /\ mem[ProcOf[a]] # NoCat /\ due[a] \subseteq mem[ProcOf[a]]

(* Every step keeps that.                                                  *)
LEMMA RefreshStep ==
    ASSUME TypeOK, TypeOK', DurableInv, RefreshInv, [Next]_vars
    PROVE  RefreshInv'
<1> USE ProcOfAssumption, NoneAssumption DEF Goto, store, history, Locking
<1>0. \A ks \in SUBSET Pkg : ks # NoCat
    BY DEF NoCat
<1>1. CASE UNCHANGED vars
    BY <1>1 DEF vars, RefreshInv, LockIsOwned
<1>2. ASSUME NEW p \in Process, Start(p) PROVE RefreshInv'
  <2>1. LockIsOwned'
    BY <1>2 DEF TypeOK, RefreshInv, LockIsOwned, Start
  <2> QED
    BY <1>0, <1>2, <2>1 DEF TypeOK, RefreshInv, LockIsOwned, Start
<1>3. ASSUME NEW p \in Process, Stop(p) PROVE RefreshInv'
  <2>1. LockIsOwned'
    BY <1>3 DEF TypeOK, RefreshInv, LockIsOwned, Stop
  <2> QED
    BY <1>0, <1>3, <2>1 DEF TypeOK, RefreshInv, LockIsOwned, Stop
<1>4. ASSUME NEW a \in Actor, MoveOld(a) PROVE RefreshInv'
  <2>1. LockIsOwned'
    BY <1>4 DEF TypeOK, RefreshInv, LockIsOwned, MoveOld
  <2> QED
    BY <1>0, <1>4, <2>1 DEF TypeOK, RefreshInv, LockIsOwned, MoveOld
<1>5. ASSUME NEW a \in Actor, MoveNew(a) PROVE RefreshInv'
  <2>1. /\ pc[a] = "move" /\ lock' = None /\ UNCHANGED <<mem, due>>
        /\ \/ pc' = [pc EXCEPT ![a] = "rmtree"] /\ UNCHANGED arg /\ arg[a].op = "close"
           \/ /\ pc' = [pc EXCEPT ![a] = "idle"]
              /\ arg' = [arg EXCEPT ![a] = [op |-> "none", pkgs |-> {}]]
    BY <1>5 DEF MoveNew, Begin
  <2>2. \A b \in Actor \ {a} : pc[b] \notin Locking /\ arg[b].op # "refresh"
    BY <2>1 DEF RefreshInv, LockIsOwned
  <2>3. \A b \in Actor : pc'[b] \notin Locking /\ arg'[b].op # "refresh"
    BY <2>1, <2>2 DEF TypeOK
  <2> QED
    BY <2>1, <2>3 DEF RefreshInv, LockIsOwned
<1>6. ASSUME NEW a \in Actor, AddContent(a) PROVE RefreshInv'
  <2>1. /\ lock = None /\ lock' = a /\ pc' = [pc EXCEPT ![a] = "save"]
        /\ due' = [due EXCEPT ![a] = acked] /\ acked \subseteq manifests
        /\ arg' = [arg EXCEPT ![a] = [op |-> "refresh", pkgs |-> {}]]
    BY <1>6 DEF AddContent, Begin, DurableInv, AckedIsDurable
  <2>2. PICK c \in SUBSET Pkg : /\ mem' = [mem EXCEPT ![ProcOf[a]] = c]
                                /\ manifests \subseteq c
    <3>1. Entries(ProcOf[a]) \cup manifests \in SUBSET Pkg
      BY DEF TypeOK, Entries, Loaded
    <3> QED
      BY <1>6, <3>1 DEF AddContent, SetMem
  <2>3. \A b \in Actor \ {a} : arg[b].op # "refresh"
    BY <2>1 DEF RefreshInv, LockIsOwned
  <2>4. LockIsOwned'
    BY <2>1 DEF TypeOK, RefreshInv, LockIsOwned
  <2> QED
    BY <1>0, <2>1, <2>2, <2>3, <2>4 DEF TypeOK, RefreshInv
<1>7. ASSUME NEW a \in Actor, Rebuild(a) PROVE RefreshInv'
  <2>1. LockIsOwned'
    BY <1>7 DEF TypeOK, RefreshInv, LockIsOwned, Rebuild, SetMem, Begin, Idle
  <2> QED
    BY <1>0, <1>7, <2>1 DEF TypeOK, RefreshInv, LockIsOwned, Rebuild, SetMem, Begin, Idle
<1>8. ASSUME NEW a \in Actor, Analyze(a) PROVE RefreshInv'
  <2>1. LockIsOwned'
    BY <1>8 DEF TypeOK, RefreshInv, LockIsOwned, Analyze
  <2> QED
    BY <1>0, <1>8, <2>1 DEF TypeOK, RefreshInv, LockIsOwned, Analyze
<1>9. ASSUME NEW a \in Actor, AnalyzeFails(a) PROVE RefreshInv'
  <2>1. LockIsOwned'
    BY <1>9 DEF TypeOK, RefreshInv, LockIsOwned, AnalyzeFails, Begin
  <2> QED
    BY <1>0, <1>9, <2>1 DEF TypeOK, RefreshInv, LockIsOwned, AnalyzeFails, Begin
<1>10. ASSUME NEW a \in Actor, RemoveManifests(a) PROVE RefreshInv'
  <2>1. LockIsOwned'
    BY <1>10 DEF TypeOK, RefreshInv, LockIsOwned, RemoveManifests
  <2> QED
    BY <1>0, <1>10, <2>1 DEF TypeOK, RefreshInv, LockIsOwned, RemoveManifests
<1>11. ASSUME NEW a \in Actor, RemoveFiles(a) PROVE RefreshInv'
  <2>1. LockIsOwned'
    BY <1>11 DEF TypeOK, RefreshInv, LockIsOwned, RemoveFiles, Begin
  <2> QED
    BY <1>0, <1>11, <2>1 DEF TypeOK, RefreshInv, LockIsOwned, RemoveFiles, Begin
<1>12. ASSUME NEW a \in Actor, NEW k \in Pkg, Open(a, k) PROVE RefreshInv'
  <2>1. LockIsOwned'
    BY <1>12 DEF TypeOK, RefreshInv, LockIsOwned, Open, SetMem, Loaded, Idle
  <2> QED
    BY <1>0, <1>12, <2>1 DEF TypeOK, RefreshInv, LockIsOwned, Open, SetMem, Loaded, Idle
<1>13. ASSUME NEW a \in Actor, NEW k \in Pkg, Abandon(a, k) PROVE RefreshInv'
  <2>1. LockIsOwned'
    BY <1>13 DEF TypeOK, RefreshInv, LockIsOwned, Abandon, Idle
  <2> QED
    BY <1>0, <1>13, <2>1 DEF TypeOK, RefreshInv, LockIsOwned, Abandon, Idle
<1>14. ASSUME NEW a \in Actor, NEW k \in Pkg, Close(a, k) PROVE RefreshInv'
  <2>1. LockIsOwned'
    BY <1>14 DEF TypeOK, RefreshInv, LockIsOwned, Close, Begin, Idle
  <2> QED
    BY <1>0, <1>14, <2>1 DEF TypeOK, RefreshInv, LockIsOwned, Close, Begin, Idle
<1>15. ASSUME NEW a \in Actor, NEW k \in Pkg, InsertFile(a, k) PROVE RefreshInv'
  <2>1. LockIsOwned'
    BY <1>15 DEF TypeOK, RefreshInv, LockIsOwned, InsertFile
  <2> QED
    BY <1>0, <1>15, <2>1 DEF TypeOK, RefreshInv, LockIsOwned, InsertFile
<1>16. ASSUME NEW a \in Actor, NEW k \in Pkg, Inserted(a, k) PROVE RefreshInv'
  <2>1. LockIsOwned'
    BY <1>16 DEF TypeOK, RefreshInv, LockIsOwned, Inserted
  <2> QED
    BY <1>0, <1>16, <2>1 DEF TypeOK, RefreshInv, LockIsOwned, Inserted
<1>17. ASSUME NEW a \in Actor, NEW k \in Pkg, AddPackage(a, k) PROVE RefreshInv'
  <2>1. LockIsOwned'
    BY <1>17 DEF TypeOK, RefreshInv, LockIsOwned, AddPackage, SetMem, Loaded, Entries, Begin
  <2> QED
    BY <1>0, <1>17, <2>1 DEF TypeOK, RefreshInv, LockIsOwned, AddPackage, SetMem, Loaded, Entries, Begin
<1>18. ASSUME NEW a \in Actor, NEW k \in Pkg, Closed(a, k) PROVE RefreshInv'
  <2>1. LockIsOwned'
    BY <1>18 DEF TypeOK, RefreshInv, LockIsOwned, Closed, Begin
  <2> QED
    BY <1>0, <1>18, <2>1 DEF TypeOK, RefreshInv, LockIsOwned, Closed, Begin
<1>19. ASSUME NEW a \in Actor, NEW k \in Pkg, NEW f \in File, AddFile(a, k, f) PROVE RefreshInv'
  <2>1. LockIsOwned'
    BY <1>19 DEF TypeOK, RefreshInv, LockIsOwned, AddFile, Idle
  <2> QED
    BY <1>0, <1>19, <2>1 DEF TypeOK, RefreshInv, LockIsOwned, AddFile, Idle
<1>20. ASSUME NEW a \in Actor, NEW ks \in SUBSET Pkg, RemovePackages(a, ks) PROVE RefreshInv'
  <2>1. LockIsOwned'
    BY <1>20 DEF TypeOK, RefreshInv, LockIsOwned, RemovePackages, SetMem, Loaded, Entries, Begin, Idle
  <2> QED
    BY <1>0, <1>20, <2>1 DEF TypeOK, RefreshInv, LockIsOwned, RemovePackages, SetMem, Loaded, Entries, Begin, Idle
<1> QED
    BY <1>1, <1>2, <1>3, <1>4, <1>5, <1>6, <1>7, <1>8, <1>9, <1>10, <1>11,
       <1>12, <1>13, <1>14, <1>15, <1>16, <1>17, <1>18, <1>19, <1>20 DEF Next

(* When pkgrepo refresh is done every package that was answered PUBLISHED  *)
(* before it began is in the catalog, whatever crashes and catalog objects *)
(* of other processes did to the catalog before.                           *)
THEOREM RefreshRepairs ==
    ASSUME Removes => QuietRemoves PROVE Spec => RefreshRestores
<1> DEFINE Restored == \A a \in Actor :
               pc[a] = "move" /\ arg[a].op = "refresh" /\ pc'[a] = "idle" /\ ProcOf[a] \in up'
                   => due[a] \subseteq catalog'
<1>1. Init => DurableInv
    BY DEF Init, NoTrans, DurableInv, OpMatches, CloseIsSound, ClosesApart,
           PayloadIsKept, RemoveSpares, AckedIsDurable
<1>2. Init => RefreshInv
    BY NoneAssumption DEF Init, RefreshInv, LockIsOwned, Locking
<1>3. TypeOK /\ TypeOK' /\ DurableInv /\ [Next]_vars => DurableInv'
    BY DurableStep
<1>4. TypeOK /\ TypeOK' /\ DurableInv /\ RefreshInv /\ [Next]_vars => RefreshInv'
    BY RefreshStep
<1>5. TypeOK /\ RefreshInv /\ [Next]_vars => [Restored]_vars
  <2> SUFFICES ASSUME TypeOK, RefreshInv, Next, NEW a \in Actor, pc[a] = "move",
                      arg[a].op = "refresh", pc'[a] = "idle", ProcOf[a] \in up'
               PROVE  due[a] \subseteq catalog'
    OBVIOUS
  <2>1. CASE MoveNew(a)
    BY <2>1 DEF RefreshInv, MoveNew
  <2>2. ASSUME NEW p \in Process, Start(p) \/ Stop(p) PROVE FALSE
    BY <2>2, ProcOfAssumption DEF TypeOK, Start, Stop
  <2>3. ASSUME NEW b \in Actor, b # a PROVE pc' # [pc EXCEPT ![b] = pc'[b]]
    BY <2>3 DEF TypeOK
  <2>4. ASSUME NEW b \in Actor,
               \/ MoveOld(b) \/ MoveNew(b) \/ AddContent(b) \/ Rebuild(b)
               \/ Analyze(b) \/ AnalyzeFails(b) \/ RemoveManifests(b) \/ RemoveFiles(b)
        PROVE  b = a /\ MoveNew(a)
    BY <2>3, <2>4 DEF TypeOK, Goto, Idle, MoveOld, MoveNew, AddContent, Rebuild, Analyze,
       AnalyzeFails, RemoveManifests, RemoveFiles
  <2>5. ASSUME NEW b \in Actor, NEW k \in Pkg,
               \/ Open(b, k) \/ Abandon(b, k) \/ Close(b, k) \/ InsertFile(b, k)
               \/ Inserted(b, k) \/ AddPackage(b, k) \/ Closed(b, k)
               \/ \E f \in File : AddFile(b, k, f)
        PROVE  FALSE
    BY <2>3, <2>5 DEF TypeOK, Goto, Idle, Open, Abandon, Close, InsertFile, Inserted,
       AddPackage, Closed, AddFile
  <2>6. ASSUME NEW b \in Actor, NEW ks \in SUBSET Pkg, RemovePackages(b, ks) PROVE FALSE
    BY <2>3, <2>6 DEF TypeOK, Goto, Idle, RemovePackages
  <2> QED
    BY <2>1, <2>2, <2>4, <2>5, <2>6 DEF Next
<1> QED
    BY <1>1, <1>2, <1>3, <1>4, <1>5, Typing, PTL DEF Spec, RefreshRestores

=============================================================================
