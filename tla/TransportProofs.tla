---------------------------- MODULE TransportProofs ----------------------------
(***************************************************************************)
(* Proofs about Transport for any publishers, repositories, files and      *)
(* limits: no file of a list is forgotten.                                 *)
(* Then proofs about CatalogSync, which retrieves catalogs through it.     *)
(***************************************************************************)
EXTENDS Transport, CatalogSync, TLAPS

Locations == {"idle", "next", "choose", "running", "answered", "failed", "canceled"}

(* Where a chunk is being retrieved.                                       *)
AtWork == {"choose", "running", "answered"}

(* The types of what the client keeps about the list, and the bound on the *)
(* rounds.                                                                 *)
TypeInv ==
    /\ pc \in Locations
    /\ pc # "idle" => pub \in Pub
    /\ todo \subseteq File /\ chunk \subseteq File /\ ask \subseteq File
    /\ failures \subseteq File /\ failedreqs \subseteq File
    /\ found \in BOOLEAN
    /\ pc \in AtWork => left \subseteq ReposOf[pub] /\ tries \in 1 .. MaxTries
    /\ pc \in {"running", "answered"} => repo \in ReposOf[pub] /\ found
    /\ answer \in [gaveUp : BOOLEAN, errors : SUBSET File, success : SUBSET File]
    /\ dl \in [File -> {"none", "good", "bad"}]
    /\ queue \cup active \cup efail \cup esucc \subseteq Repo \X File

(* The engine works for the repository that was asked; only the first one  *)
(* that is asked for a chunk may meet requests that an error has left.     *)
EngineInv ==
    /\ pc = "answered" => queue \cup active = {}
    /\ pc = "choose" /\ queue \cup active # {} => tries = 1 /\ ~found
    /\ pc = "running" /\ tries # 1 => queue \cup active \subseteq Requests(repo, ask)

(* What is missing of the chunk will be asked for; when a repository was   *)
(* asked in this round what it did not deliver is known, and, unless       *)
(* requests that were left made the engine give up, there was a failure.   *)
ListInv ==
    /\ pc \in AtWork => chunk \cap todo \subseteq ask
    /\ pc = "choose" /\ found => /\ failedreqs = ask
                                 /\ failedreqs # {} => failures # {} \/ tries = 1
    /\ pc = "answered" /\ answer.gaveUp => answer.errors # {} \/ tries = 1

IInv == TypeInv /\ EngineInv /\ ListInv /\ ListIsComplete


-----------------------------------------------------------------------------
(* What a run() of the engine does that matters to the list.               *)
RunGoesOn ==
    /\ queue' \cup active' \subseteq queue \cup active
    /\ efail' \subseteq efail \cup queue \cup active
    /\ esucc' \subseteq esucc \cup queue \cup active
    /\ UNCHANGED answer
RunRaises == pc' \in {"failed", "canceled"}
RunGivesUp ==
    /\ pc' = "answered"
    /\ queue' = {} /\ active' = {} /\ efail' = {} /\ esucc' = {}
    /\ answer' \in [gaveUp : BOOLEAN, errors : SUBSET ask, success : SUBSET ask]
    /\ \E q \in queue \cup active : q[1] = repo /\ q[2] \in File \cap ask => answer'.errors # {}

(* A run() goes on, raises the error of a request that was started, or     *)
(* gives the repository up, which it does only after a failure.            *)
LEMMA RunCases ==
    ASSUME TypeInv, Run
    PROVE  /\ dl' \in [File -> {"none", "good", "bad"}]
           /\ \/ RunGoesOn /\ UNCHANGED pc
              \/ RunGoesOn /\ RunRaises
              \/ RunGivesUp
<1>a. PICK started \in SUBSET queue :
         \E good, corrupt, bad, fatal \in SUBSET (active \cup started) :
            Ending(started, good, corrupt, bad, fatal)
    BY DEF Run
<1>1. PICK good \in SUBSET (active \cup started), corrupt \in SUBSET (active \cup started),
           bad \in SUBSET (active \cup started), fatal \in SUBSET (active \cup started) :
        Ending(started, good, corrupt, bad, fatal)
    BY <1>a
<1>2. dl' \in [File -> {"none", "good", "bad"}]
    BY <1>1 DEF TypeInv, Ending
<1>3. ASSUME bad # {},
             answer' = [gaveUp |-> TRUE,
                        errors |-> FilesOf(repo, efail \cup bad) \cap ask,
                        success |-> FilesOf(repo, esucc \cup (good \cup corrupt)) \cap ask]
      PROVE  /\ answer' \in [gaveUp : BOOLEAN, errors : SUBSET ask, success : SUBSET ask]
             /\ \E q \in queue \cup active :
                    q[1] = repo /\ q[2] \in File \cap ask => answer'.errors # {}
    <2>1. PICK q \in bad : q \in queue \cup active
        BY <1>1, <1>3
    <2>2. q = <<q[1], q[2]>>
        BY <2>1 DEF TypeInv
    <2>3. q[1] = repo /\ q[2] \in File \cap ask => q[2] \in answer'.errors
        BY <1>3, <2>1, <2>2 DEF FilesOf
    <2> QED
        BY <1>3, <2>1, <2>3
<1> QED
    BY <1>1, <1>2, <1>3 DEF RunGoesOn, RunRaises, RunGivesUp, Ending, TypeInv

(* Every step keeps the invariant.                                         *)
LEMMA Step == ASSUME MaxTries >= 2, IInv, [TransportNext]_transportvars PROVE IInv'
<1> USE DEF AtWork, Locations, engine, list, NoAnswer
<1>0. MaxTries \in Nat /\ 1 \in 1 .. MaxTries
      /\ \A p \in Pub : ReposOf[p] \subseteq Repo
    BY ReposAssumption, BoundsAssumption
<1>1. CASE UNCHANGED transportvars
    BY <1>1 DEF transportvars, IInv, TypeInv, EngineInv, ListInv, ListIsComplete
<1>2. CASE Begin
    <2>1. TypeInv'
        BY <1>2 DEF IInv, TypeInv, EngineInv, ListInv, Begin
    <2>2. EngineInv'
        BY <1>2 DEF IInv, EngineInv, TypeInv, ListInv, Begin
    <2>3. ListInv'
        BY <1>2 DEF IInv, ListInv, TypeInv, EngineInv, Begin
    <2>4. ListIsComplete'
        BY <1>2 DEF IInv, ListIsComplete, TypeInv, EngineInv, ListInv, Begin
    <2> QED
        BY <2>1, <2>2, <2>3, <2>4 DEF IInv
<1>3. CASE NextChunk
    <2>1. TypeInv'
        BY <1>0, <1>3 DEF IInv, TypeInv, EngineInv, ListInv, NextChunk
    <2>2. EngineInv'
        BY <1>0, <1>3 DEF IInv, EngineInv, TypeInv, ListInv, NextChunk
    <2>3. ListInv'
        BY <1>0, <1>3 DEF IInv, ListInv, TypeInv, EngineInv, NextChunk
    <2>4. ListIsComplete'
        BY <1>0, <1>3 DEF IInv, ListIsComplete, TypeInv, EngineInv, ListInv, NextChunk
    <2> QED
        BY <2>1, <2>2, <2>3, <2>4 DEF IInv
<1>4. CASE AllRetrieved
    <2>1. TypeInv'
        BY <1>4 DEF IInv, TypeInv, EngineInv, ListInv, AllRetrieved
    <2>2. EngineInv'
        BY <1>4 DEF IInv, EngineInv, TypeInv, ListInv, AllRetrieved
    <2>3. ListInv'
        BY <1>4 DEF IInv, ListInv, TypeInv, EngineInv, AllRetrieved
    <2>4. ListIsComplete'
        BY <1>4 DEF IInv, ListIsComplete, TypeInv, EngineInv, ListInv, AllRetrieved
    <2> QED
        BY <2>1, <2>2, <2>3, <2>4 DEF IInv
<1>5. CASE PassOver
    <2>1. TypeInv'
        BY <1>5 DEF IInv, TypeInv, EngineInv, ListInv, PassOver
    <2>2. EngineInv'
        BY <1>5 DEF IInv, EngineInv, TypeInv, ListInv, PassOver
    <2>3. ListInv'
        BY <1>5 DEF IInv, ListInv, TypeInv, EngineInv, PassOver
    <2>4. ListIsComplete'
        BY <1>5 DEF IInv, ListIsComplete, TypeInv, EngineInv, ListInv, PassOver
    <2> QED
        BY <2>1, <2>2, <2>3, <2>4 DEF IInv
<1>6. CASE AskRepo
    <2>1. TypeInv'
        BY <1>0, <1>6 DEF IInv, TypeInv, EngineInv, ListInv, AskRepo, Requests
    <2>2. EngineInv'
        BY <1>0, <1>6 DEF IInv, EngineInv, TypeInv, ListInv, AskRepo, Requests
    <2>3. ListInv'
        BY <1>0, <1>6 DEF IInv, ListInv, TypeInv, EngineInv, AskRepo, Requests
    <2>4. ListIsComplete'
        BY <1>0, <1>6 DEF IInv, ListIsComplete, TypeInv, EngineInv, ListInv, AskRepo, Requests
    <2> QED
        BY <2>1, <2>2, <2>3, <2>4 DEF IInv
<1>7. CASE NextRound
    <2>a. tries' \in 1 .. MaxTries
        BY <1>0, <1>7 DEF IInv, TypeInv, NextRound
    <2>1. TypeInv'
        BY <1>7, <2>a DEF IInv, TypeInv, NextRound
    <2>2. EngineInv'
        BY <1>0, <1>7 DEF IInv, EngineInv, TypeInv, ListInv, NextRound
    <2>3. ListInv'
        BY <1>0, <1>7 DEF IInv, ListInv, TypeInv, EngineInv, NextRound
    <2>4. ListIsComplete'
        BY <1>0, <1>7 DEF IInv, ListIsComplete, TypeInv, EngineInv, ListInv, NextRound
    <2> QED
        BY <2>1, <2>2, <2>3, <2>4 DEF IInv
<1>8. CASE GiveUp
    <2>1. TypeInv'
        BY <1>8 DEF IInv, TypeInv, EngineInv, ListInv, GiveUp
    <2>2. EngineInv'
        BY <1>8 DEF IInv, EngineInv, TypeInv, ListInv, GiveUp
    <2>3. ListInv'
        BY <1>8 DEF IInv, ListInv, TypeInv, EngineInv, GiveUp
    <2>4. ListIsComplete'
        BY <1>8 DEF IInv, ListIsComplete, TypeInv, EngineInv, ListInv, GiveUp
    <2> QED
        BY <2>1, <2>2, <2>3, <2>4 DEF IInv
<1>9. CASE Stall
    <2>1. TypeInv'
        BY <1>9 DEF IInv, TypeInv, EngineInv, ListInv, Stall, Requests
    <2>2. EngineInv'
        BY <1>9 DEF IInv, EngineInv, TypeInv, ListInv, Stall, Requests
    <2>3. ListInv'
        BY <1>9 DEF IInv, ListInv, TypeInv, EngineInv, Stall, Requests
    <2>4. ListIsComplete'
        BY <1>9 DEF IInv, ListIsComplete, TypeInv, EngineInv, ListInv, Stall, Requests
    <2> QED
        BY <2>1, <2>2, <2>3, <2>4 DEF IInv
<1>10. CASE CheckStatus
    <2>1. TypeInv'
        BY <1>10 DEF IInv, TypeInv, EngineInv, ListInv, CheckStatus, Claimed, Requests
    <2>2. EngineInv'
        BY <1>10 DEF IInv, EngineInv, TypeInv, ListInv, CheckStatus, Claimed, Requests
    <2>3. ListInv'
        BY <1>10 DEF IInv, ListInv, TypeInv, EngineInv, CheckStatus, Claimed, Requests
    <2>4. ListIsComplete'
        BY <1>10 DEF IInv, ListIsComplete, TypeInv, EngineInv, ListInv, CheckStatus, Claimed, Requests
    <2> QED
        BY <2>1, <2>2, <2>3, <2>4 DEF IInv
<1>11. CASE Verify
    <2>1. TypeInv'
        BY <1>11 DEF IInv, TypeInv, EngineInv, ListInv, Verify, Missing, Remembered, Success
    <2>2. EngineInv'
        BY <1>11 DEF IInv, EngineInv, TypeInv, ListInv, Verify, Missing, Remembered, Success
    <2>3. ListInv'
        BY <1>11 DEF IInv, ListInv, TypeInv, EngineInv, Verify, Missing, Remembered, Success
    <2>4. ListIsComplete'
        BY <1>11 DEF IInv, ListIsComplete, TypeInv, EngineInv, ListInv, Verify, Missing, Remembered, Success
    <2> QED
        BY <2>1, <2>2, <2>3, <2>4 DEF IInv
<1>12. CASE Reset
    <2>1. TypeInv'
        BY <1>12 DEF IInv, TypeInv, EngineInv, ListInv, Reset
    <2>2. EngineInv'
        BY <1>12 DEF IInv, EngineInv, TypeInv, ListInv, Reset
    <2>3. ListInv'
        BY <1>12 DEF IInv, ListInv, TypeInv, EngineInv, Reset
    <2>4. ListIsComplete'
        BY <1>12 DEF IInv, ListIsComplete, TypeInv, EngineInv, ListInv, Reset
    <2> QED
        BY <2>1, <2>2, <2>3, <2>4 DEF IInv
<1>13. CASE GoOn
    <2>1. TypeInv'
        BY <1>13 DEF IInv, TypeInv, EngineInv, ListInv, GoOn
    <2>2. EngineInv'
        BY <1>13 DEF IInv, EngineInv, TypeInv, ListInv, GoOn
    <2>3. ListInv'
        BY <1>13 DEF IInv, ListInv, TypeInv, EngineInv, GoOn
    <2>4. ListIsComplete'
        BY <1>13 DEF IInv, ListIsComplete, TypeInv, EngineInv, ListInv, GoOn
    <2> QED
        BY <2>1, <2>2, <2>3, <2>4 DEF IInv
<1>14. CASE Run
    <2>1. /\ dl' \in [File -> {"none", "good", "bad"}]
          /\ \/ RunGoesOn /\ UNCHANGED pc
             \/ RunGoesOn /\ RunRaises
             \/ RunGivesUp
        BY <1>14, RunCases DEF IInv
    <2>2. pc = "running" /\ UNCHANGED <<pub, todo, list>>
        BY <1>14 DEF Run
    <2>3. tries # 1 => \A q \in queue \cup active : q[1] = repo /\ q[2] \in File \cap ask
        BY <2>2 DEF IInv, TypeInv, EngineInv, Requests
    <2>4. TypeInv'
        <3>1. CASE RunGoesOn
            BY <2>1, <2>2, <3>1 DEF IInv, TypeInv, RunGoesOn, RunRaises, RunGivesUp
        <3>2. CASE RunGivesUp
            BY <2>1, <2>2, <3>2 DEF IInv, TypeInv, RunGivesUp
        <3> QED
            BY <2>1, <3>1, <3>2
    <2>5. EngineInv'
        BY <2>1, <2>2 DEF IInv, EngineInv, Requests, RunGoesOn, RunRaises, RunGivesUp
    <2>6. ListInv'
        BY <2>1, <2>2, <2>3 DEF IInv, ListInv, RunGoesOn, RunRaises, RunGivesUp
    <2>7. ListIsComplete'
        BY <2>1, <2>2 DEF ListIsComplete, RunRaises, RunGivesUp
    <2> QED
        BY <2>4, <2>5, <2>6, <2>7 DEF IInv
<1> QED
    BY <1>1, <1>2, <1>3, <1>4, <1>5, <1>6, <1>7, <1>8, <1>9, <1>10, <1>11, <1>12, <1>13, <1>14 DEF TransportNext

(* It holds before the first retrieval.                                   *)
LEMMA InitHolds == TransportInit => IInv
<1> SUFFICES ASSUME TransportInit PROVE IInv
    OBVIOUS
<1>1. TypeInv
    <2>1. answer \in [gaveUp : BOOLEAN, errors : SUBSET File, success : SUBSET File]
        BY DEF TransportInit, NoAnswer
    <2>2. dl \in [File -> {"none", "good", "bad"}]
        BY DEF TransportInit
    <2>3. queue \cup active \cup efail \cup esucc \subseteq Repo \X File
        BY DEF TransportInit
    <2> QED
        BY <2>1, <2>2, <2>3 DEF TransportInit, TypeInv, Locations, AtWork
<1>2. EngineInv
    BY DEF TransportInit, EngineInv
<1>3. ListInv /\ ListIsComplete
    BY DEF TransportInit, ListInv, ListIsComplete, AtWork
<1> QED
    BY <1>1, <1>2, <1>3 DEF IInv

(* The inductive invariant.                                                *)
LEMMA Invariance == ASSUME MaxTries >= 2 PROVE TransportSpec => []IInv
    BY InitHolds, Step, PTL DEF TransportSpec

(* _get_files_list() returns only when every file of the chunk is there,   *)
(* whatever the repositories deliver, refuse or corrupt, however the       *)
(* rounds over them go and whatever an earlier retrieval that raised an    *)
(* error left in the engine, if there are at least two rounds.             *)
THEOREM ListCorrect == ASSUME MaxTries >= 2 PROVE TransportSpec => []ListIsComplete
<1>1. IInv => ListIsComplete
    BY DEF IInv
<1> QED
    BY <1>1, Invariance, PTL

-----------------------------------------------------------------------------
(***************************************************************************)
(* The refresh of a catalog, whose files the transport retrieves.          *)
(*                                                                         *)
(* The rest of this module is about CatalogSync, for any packages, times   *)
(* and kinds of trouble: the client never goes back to an older catalog,   *)
(* and what it installs are the packages of one catalog of the server.     *)
(* The argument needs little of the files: the base part has an entry for  *)
(* every package, so that its last-modified attribute is the one of the    *)
(* catalog, and finalize() always compares its content.  What replaying an *)
(* update log gives does not matter.                                       *)
(***************************************************************************)

(* A catalog that the server saved: every change since it was created was  *)
(* in the base part.                                                       *)
SavedInv(c) ==
    /\ c.created \in Nat /\ c.lm \in Nat /\ c.created <= c.lm
    /\ "base" \in DOMAIN c.plm => c.plm["base"] = c.lm
    /\ "base" \notin DOMAIN c.plm => c.lm = c.created
    /\ "base" \in DOMAIN c.pkgs <=> "base" \in DOMAIN c.plm
    /\ NeverEmpty => "base" \in DOMAIN c.pkgs /\ c.pkgs["base"] # {}

(* Later catalogs have later modification times.                           *)
SavesInv ==
    /\ clock \in Nat /\ Len(hist) \in Nat \ {0}
    /\ \E S : hist \in Seq(S)
    /\ \A i \in 1 .. Len(hist) : SavedInv(hist[i]) /\ hist[i].lm <= clock
    /\ \A i, j \in 1 .. Len(hist) : i < j => hist[i].lm < hist[j].lm

(* The fields of the records of the client.                                *)
RecordsInv ==
    /\ cli = [at |-> cli.at, pkgs |-> cli.pkgs]
    /\ tmp = [at |-> tmp.at, parts |-> tmp.parts, logs |-> tmp.logs]
    /\ req = [user |-> req.user, second |-> req.second, full |-> req.full,
              revalidate |-> req.revalidate, parts |-> req.parts, logs |-> req.logs]
    /\ req.full \in BOOLEAN

(* The attributes that a refresh goes on with are newer than the client's, *)
(* or it retrieves everything, and these are not older.                    *)
RefreshInv ==
    /\ rpc # "idle" => status = "none"
    /\ cli.at \in 0 .. Len(hist)
    /\ cli.at # 0 /\ NeverEmpty => "base" \in DOMAIN cli.pkgs
    /\ rpc = "files" =>
           /\ tmp.at \in 1 .. Len(hist)
           /\ cli.at # 0 /\ ~req.full => tmp.at > cli.at
           /\ req.full => tmp.at >= cli.at
           /\ req.full \/ cli.at = 0 => req.parts = DOMAIN hist[tmp.at].plm

(* What the server saves is added to what it has saved before.             *)
LEMMA Saved ==
    ASSUME SavesInv, NEW c, hist' = Append(hist, c), clock' = clock + 1, SavedInv(c),
           c.lm = clock + 1
    PROVE  /\ SavesInv' /\ Len(hist') = Len(hist) + 1
           /\ \A i \in 1 .. Len(hist) : hist'[i] = hist[i]
<1>1. PICK S : hist \in Seq(S)
    BY DEF SavesInv
<1>2. hist \in Seq(S \cup {c})
    BY <1>1
<1>3. /\ hist' \in Seq(S \cup {c}) /\ Len(hist') = Len(hist) + 1
      /\ \A i \in 1 .. Len(hist) : hist'[i] = hist[i]
      /\ hist'[Len(hist) + 1] = c
    BY <1>2
<1>4. clock \in Nat /\ Len(hist) \in Nat \ {0}
    BY DEF SavesInv
<1>5. \A i \in 1 .. Len(hist) : SavedInv(hist[i]) /\ hist[i].lm <= clock /\ hist[i].lm \in Nat
    BY DEF SavesInv, SavedInv
<1>6. ASSUME NEW i \in 1 .. Len(hist')
      PROVE  SavedInv(hist'[i]) /\ hist'[i].lm <= clock'
    <2>1. CASE i \in 1 .. Len(hist)
        BY <1>3, <1>4, <1>5, <2>1
    <2>2. CASE i = Len(hist) + 1
        BY <1>3, <1>4, <2>2
    <2> QED
        BY <1>3, <1>4, <2>1, <2>2
<1>7. ASSUME NEW i \in 1 .. Len(hist'), NEW j \in 1 .. Len(hist'), i < j
      PROVE  hist'[i].lm < hist'[j].lm
    <2>1. i \in 1 .. Len(hist)
        BY <1>3, <1>4, <1>7
    <2>2. CASE j \in 1 .. Len(hist)
        BY <1>3, <1>7, <2>1, <2>2 DEF SavesInv
    <2>3. CASE j = Len(hist) + 1
        BY <1>3, <1>4, <1>5, <2>1, <2>3
    <2> QED
        BY <1>3, <1>4, <2>2, <2>3
<1>8. clock' \in Nat /\ Len(hist') \in Nat \ {0} /\ \E X : hist' \in Seq(X)
    BY <1>3, <1>4
<1> QED
    BY <1>3, <1>6, <1>7, <1>8 DEF SavesInv, SavedInv

(* The catalogs of before are still there.                                 *)
Grown == Len(hist') \in Nat /\ Len(hist') >= Len(hist) /\ \A i \in 1 .. Len(hist) : hist'[i] = hist[i]

(* A change of the base part makes a catalog that is newer than the rest.  *)
LEMMA ChangeSaves ==
    ASSUME SavesInv, NEW op, NEW k, NEW ps, NEW loaded, NEW pkgs,
           Change(op, k, clock + 1, ps, loaded, pkgs), clock' = clock + 1,
           "base" \in ps, "base" \in DOMAIN pkgs, NeverEmpty => pkgs["base"] # {}
    PROVE  SavesInv' /\ Grown
<1> DEFINE t == clock + 1
           old == Latest
           lms == [p \in (DOMAIN loaded) \cup ps |-> IF p \in ps THEN t ELSE loaded[p]]
           plm == [p \in DOMAIN old.plm \cup ps |->
                       IF p \in DOMAIN lms THEN lms[p] ELSE old.plm[p]]
<1>1. PICK logs : hist' = Append(hist, [created |-> old.created, lm |-> t, plm |-> plm,
                                        pkgs |-> pkgs, logs |-> logs])
    BY DEF Change, Catalog
<1>2. "base" \in DOMAIN plm /\ plm["base"] = t
    OBVIOUS
<1>3. old = hist[Len(hist)] /\ Len(hist) \in 1 .. Len(hist) /\ clock \in Nat
    BY DEF Latest, SavesInv
<1>4. old.created \in Nat /\ old.created <= t
    BY <1>3 DEF SavesInv, SavedInv
<1> DEFINE c == [created |-> old.created, lm |-> t, plm |-> plm, pkgs |-> pkgs, logs |-> logs]
<1>5. /\ c.created = old.created /\ c.lm = t /\ c.plm = plm /\ c.pkgs = pkgs
      /\ hist' = Append(hist, c)
    BY <1>1
<1> HIDE DEF c, plm, lms
<1>6. SavedInv(c)
    BY <1>2, <1>3, <1>4, <1>5 DEF SavedInv
<1> QED
    BY <1>3, <1>5, <1>6, Saved DEF Grown, SavesInv

(* The packages of a catalog, and its parts.                               *)
LEMMA BaseOf ==
    /\ \A k : "base" \in PartsOf(k)
    /\ \A K : "base" \in PartsFor(K) <=> K # {}
    /\ \A K : K # {} => /\ "base" \in DOMAIN Content(K)
                        /\ Content(K)["base"] = K
    /\ \A K : DOMAIN Content(K) = PartsFor(K)
<1>1. \A k : "base" \in PartsOf(k)
    BY DEF PartsOf, Part
<1>2. \A K : "base" \in PartsFor(K) <=> K # {}
    BY <1>1 DEF PartsFor, Part
<1> QED
    BY <1>1, <1>2 DEF Content

(* Every step of the server, and of its clock, keeps the catalogs it saved *)
(* and saves newer ones.                                                   *)
LEMMA ServerStep ==
    ASSUME SavesInv, [SyncNext]_syncvars
    PROVE  SavesInv' /\ Grown
<1> DEFINE old == Latest
<1>a. clock \in Nat /\ old = hist[Len(hist)] /\ Len(hist) \in 1 .. Len(hist) /\ SavedInv(old)
    BY DEF Latest, SavesInv
<1>b. ASSUME hist' = hist, clock' = clock \/ clock' = clock + 1
      PROVE  SavesInv' /\ Grown
    <2>1. \A i \in 1 .. Len(hist) : hist[i].lm <= clock' /\ clock' \in Nat
        BY <1>a, <1>b DEF SavesInv, SavedInv
    <2> QED
        BY <1>a, <1>b, <2>1 DEF SavesInv, SavedInv, Grown
<1>1. ASSUME NEW k \in Pkg, AddPackage(k)
      PROVE  SavesInv' /\ Grown
    <2> DEFINE ps == PartsOf(k)
               pkgs == [p \in DOMAIN old.pkgs \cup ps |->
                           (IF p \in DOMAIN old.pkgs THEN old.pkgs[p] ELSE {})
                           \cup (IF p \in ps THEN {k} ELSE {})]
    <2>1. clock' = clock + 1 /\ Change("add", k, clock + 1, ps, mem, pkgs)
        BY <1>1 DEF AddPackage
    <2>2. "base" \in ps /\ "base" \in DOMAIN pkgs /\ k \in pkgs["base"]
        BY BaseOf
    <2> HIDE DEF pkgs
    <2> QED
        BY <2>1, <2>2, ChangeSaves
<1>2. ASSUME NEW k \in Pkg, RemovePackage(k)
      PROVE  SavesInv' /\ Grown
    <2> DEFINE ps == {p \in DOMAIN old.pkgs : k \in old.pkgs[p]}
               pkgs == [p \in DOMAIN old.pkgs |-> old.pkgs[p] \ {k}]
    <2>1. /\ clock' = clock + 1
          /\ Change("remove", k, clock + 1, ps, Load(DOMAIN old.plm), pkgs)
        BY <1>2 DEF RemovePackage
    <2>2. k \in Known /\ (NeverEmpty => Known # {k})
        BY <1>2 DEF RemovePackage
    <2>3. "base" \in DOMAIN old.pkgs /\ Known = old.pkgs["base"]
        BY <2>2 DEF Known, Packages
    <2>4. "base" \in ps /\ "base" \in DOMAIN pkgs /\ pkgs["base"] = old.pkgs["base"] \ {k}
        BY <2>2, <2>3
    <2> HIDE DEF pkgs, ps
    <2>5. NeverEmpty => pkgs["base"] # {}
        BY <2>2, <2>3, <2>4
    <2> QED
        BY <2>1, <2>4, <2>5, ChangeSaves
<1>3. CASE Rebuild
    <2> DEFINE t == clock + 1
               c == Catalog(t, t, mem', Content(Known), <<>>)
    <2>1. /\ clock' = t /\ mem' = [p \in PartsFor(Known) |-> t]
          /\ hist' = Append(hist, c)
        BY <1>3 DEF Rebuild
    <2>2. c.created = t /\ c.lm = t /\ c.plm = mem' /\ c.pkgs = Content(Known)
        BY DEF Catalog
    <2>3. DOMAIN c.plm = PartsFor(Known) /\ DOMAIN c.pkgs = PartsFor(Known)
        BY <2>1, <2>2, BaseOf
    <2>4. "base" \in DOMAIN c.plm => c.plm["base"] = t
        BY <2>1, <2>2
    <2>5. NeverEmpty => Known # {}
        BY <1>a DEF SavedInv, Known, Packages
    <2> HIDE DEF c
    <2>6. NeverEmpty => "base" \in DOMAIN c.pkgs /\ c.pkgs["base"] # {}
        BY <2>2, <2>5, BaseOf
    <2>7. SavedInv(c)
        BY <1>a, <2>2, <2>3, <2>4, <2>6 DEF SavedInv
    <2> QED
        BY <1>a, <2>1, <2>2, <2>7, Saved DEF Grown
<1>4. CASE RestartServer
    BY <1>4, <1>b DEF RestartServer
<1>5. ASSUME NEW p \in Part, ReadPart(p)
      PROVE  SavesInv' /\ Grown
    BY <1>5, <1>b DEF ReadPart
<1>6. CASE Tick
    BY <1>6, <1>b DEF Tick
<1>7. CASE UNCHANGED syncvars
    BY <1>7, <1>b DEF syncvars
<1>8. CASE (\E full \in BOOLEAN : Refresh(full)) \/ ClientStep
    <2>1. UNCHANGED <<clock, hist>>
        BY <1>8 DEF Refresh, ClientStep, GetAttrs, GetFails, ApplyUpdates,
           Install, GetPart, GetLog, server
    <2> QED
        BY <1>b, <2>1
<1> QED
    BY <1>1, <1>2, <1>3, <1>4, <1>5, <1>6, <1>7, <1>8 DEF SyncNext

(* The shape of a request and of the files that were retrieved.            *)
ShapeOf(r, f) ==
    /\ f = [at |-> f.at, parts |-> f.parts, logs |-> f.logs]
    /\ r = [user |-> r.user, second |-> r.second, full |-> r.full,
            revalidate |-> r.revalidate, parts |-> r.parts, logs |-> r.logs]
    /\ r.full \in BOOLEAN

Ended ==
    /\ rpc' # "files" /\ ShapeOf(req', tmp')
    /\ rpc' # "idle" => status' \in {status, "none"}

(* An attempt that ends, or is followed by another one, leaves nothing.    *)
LEMMA AttemptEnds ==
    ASSUME \/ \E x : Return(x)
           \/ \E e : Raise(e)
           \/ \E full \in BOOLEAN : Refresh(full)
    PROVE  Ended
<1> USE DEF NoRequest, NoFiles
<1>1. ASSUME NEW x, Return(x) PROVE Ended
    BY <1>1 DEF Return, Ended, ShapeOf
<1>2. ASSUME NEW r, Attempt(r),
             status' = status \/ status' = "none",
             \/ r = [NoRequest EXCEPT !.second = TRUE, !.full = TRUE]
             \/ r = [NoRequest EXCEPT !.second = TRUE, !.revalidate = TRUE]
             \/ \E full \in BOOLEAN : r = [NoRequest EXCEPT !.user = full, !.full = full]
      PROVE  Ended
    <2>1. rpc' = "attrs" /\ req' = r /\ tmp' = NoFiles
        BY <1>2 DEF Attempt
    <2> QED
        BY <1>2, <2>1 DEF Ended, ShapeOf
<1>3. ASSUME NEW e, Raise(e) PROVE Ended
    BY <1>1, <1>2, <1>3 DEF Raise
<1> QED
    BY <1>1, <1>2, <1>3 DEF Refresh

(* get_updates_needed() asks for an update only to a newer catalog: the    *)
(* base part of an older one has an older modification time, and one that  *)
(* has no base part is the first of its creation.                          *)
LEMMA UpdateIsNewer ==
    ASSUME SavesInv, cli.at \in 1 .. Len(hist), NEW v \in 1 .. Len(hist),
           UpdatesNeeded(hist[v]).result = "update"
    PROVE  v > cli.at
<1> DEFINE new == hist[v]
           mine == hist[cli.at]
<1>1. /\ new.created = mine.created /\ new.lm # mine.lm
      /\ DOMAIN mine.plm \subseteq DOMAIN new.plm
      /\ ~\E p \in DOMAIN mine.plm : new.plm[p] < mine.plm[p]
    BY DEF UpdatesNeeded, Mine
<1>2. SavedInv(new) /\ SavedInv(mine)
    BY DEF SavesInv
<1> HIDE DEF new, mine
<1>3. new.lm > mine.lm
    <2>1. CASE "base" \in DOMAIN mine.plm
        BY <1>1, <1>2, <2>1 DEF SavedInv
    <2>2. CASE "base" \notin DOMAIN mine.plm
        BY <1>1, <1>2, <2>2 DEF SavedInv
    <2> QED
        BY <2>1, <2>2
<1>4. ~(v < cli.at) /\ v # cli.at
    BY <1>2, <1>3 DEF SavesInv, SavedInv, new, mine
<1>5. v \in Nat /\ cli.at \in Nat
    BY DEF SavesInv
<1> QED
    BY <1>4, <1>5

(* The client's own steps, with the catalogs as they are.                  *)
LEMMA ClientKeeps ==
    ASSUME SavesInv, RecordsInv, RefreshInv, ClientStep
    PROVE  RecordsInv' /\ RefreshInv'
<1>a. /\ Len(hist) \in Nat \ {0} /\ cli.at \in 0 .. Len(hist) /\ req.full \in BOOLEAN
      /\ cli.at # 0 /\ NeverEmpty => "base" \in DOMAIN cli.pkgs
    BY DEF SavesInv, RefreshInv, RecordsInv
<1>d. status = "none"
    BY DEF ClientStep, GetAttrs, GetFails, ApplyUpdates, Install,
       GetPart, GetLog, Retrieved, RefreshInv
<1>b. ASSUME UNCHANGED hist, Ended,
             NEW c, cli' = c, c = [at |-> c.at, pkgs |-> c.pkgs], c.at \in 0 .. Len(hist),
             c.at # 0 /\ NeverEmpty => "base" \in DOMAIN c.pkgs
      PROVE  RecordsInv' /\ RefreshInv'
    BY <1>b, <1>d DEF Ended, RecordsInv, RefreshInv, ShapeOf
<1>c. ASSUME UNCHANGED <<hist, cli>>, Ended
      PROVE  RecordsInv' /\ RefreshInv'
    BY <1>a, <1>c, <1>d DEF Ended, RecordsInv, RefreshInv, ShapeOf
<1>1. CASE GetAttrs
    <2>1. UNCHANGED <<hist, cli>>
        BY <1>1 DEF GetAttrs, server
    <2>2. PICK v \in Served :
              IF req.full \/ ~Exists
              THEN Get(v, DOMAIN hist[v].plm, {})
              ELSE LET n == UpdatesNeeded(hist[v])
                   IN  CASE n.result = "update" -> Get(v, n.parts, n.logs)
                         [] n.result = "none" -> Return("ok")
                         [] OTHER -> Raise(n.result)
        BY <1>1 DEF GetAttrs
    <2>3. v \in 1 .. Len(hist) /\ (req.full => v = Len(hist))
        BY <1>a, <2>2 DEF Served
    <2>4. ASSUME NEW parts, NEW logs, Get(v, parts, logs),
                 cli.at # 0 /\ ~req.full => v > cli.at,
                 req.full \/ cli.at = 0 => parts = DOMAIN hist[v].plm
          PROVE  RecordsInv' /\ RefreshInv'
        <3>1. /\ rpc' = "files" /\ req' = [req EXCEPT !.parts = parts, !.logs = logs]
              /\ tmp' = [tmp EXCEPT !.at = v] /\ status' = status
            BY <2>4 DEF Get
        <3>2. /\ ShapeOf(req', tmp') /\ req'.full = req.full /\ req'.parts = parts
              /\ tmp'.at = v
            BY <3>1 DEF RecordsInv, ShapeOf
        <3>3. RecordsInv'
            BY <2>1, <3>2 DEF RecordsInv, ShapeOf
        <3>4. RefreshInv'
            BY <1>a, <1>d, <2>1, <2>3, <2>4, <3>1, <3>2 DEF RefreshInv
        <3> QED
            BY <3>3, <3>4
    <2>5. CASE req.full \/ ~Exists
        <3>1. Get(v, DOMAIN hist[v].plm, {}) /\ (req.full \/ cli.at = 0)
            BY <2>2, <2>5 DEF Exists
        <3> QED
            BY <2>4, <3>1
    <2>6. CASE ~(req.full \/ ~Exists)
        <3> DEFINE n == UpdatesNeeded(hist[v])
        <3>0. ~req.full /\ cli.at # 0
            BY <2>6 DEF Exists
        <3>1. CASE n.result = "update"
            <4>1. Get(v, n.parts, n.logs)
                BY <2>2, <2>6, <3>1
            <4>2. v > cli.at
                BY <1>a, <2>3, <3>0, <3>1, UpdateIsNewer
            <4> QED
                BY <2>4, <3>0, <4>1, <4>2
        <3>2. CASE n.result # "update"
            <4>1. Return("ok") \/ Raise(n.result)
                BY <2>2, <2>6, <3>2
            <4> QED
                BY <1>c, <2>1, <4>1, AttemptEnds
        <3> QED
            BY <3>1, <3>2
    <2> QED
        BY <2>5, <2>6
<1>2. CASE GetFails
    BY <1>2, <1>c, AttemptEnds DEF GetFails, server
<1>3. CASE (\E p \in Part : GetPart(p)) \/ (\E h \in 0 .. Hour(MaxTime) : GetLog(h))
    <2>1. /\ UNCHANGED <<hist, cli, rpc, req, status>>
          /\ \E x : tmp' = [tmp EXCEPT !.parts = x] \/ tmp' = [tmp EXCEPT !.logs = x]
        BY <1>3 DEF GetPart, GetLog, server
    <2>2. tmp'.at = tmp.at /\ tmp' = [at |-> tmp'.at, parts |-> tmp'.parts, logs |-> tmp'.logs]
        BY <2>1 DEF RecordsInv
    <2> QED
        BY <2>1, <2>2 DEF RecordsInv, RefreshInv
<1>4. CASE ApplyUpdates
    <2> DEFINE copied == [p \in DOMAIN tmp.parts \cup DOMAIN cli.pkgs |->
                             IF p \in DOMAIN tmp.parts THEN tmp.parts[p] ELSE cli.pkgs[p]]
               result == [p \in DOMAIN copied |->
                             IF p \in DOMAIN Mine.plm
                             THEN Replay(Replayed(p), copied[p])
                             ELSE [error |-> "no", pkgs |-> copied[p]]]
    <2>1. UNCHANGED hist /\ rpc = "files" /\ tmp.at \in 1 .. Len(hist)
        BY <1>4 DEF ApplyUpdates, server, Retrieved, RefreshInv
    <2>2. cli.at # 0 /\ NeverEmpty => "base" \in DOMAIN copied
        BY <1>a
    <2>3. \/ (\E e : Raise(e)) /\ cli' = [cli EXCEPT !.pkgs = copied]
          \/ /\ Return("ok")
             /\ cli' = [at |-> tmp.at, pkgs |-> [p \in DOMAIN copied |-> result[p].pkgs]]
        BY <1>4, ZenonT(60) DEF ApplyUpdates
    <2>4. cli.at # 0
        BY <1>4 DEF ApplyUpdates, Exists
    <2>5. Ended
        BY <2>3, AttemptEnds
    <2> HIDE DEF copied, result
    <2>6. CASE cli' = [cli EXCEPT !.pkgs = copied]
        <3>1. cli' = [at |-> cli.at, pkgs |-> copied]
            BY <2>6 DEF RecordsInv
        <3> QED
            BY <1>a, <1>b, <2>1, <2>2, <2>5, <3>1
    <2>7. CASE cli' = [at |-> tmp.at, pkgs |-> [p \in DOMAIN copied |-> result[p].pkgs]]
        <3>1. cli'.at = tmp.at /\ DOMAIN cli'.pkgs = DOMAIN copied
              /\ cli' = [at |-> cli'.at, pkgs |-> cli'.pkgs]
            BY <2>7
        <3> QED
            BY <1>b, <2>1, <2>2, <2>4, <2>5, <3>1
    <2> QED
        BY <2>3, <2>6, <2>7
<1>5. CASE Install
    <2>1. /\ UNCHANGED hist /\ rpc = "files" /\ tmp.at \in 1 .. Len(hist)
          /\ DOMAIN tmp.parts = req.parts /\ req.parts = DOMAIN hist[tmp.at].plm
        BY <1>5 DEF Install, server, Retrieved, Exists, RefreshInv
    <2>2. NeverEmpty => "base" \in DOMAIN tmp.parts
        BY <2>1 DEF SavesInv, SavedInv
    <2>3. \/ cli' = [at |-> tmp.at, pkgs |-> tmp.parts] /\ Return("ok")
          \/ cli' = NoCatalog /\ Raise("mismatched")
        BY <1>5 DEF Install
    <2>4. Ended
        BY <2>3, AttemptEnds
    <2>5. CASE cli' = [at |-> tmp.at, pkgs |-> tmp.parts]
        <3>1. cli'.at = tmp.at /\ cli'.pkgs = tmp.parts
            BY <2>5
        <3> QED
            BY <1>b, <2>1, <2>2, <2>4, <2>5, <3>1
    <2>6. CASE cli' = NoCatalog
        <3>1. cli' = [at |-> 0, pkgs |-> <<>>] /\ cli'.at = 0 /\ cli'.pkgs = <<>>
            BY <2>6 DEF NoCatalog
        <3> QED
            BY <1>a, <1>b, <2>1, <2>4, <3>1
    <2> QED
        BY <2>3, <2>5, <2>6
<1> QED
    BY <1>1, <1>2, <1>3, <1>4, <1>5 DEF ClientStep

(* The invariant of the refresh.                                           *)
SyncInv == SavesInv /\ RecordsInv /\ RefreshInv

(* It holds before the first refresh.                                      *)
LEMMA SyncStarts ==
    ASSUME SyncInit
    PROVE  SyncInv
<1> DEFINE K == FirstPackages
           c == Catalog(0, 0, [p \in PartsFor(K) |-> 0], Content(K), <<>>)
<1>1. hist = <<c>> /\ clock = 0
    BY DEF SyncInit
<1>2. /\ c.created = 0 /\ c.lm = 0 /\ c.plm = [p \in PartsFor(K) |-> 0]
      /\ c.pkgs = Content(K)
    BY DEF Catalog
<1>3. NeverEmpty => K # {}
    BY DEF FirstPackages
<1> HIDE DEF c, K
<1>4. SavedInv(c)
    BY <1>2, <1>3, BaseOf DEF SavedInv
<1>5. SavesInv
    <2>1. Len(hist) = 1 /\ hist[1] = c /\ hist \in Seq({c})
        BY <1>1
    <2>2. ASSUME NEW i \in 1 .. Len(hist)
          PROVE  i = 1 /\ SavedInv(hist[i]) /\ hist[i].lm <= clock
        <3>1. i = 1
            BY <2>1
        <3> QED
            BY <1>1, <1>2, <1>4, <2>1, <3>1
    <2>3. \A i, j \in 1 .. Len(hist) : i < j => hist[i].lm < hist[j].lm
        BY <2>2
    <2>4. \E S : hist \in Seq(S)
        BY <2>1
    <2> QED
        BY <1>1, <2>1, <2>2, <2>3, <2>4 DEF SavesInv
<1>6. RecordsInv /\ RefreshInv
    BY <1>5 DEF SyncInit, NoCatalog, NoFiles, NoRequest, RecordsInv, RefreshInv,
       SavesInv
<1> QED
    BY <1>5, <1>6 DEF SyncInv

(* Every step of the server and of the client keeps it.                    *)
LEMMA SyncStep ==
    ASSUME SyncInv, [SyncNext]_syncvars
    PROVE  SyncInv'
<1>1. SavesInv /\ RecordsInv /\ RefreshInv
    BY DEF SyncInv
<1>2. SavesInv' /\ Grown
    BY <1>1, ServerStep
<1>3. CASE ClientStep
    BY <1>1, <1>2, <1>3, ClientKeeps DEF SyncInv
<1>4. CASE UNCHANGED <<cli, rpc, req, tmp, status>>
    <2>1. RecordsInv'
        BY <1>1, <1>4 DEF RecordsInv
    <2>2. Len(hist) \in Nat
        BY <1>1 DEF SavesInv
    <2>3. RefreshInv'
        BY <1>1, <1>2, <1>4, <2>2 DEF RefreshInv, Grown
    <2> QED
        BY <1>2, <2>1, <2>3 DEF SyncInv
<1>5. ASSUME NEW full \in BOOLEAN, Refresh(full)
      PROVE  SyncInv'
    <2>1. UNCHANGED <<hist, cli>> /\ status' = "none"
        BY <1>5 DEF Refresh, server
    <2>2. Ended
        BY <1>5, AttemptEnds
    <2> QED
        BY <1>1, <1>2, <2>1, <2>2 DEF Ended, SyncInv, RecordsInv, RefreshInv, ShapeOf
<1> QED
    BY <1>3, <1>4, <1>5 DEF SyncNext, AddPackage, RemovePackage, ReadPart,
       Rebuild, RestartServer, Tick, syncvars

(* The client changes its catalog only in apply_updates() and when it      *)
(* installs a full retrieval.                                              *)
LEMMA OnlyTwoChange ==
    ASSUME [SyncNext]_syncvars, cli' # cli
    PROVE  ApplyUpdates \/ Install
BY DEF SyncNext, AddPackage, RemovePackage, ReadPart, Rebuild, RestartServer,
   Tick, Refresh, ClientStep, GetAttrs, GetFails, GetPart,
   GetLog, syncvars

(* A catalog that replaces the client's is not older.                      *)
LEMMA NotOlder ==
    ASSUME SyncInv, [SyncNext]_syncvars, Exists, cli'.at # 0, cli' # cli
    PROVE  cli'.at >= cli.at
<1>1. RecordsInv /\ RefreshInv /\ cli.at # 0 /\ cli.at \in Nat
    BY DEF SyncInv, Exists, RefreshInv
<1>2. CASE ApplyUpdates
    <2>1. rpc = "files" /\ ~req.full
        BY <1>2 DEF ApplyUpdates, Retrieved
    <2>2. tmp.at > cli.at /\ tmp.at \in Nat
        BY <1>1, <2>1 DEF RefreshInv
    <2>3. cli'.at = cli.at \/ cli'.at = tmp.at
        <3>1. (\E x : cli' = [cli EXCEPT !.pkgs = x]) \/ (\E x : cli' = [at |-> tmp.at, pkgs |-> x])
            BY <1>2 DEF ApplyUpdates
        <3> QED
            BY <1>1, <3>1 DEF RecordsInv
    <2> QED
        BY <1>1, <2>2, <2>3
<1>3. CASE Install
    <2>1. rpc = "files" /\ req.full
        BY <1>3 DEF Install, Retrieved
    <2>2. tmp.at >= cli.at
        BY <1>1, <2>1 DEF RefreshInv
    <2>3. cli'.at = 0 \/ cli'.at = tmp.at
        BY <1>3 DEF Install, NoCatalog
    <2> QED
        BY <2>2, <2>3
<1> QED
    BY <1>2, <1>3, OnlyTwoChange

(* What is installed has the base part of the catalog whose attributes     *)
(* come with it.                                                           *)
LEMMA SameBase ==
    ASSUME SyncInv, [SyncNext]_syncvars, NeverEmpty, cli' # cli, status' = "ok"
    PROVE  Packages(cli'.pkgs) = Packages(hist[cli'.at].pkgs)
<1>0. SavesInv /\ RecordsInv /\ RefreshInv
    BY DEF SyncInv
<1>a. \A i \in 1 .. Len(hist) : "base" \in DOMAIN hist[i].plm /\ "base" \in DOMAIN hist[i].pkgs
    BY <1>0 DEF SavesInv, SavedInv
<1>b. ASSUME NEW e, Raise(e), rpc = "files"
      PROVE  FALSE
    <2>1. status = "none"
        BY <1>0, <1>b DEF RefreshInv
    <2> QED
        BY <1>b, <2>1 DEF Raise, Return
<1>1. CASE ApplyUpdates
    <2> DEFINE new == hist[tmp.at]
               copied == [p \in DOMAIN tmp.parts \cup DOMAIN cli.pkgs |->
                             IF p \in DOMAIN tmp.parts THEN tmp.parts[p] ELSE cli.pkgs[p]]
               result == [p \in DOMAIN copied |->
                             IF p \in DOMAIN Mine.plm
                             THEN Replay(Replayed(p), copied[p])
                             ELSE [error |-> "no", pkgs |-> copied[p]]]
               differs == \E p \in InMemory : \/ p \notin DOMAIN new.pkgs
                                                   \/ result[p].pkgs # new.pkgs[p]
    <2>0. Retrieved /\ Exists
        BY <1>1 DEF ApplyUpdates
    <2> HIDE DEF new, copied, result, differs
    <2>1. rpc = "files" /\ cli.at # 0 /\ tmp.at \in 1 .. Len(hist) /\ cli.at \in 1 .. Len(hist)
        BY <1>0, <2>0 DEF Retrieved, Exists, RefreshInv
    <2>2. "base" \in DOMAIN cli.pkgs /\ "base" \in DOMAIN Mine.plm
        BY <1>0, <1>a, <2>1 DEF RefreshInv, Mine
    <2>3. "base" \in InMemory /\ "base" \in DOMAIN copied
        BY <2>2 DEF InMemory, copied
    <2>4. \/ ~differs /\ cli' = [at |-> tmp.at, pkgs |-> [p \in DOMAIN copied |-> result[p].pkgs]]
          \/ (\E e : Raise(e)) /\ cli' = [cli EXCEPT !.pkgs = copied]
        BY <1>1, ZenonT(60) DEF ApplyUpdates, new, copied, result, differs
    <2> USE DEF new, differs
    <2>5. CASE ~differs /\ cli' = [at |-> tmp.at, pkgs |-> [p \in DOMAIN copied |-> result[p].pkgs]]
        <3>1. result["base"].pkgs = new.pkgs["base"] /\ "base" \in DOMAIN new.pkgs
            BY <2>3, <2>5
        <3>2. /\ cli'.at = tmp.at /\ "base" \in DOMAIN cli'.pkgs
              /\ cli'.pkgs["base"] = result["base"].pkgs
            BY <2>3, <2>5
        <3> QED
            BY <3>1, <3>2 DEF Packages
    <2>6. CASE (\E e : Raise(e)) /\ cli' = [cli EXCEPT !.pkgs = copied]
        BY <1>b, <2>1, <2>6
    <2> QED
        BY <2>4, <2>5, <2>6
<1>2. CASE Install
    <2>1. /\ rpc = "files" /\ tmp.at \in 1 .. Len(hist)
          /\ DOMAIN tmp.parts = DOMAIN hist[tmp.at].plm
        BY <1>0, <1>2 DEF Install, Retrieved, Exists, RefreshInv
    <2>2. \/ /\ \A p \in DOMAIN tmp.parts : tmp.parts[p] = hist[tmp.at].pkgs[p]
             /\ cli' = [at |-> tmp.at, pkgs |-> tmp.parts]
          \/ Raise("mismatched")
        BY <1>2 DEF Install
    <2>3. CASE /\ \A p \in DOMAIN tmp.parts : tmp.parts[p] = hist[tmp.at].pkgs[p]
               /\ cli' = [at |-> tmp.at, pkgs |-> tmp.parts]
        <3>1. cli'.at = tmp.at /\ cli'.pkgs = tmp.parts
            BY <2>3
        <3>2. /\ "base" \in DOMAIN tmp.parts /\ "base" \in DOMAIN hist[tmp.at].pkgs
              /\ tmp.parts["base"] = hist[tmp.at].pkgs["base"]
            BY <1>a, <2>1, <2>3
        <3> QED
            BY <3>1, <3>2 DEF Packages
    <2> QED
        BY <1>b, <2>1, <2>2, <2>3
<1> QED
    BY <1>1, <1>2, OnlyTwoChange

(* The invariant holds in every state of the server and of the client, for *)
(* any packages and whatever fails, restarts, is rebuilt or cached.        *)
THEOREM SyncInvariance == SyncSpec => []SyncInv
<1>1. SyncInit => SyncInv
    BY SyncStarts
<1>2. SyncInv /\ [SyncNext]_syncvars => SyncInv'
    BY SyncStep
<1> QED
    BY <1>1, <1>2, PTL DEF SyncSpec

(* Publisher.refresh() does not replace the client's catalog by an older   *)
(* one: get_updates_needed() refuses it, and a full retrieval gets the     *)
(* newest, whatever caches, failures and rebuilds come between.            *)
THEOREM ClientNeverGoesBack == SyncSpec => NeverGoesBack
<1>1. SyncInv /\ [SyncNext]_syncvars =>
          [Exists /\ cli'.at # 0 => cli'.at >= cli.at]_cli
    BY NotOlder
<1> QED
    BY <1>1, SyncInvariance, PTL DEF SyncSpec, NeverGoesBack

(* If the repository always has a package, a refresh that succeeds leaves  *)
(* the packages of one catalog that the server saved, the one with whose   *)
(* attributes the client goes on: apply_updates() and the validation of a  *)
(* full retrieval refuse every mixture.                                    *)
THEOREM RefreshInstallsSnapshot ==
    ASSUME NeverEmpty
    PROVE  SyncSpec => InstallsSnapshot
<1>1. SyncInv /\ [SyncNext]_syncvars =>
          [cli' # cli /\ status' = "ok"
               => Packages(cli'.pkgs) = Packages(hist[cli'.at].pkgs)]_syncvars
    BY SameBase
<1>2. SyncSpec => []SyncInv
    BY SyncInvariance
<1> QED
    BY <1>1, <1>2, PTL DEF SyncSpec, InstallsSnapshot
=============================================================================
