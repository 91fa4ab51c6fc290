------------------------------ MODULE Transport ------------------------------
(***************************************************************************)
(* Retrieval of a list of files (client/transport): _get_files() and       *)
(* _get_files_list(), which get_catalog1() repeats for the parts of a      *)
(* catalog, over the request engine that all retrievals of a client share. *)
(*                                                                         *)
(* The files are asked for in chunks.  A chunk goes to one repository      *)
(* after the other, each time with the files that are still missing, until *)
(* all have arrived or every repository was tried MaxTries times.  The     *)
(* engine runs some requests at a time; a request succeeds, with the right *)
(* content or not, fails in a way worth a retry, or fails for good or is   *)
(* canceled, which is raised at once.  After MaxErrors errors in a row a   *)
(* repository is given up.                                                 *)
(***************************************************************************)
EXTENDS Naturals, FiniteSets

CONSTANTS
    Pub,            \* the publishers, retrieved for one after the other
    Repo, ReposOf,  \* the repositories, and those of a publisher
    File,           \* the files to retrieve for each publisher
    None,           \* no publisher, no repository
    MaxHandles,     \* requests that run at a time
    MaxTries,       \* PKG_CLIENT_MAX_TIMEOUT
    MaxErrors       \* PKG_CLIENT_MAX_CONSECUTIVE_ERROR

ASSUME NoneAssumption == None \notin Pub \cup Repo
ASSUME ReposAssumption == ReposOf \in [Pub -> (SUBSET Repo) \ {{}}]
ASSUME BoundsAssumption == {MaxHandles, MaxTries, MaxErrors} \subseteq Nat \ {0}

VARIABLES
    pc, pub,        \* where the client is, and for which publisher
    served,         \* the publishers that were retrieved for
    todo,           \* the files that have not arrived
    chunk, ask,     \* the files of the chunk, and those to ask for now
    repo,           \* the repository that was asked
    left, tries,    \* repositories not yet asked in this round; rounds
    found, known,   \* one was asked in this round; ones that answered once
    failures,       \* the files for which some failure is remembered
    failedreqs,     \* the files that the last repository did not deliver
    answer,         \* what the engine reported: failed and successful files
    dl,             \* the file in the download directory: none, good, bad
    queue, active,  \* requests that wait, and that run, in the engine
    efail, esucc,   \* requests that failed, and succeeded, in the engine
    errs            \* errors in a row of every repository

list == <<chunk, ask, repo, left, tries, found, known, failures, failedreqs>>
engine == <<queue, active, efail, esucc>>
transportvars == <<pc, pub, served, todo, chunk, ask, repo, left, tries, found, known,
          failures, failedreqs, answer, dl, queue, active, efail, esucc, errs>>

Requests(r, files) == {r} \X files
FilesOf(r, requests) == {f \in File : <<r, f>> \in requests}
Lesser(a, b) == IF a < b THEN a ELSE b
NoAnswer == [gaveUp |-> FALSE, errors |-> {}, success |-> {}]

TransportInit ==
    /\ pc = "idle" /\ pub = None /\ served = {} /\ todo = {}
    /\ chunk = {} /\ ask = {} /\ repo = None /\ left = {} /\ tries = 0
    /\ found = FALSE /\ known = {} /\ failures = {} /\ failedreqs = {}
    /\ answer = NoAnswer
    /\ dl = [f \in File |-> "none"]
    /\ queue = {} /\ active = {} /\ efail = {} /\ esucc = {}
    /\ errs = [r \in Repo |-> 0]

-----------------------------------------------------------------------------
Begin ==
    /\ pc = "idle"
    /\ \E p \in Pub \ served :
           pub' = p /\ served' = served \cup {p}
    /\ todo' = File
    /\ pc' = "next" /\ chunk' = {}
    /\ UNCHANGED <<ask, repo, left, tries, found, known, failures, failedreqs,
                   answer, dl, engine, errs>>

(* _get_files(): as long as files are missing, some of them are a chunk.   *)
NextChunk ==
    /\ pc = "next" /\ todo # {}
    /\ \E c \in (SUBSET todo) \ {{}} : chunk' = c /\ ask' = c
    /\ left' = ReposOf[pub] /\ tries' = 1 /\ found' = FALSE
    /\ failures' = {} /\ failedreqs' = {}
    /\ pc' = "choose"
    /\ UNCHANGED <<pub, served, todo, repo, known, answer, dl, engine, errs>>

AllRetrieved ==
    /\ pc = "next" /\ todo = {}
    /\ pc' = "idle" /\ chunk' = {}
    /\ UNCHANGED <<pub, served, todo, ask, repo, left, tries, found, known,
                   failures, failedreqs, answer, dl, engine, errs>>

(* __gen_repo(): the repositories in the order of their quality, which may *)
(* be any.  The first time, its versions must be retrieved; a repository   *)
(* for which that fails, or without the right one, is passed over.         *)
PassOver ==
    /\ pc = "choose"
    /\ \E r \in left \ known : left' = left \ {r}
    /\ UNCHANGED <<pc, pub, served, todo, chunk, ask, repo, tries, found, known,
                   failures, failedreqs, answer, dl, engine, errs>>

(* get_files(): a request for every file.                                  *)
AskRepo ==
    /\ pc = "choose"
    /\ \E r \in left :
           /\ left' = left \ {r} /\ repo' = r /\ known' = known \cup {r}
           /\ queue' = queue \cup Requests(r, ask)
    /\ found' = TRUE
    /\ pc' = "running"
    /\ UNCHANGED <<pub, served, todo, chunk, ask, tries, failures, failedreqs,
                   answer, dl, active, efail, esucc, errs>>

NextRound ==
    /\ pc = "choose" /\ left = {} /\ found /\ tries < MaxTries
    /\ tries' = tries + 1 /\ left' = ReposOf[pub] /\ found' = FALSE
    /\ UNCHANGED <<pc, pub, served, todo, chunk, ask, repo, known, failures,
                   failedreqs, answer, dl, engine, errs>>

(* No repository could be asked, which is raised, or all were tried: what  *)
(* is missing is raised if a failure is remembered for some file.          *)
GiveUp ==
    /\ pc = "choose" /\ left = {}
    /\ ~found \/ tries = MaxTries
    /\ pc' = IF ~found \/ (failedreqs # {} /\ failures # {}) THEN "idle" ELSE "next"
    /\ UNCHANGED <<pub, served, todo, list, answer, dl, engine, errs>>

-----------------------------------------------------------------------------
(* CurlTransportEngine.                                                    *)

(* Errors in a row: the failed requests of a run() are counted first, and  *)
(* a successful one clears the count.                                      *)
Counted(r, bad, good) ==
    IF FilesOf(r, good) # {} THEN 0
    ELSE Lesser(errs[r] + Cardinality(FilesOf(r, bad)), MaxErrors)

(* One run(): the requests `started', and how those that ran have ended    *)
(* since: with the right content, with another, with a failure worth a     *)
(* retry, or for good.  A permanent failure, or that the user has          *)
(* canceled, is raised, with all other requests left as they are.  If a    *)
(* repository had too many errors in a row, what is known is reported and  *)
(* the engine is reset.                                                    *)
Ending(started, good, corrupt, bad, fatal) ==
    LET running == active \cup started
        ended == good \cup corrupt \cup bad \cup fatal
        fine == good \cup corrupt
        count == [r \in Repo |-> Counted(r, bad \cup fatal, fine)]
        over == {r \in Repo : count[r] = MaxErrors /\ FilesOf(r, ended) # {}}
        named(fate, q) == \E r \in Repo : <<r, q>> \in fate
    IN
    /\ Cardinality(ended) =
           Cardinality(good) + Cardinality(corrupt) + Cardinality(bad) + Cardinality(fatal)
    /\ started \cup ended # {}
    /\ dl' = [f \in File |-> IF named(bad \cup fatal, f) THEN "none"
                             ELSE IF named(corrupt, f) THEN "bad"
                             ELSE IF named(good, f) THEN "good" ELSE dl[f]]
    /\ \/ /\ fatal # {}
          /\ errs' = count
          /\ queue' = queue \ started /\ active' = running \ ended
          /\ efail' = efail \cup bad /\ esucc' = esucc \cup fine
          /\ pc' \in {"failed", "canceled"} /\ UNCHANGED answer
       \/ /\ fatal = {} /\ (bad = {} \/ over = {})
          /\ errs' = count
          /\ queue' = queue \ started /\ active' = running \ ended
          /\ efail' = efail \cup bad /\ esucc' = esucc \cup fine
          /\ UNCHANGED <<pc, answer>>
       \/ /\ fatal = {} /\ bad # {}
          /\ \E r \in over : errs' = [count EXCEPT ![r] = 0]
          /\ answer' = [gaveUp |-> TRUE,
                        errors |-> FilesOf(repo, efail \cup bad) \cap ask,
                        success |-> FilesOf(repo, esucc \cup fine) \cap ask]
          /\ queue' = {} /\ active' = {} /\ efail' = {} /\ esucc' = {}
          /\ pc' = "answered"

(* run(): requests are started while there are free handles.               *)
Run ==
    /\ pc = "running"
    /\ \E started \in SUBSET queue :
          /\ Cardinality(started) =
                 Lesser(MaxHandles - Cardinality(active), Cardinality(queue))
          /\ \E good, corrupt, bad, fatal \in SUBSET (active \cup started) :
                Ending(started, good, corrupt, bad, fatal)
    /\ UNCHANGED <<pub, served, todo, list>>

(* __check_for_stalls(): no request has transferred anything for a while.  *)
Stall ==
    /\ pc = "running" /\ active # {}
    /\ efail' = efail \cup active /\ active' = {}
    /\ UNCHANGED <<pc, pub, served, todo, list, answer, dl, queue, esucc, errs>>

(* check_status(): the failures of the caller's own requests, and without  *)
(* a request of one's own, all.                                            *)
Claimed == IF ask = {} THEN efail ELSE efail \cap Requests(repo, ask)

(* Nothing is pending: get_files() returns the failures.                   *)
CheckStatus ==
    /\ pc = "running" /\ queue = {} /\ active = {}
    /\ answer' = [gaveUp |-> FALSE, errors |-> {q[2] : q \in Claimed}, success |-> {}]
    /\ efail' = efail \ Claimed /\ esucc' = {}
    /\ pc' = "answered"
    /\ UNCHANGED <<pub, served, todo, list, dl, queue, active, errs>>

-----------------------------------------------------------------------------
(* The files that are taken to have arrived: after giving up, the ones     *)
(* that were reported; otherwise all for which no error was reported.      *)
Success == IF answer.gaveUp THEN answer.success ELSE ask \ answer.errors

(* Mutant: after giving up, only what was tried and failed is asked for    *)
(* again.                                                                  *)
MutMissing(good) == answer.errors \cup (Success \ good)

(* The files to ask the next repository for: those that failed, those that *)
(* were not tried, and those whose content is not what it should be.       *)
Missing(good) == ask \ good

(* Mutant: a rejected content is not remembered as a failure.              *)
MutRemembered(good) == failures \cup answer.errors

Remembered(good) == failures \cup answer.errors \cup (Success \ good)

(* The rest of the loop of _get_files_list(): the content is verified and  *)
(* good files go to the cache; a repository that delivers bad content has  *)
(* made an error.                                                          *)
Verify ==
    /\ pc = "answered"
    /\ LET good == {f \in Success : dl[f] = "good"}
           wrong == Success \ good
       IN  /\ todo' = todo \ good
           /\ ask' = Missing(good) /\ failedreqs' = Missing(good)
           /\ failures' = Remembered(good)
           /\ errs' = [errs EXCEPT ![repo] = Lesser(@ + Cardinality(wrong), MaxErrors)]
           /\ dl' = [f \in File |-> IF f \in Success THEN "none" ELSE dl[f]]
           /\ pc' = IF Missing(good) = {} /\ answer.errors = {} THEN "next" ELSE "choose"
    /\ answer' = NoAnswer
    /\ UNCHANGED <<pub, served, chunk, repo, left, tries, found, known, engine>>

(* The call that was canceled ends with reset(), which forgets what is     *)
(* known of the repositories too, and the user may make another one.       *)
Reset ==
    /\ pc = "canceled"
    /\ pc' = "idle"
    /\ queue' = {} /\ active' = {} /\ efail' = {} /\ esucc' = {} /\ known' = {}
    /\ UNCHANGED <<pub, served, todo, chunk, ask, repo, left, tries, found, failures,
                   failedreqs, answer, dl, errs>>

(* A permanent failure ends the retrieval.  refresh_publishers() goes on   *)
(* with the next publisher, as a user may with another operation; nobody   *)
(* resets the engine.                                                      *)
GoOn ==
    /\ pc = "failed"
    /\ pc' = "idle"
    /\ UNCHANGED <<pub, served, todo, list, answer, dl, engine, errs>>

TransportNext ==
    \/ Begin \/ NextChunk \/ AllRetrieved
    \/ PassOver \/ AskRepo \/ NextRound \/ GiveUp
    \/ Run \/ Stall \/ CheckStatus \/ Verify \/ Reset \/ GoOn

(* The client runs until it is done; that requests end is what libcurl's   *)
(* timeouts and the check for stalls are for.                              *)
Fairness == WF_transportvars(TransportNext)
TransportSpec == TransportInit /\ [][TransportNext]_transportvars /\ Fairness

-----------------------------------------------------------------------------
(* _get_files_list() returns only when every file of the chunk is there:   *)
(* none is forgotten among those that failed, were not tried, or were      *)
(* delivered by some repository with the wrong content.                    *)
ListIsComplete == pc = "next" => chunk \cap todo = {}

(* A retrieval ends: there is no chunk that is asked for over and over.    *)
RetrievalEnds == pc # "idle" ~> pc = "idle"

=============================================================================
