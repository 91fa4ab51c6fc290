------------------------------ MODULE Transaction ------------------------------
(***************************************************************************)
(* pkg.server.transaction.Transaction: how one publication is assembled on *)
(* the server.  A client opens a transaction for a new package, or one     *)
(* that appends signatures to a published package, adds actions one at a   *)
(* time (add_content), as a whole manifest (add_manifest) or payload files *)
(* (add_file), and closes or abandons it.  The transaction lives in a      *)
(* directory; the object that caches what it contains is lost when the     *)
(* server restarts and is rebuilt by reopen().                             *)
(***************************************************************************)
EXTENDS Naturals, Integers, Sequences, FiniteSets, SequencesExt

CONSTANTS
    Cert,           \* chain certificates of the signature "chainsig"
    Uploads,        \* the manifests (sequences of actions) clients upload
    AppendUploads,  \* ... and those they upload when they append
    Acts,           \* the actions clients add one at a time
    MaxActions,     \* bound on the length of a manifest
    StopOnError,    \* clients abandon a transaction after an error
    Restarts        \* the server may restart during a transaction

Action == {"set", "obsolete", "renamed", "file", "require", "optional",
           "sig", "chainsig"}

ASSUME CertAssumption == IsFiniteSet(Cert)
ASSUME ActsAssumption == Acts \subseteq Action
ASSUME UploadsAssumption ==
    Uploads \subseteq Seq(Action) /\ AppendUploads \subseteq Uploads

VARIABLES
    dir,        \* the transaction directory: "none", "open" or "append"
    man,        \* its manifest file
    files,      \* the payload files in the directory
    store,      \* the payload files in the repository
    obj,        \* the cached Transaction object, or NoObj
    pkg,        \* the manifest of the published package, <<>> before that
    error,      \* the last call of the client was refused
    restarted   \* history: the server restarted since the last open

vars == <<dir, man, files, store, obj, pkg, error, restarted>>

(* The name of an action: "set", "depend", "file" or "signature".          *)
TypeName(a) ==
    CASE a \in {"set", "obsolete", "renamed"} -> "set"
      [] a \in {"require", "optional"} -> "depend"
      [] a \in {"sig", "chainsig"} -> "signature"
      [] OTHER -> "file"

(* The Transaction object as __init__ leaves it.                           *)
NoObj == [append |-> FALSE, obsolete |-> FALSE, renamed |-> FALSE,
          reqdeps |-> FALSE, types |-> {}, remaining |-> 0, loaded |-> FALSE]
NewObj(append) == [NoObj EXCEPT !.loaded = TRUE, !.append = append]

Init == /\ dir = "none" /\ man = <<>> /\ files = {} /\ store = {}
        /\ obj = NoObj /\ pkg = <<>> /\ error = FALSE /\ restarted = FALSE

-----------------------------------------------------------------------------
(* open(): the package is not in the catalog, the directory does not exist *)
(* and a manifest with the pkg.fmri set action is written.                 *)
Open ==
    /\ dir = "none" /\ pkg = <<>>
    /\ dir' = "open"
    /\ man' = <<"set">>
    /\ obj' = NewObj(FALSE)
    /\ error' = FALSE /\ restarted' = FALSE
    /\ UNCHANGED <<files, store, pkg>>

(* append(): the package is in the catalog; its manifest is copied.        *)
Append_ ==
    /\ dir = "none" /\ pkg # <<>>
    /\ dir' = "append"
    /\ man' = pkg
    /\ obj' = NewObj(TRUE)
    /\ error' = FALSE /\ restarted' = FALSE
    /\ UNCHANGED <<files, store, pkg>>

(* Mutant: reopen() does not look for dependencies.                        *)
MutReopened ==
    [NoObj EXCEPT !.append = (dir = "append"), !.loaded = TRUE,
                  !.obsolete = "obsolete" \in ToSet(man),
                  !.renamed = "renamed" \in ToSet(man),
                  !.types = {TypeName(a) : a \in ToSet(man)}]

(* reopen(): everything the object knows comes from the directory.         *)
Reopened ==
    [append |-> dir = "append",
     obsolete |-> "obsolete" \in ToSet(man),
     renamed |-> "renamed" \in ToSet(man),
     reqdeps |-> "require" \in ToSet(man),
     types |-> {TypeName(a) : a \in ToSet(man)},
     remaining |-> 0,
     loaded |-> TRUE]

(* __get_transaction(): the cached object, reopened if there is none.      *)
Object == IF obj.loaded THEN obj ELSE Reopened

(* Mutant: the types seen so far are not looked at when a mark arrives.    *)
MutValidate(o, a) ==
    LET m == [o EXCEPT !.obsolete = @ \/ a = "obsolete",
                       !.renamed = @ \/ a = "renamed",
                       !.reqdeps = @ \/ a = "require",
                       !.types = @ \cup {TypeName(a)}]
    IN  [o |-> m,
         ok |-> ~(m.obsolete /\ TypeName(a) \notin {"set", "signature"})]

(* The checks of an action against the object: the object afterwards, and  *)
(* whether the action was refused.  A refused mark stays set.              *)
Validate(o, a) ==
    LET marked == [o EXCEPT !.obsolete = @ \/ a = "obsolete",
                            !.renamed = @ \/ a = "renamed"]
        dep == [marked EXCEPT !.reqdeps = @ \/ a = "require"]
        allowed == IF a = "obsolete" THEN {"set", "signature"}
                                     ELSE {"set", "depend", "signature"}
    IN  IF a \in {"obsolete", "renamed"} /\ ~(o.types \subseteq allowed)
        THEN [o |-> marked, ok |-> FALSE]
        ELSE IF dep.obsolete /\ dep.renamed /\ a = "obsolete"
        THEN [o |-> [dep EXCEPT !.obsolete = FALSE], ok |-> FALSE]
        ELSE IF dep.obsolete /\ dep.renamed /\ a \in {"set", "renamed"}
        THEN [o |-> [dep EXCEPT !.renamed = FALSE], ok |-> FALSE]
        ELSE IF dep.obsolete /\ dep.renamed     \* no name attribute: KeyError
        THEN [o |-> dep, ok |-> FALSE]
        ELSE IF dep.obsolete /\ TypeName(a) \notin {"set", "signature"}
        THEN [o |-> dep, ok |-> FALSE]
        ELSE IF dep.renamed /\ TypeName(a) \notin {"depend", "set", "signature"}
        THEN [o |-> dep, ok |-> FALSE]
        ELSE [o |-> [dep EXCEPT !.types = @ \cup {TypeName(a)}], ok |-> TRUE]

(* The client goes on after an error only if StopOnError is FALSE.         *)
InTransaction == dir # "none" /\ (StopOnError => ~error)

(* The client of an append (pkgsign) has delivered the chain certificates  *)
(* of a signature before it adds another action.                           *)
ChainSent == "chainsig" \in ToSet(man) => files \cup store = Cert

(* The number of chain certificates an action announces.                   *)
ChainSize(a) == IF a = "chainsig" THEN Cardinality(Cert) ELSE 0

(* add_content(): an append transaction takes signatures only.             *)
AddContent(a) ==
    /\ InTransaction /\ ChainSent
    /\ Len(man) < MaxActions
    /\ IF Object.append /\ TypeName(a) # "signature"
       THEN obj' = Object /\ error' = TRUE /\ UNCHANGED man
       ELSE LET v == Validate([Object EXCEPT !.remaining = ChainSize(a)], a)
            IN  /\ obj' = v.o
                /\ error' = ~v.ok
                /\ man' = IF v.ok THEN Append(man, a) ELSE man
    /\ UNCHANGED <<dir, files, store, pkg, restarted>>

(* add_file() of a chain certificate, without a basename; pkgsign sends    *)
(* each one once.  Certificates are counted, not looked at.                *)
AddFile(c) ==
    /\ InTransaction
    /\ c \notin files
    /\ files' = files \cup {c}
    /\ obj' = [Object EXCEPT !.remaining = @ - 1]
    /\ error' = FALSE
    /\ UNCHANGED <<dir, man, store, pkg, restarted>>

(* The actions of `content' are checked up to the first refusal.           *)
Checked(o, content) ==
    LET upto[n \in 0 .. Len(content)] ==
            IF n = 0 THEN [o |-> o, ok |-> TRUE]
            ELSE IF upto[n - 1].ok THEN Validate(upto[n - 1].o, content[n])
            ELSE upto[n - 1]
    IN  upto[Len(content)]

(* add_manifest(): the upload is appended to the manifest file first and   *)
(* checked afterwards.  Of a compressed upload the whole manifest file is  *)
(* checked.  Whether the transaction appends is not looked at: pkgsign     *)
(* uploads no manifest, other clients may (AppendUploads).                 *)
AddManifest(up) ==
    /\ InTransaction /\ ChainSent
    /\ dir = "append" => up \in AppendUploads
    /\ Len(man) + Len(up) <= MaxActions
    /\ man' = man \o up
    /\ \E content \in {up, man \o up} :
           LET v == Checked(Object, content)
           IN  obj' = v.o /\ error' = ~v.ok
    /\ UNCHANGED <<dir, files, store, pkg, restarted>>

(* Mutant: a renamed package needs no dependency, and the certificates are *)
(* not counted.                                                            *)
MutAccepted(o) == TRUE

(* close(): accept_publish() or accept_append(), publish_package() and the *)
(* removal of the directory.  (Their interleaving with the other users of  *)
(* the repository is the subject of RepoStore.)                            *)
Accepted(o) == /\ ~(o.renamed /\ ~o.reqdeps)
               /\ o.append => o.remaining <= 0
Close ==
    /\ InTransaction
    /\ IF Accepted(Object)
       THEN /\ pkg' = man
            /\ dir' = "none" /\ man' = <<>>
            /\ files' = {} /\ store' = store \cup files
            /\ obj' = NoObj
            /\ error' = FALSE
       ELSE /\ obj' = Object /\ error' = TRUE
            /\ UNCHANGED <<dir, man, files, store, pkg>>
    /\ UNCHANGED restarted

Abandon ==
    /\ dir # "none"
    /\ dir' = "none" /\ man' = <<>> /\ files' = {}
    /\ obj' = NoObj
    /\ error' = FALSE
    /\ UNCHANGED <<store, pkg, restarted>>

Restart ==
    /\ Restarts
    /\ obj.loaded
    /\ obj' = NoObj
    /\ restarted' = TRUE
    /\ UNCHANGED <<dir, man, files, store, pkg, error>>

Next == \/ Open \/ Append_ \/ Close \/ Abandon \/ Restart
        \/ \E a \in Acts : AddContent(a)
        \/ \E c \in Cert : AddFile(c)
        \/ \E up \in Uploads : AddManifest(up)

Spec == Init /\ [][Next]_vars
-----------------------------------------------------------------------------
Consistent(m) ==
    LET types == {TypeName(a) : a \in ToSet(m)}
    IN  /\ "obsolete" \in ToSet(m) => types \subseteq {"set", "signature"}
        /\ "renamed" \in ToSet(m) =>
               types \subseteq {"set", "depend", "signature"} /\ "require" \in ToSet(m)
        /\ ~({"obsolete", "renamed"} \subseteq ToSet(m))

(* What is published obeys the rules of pkg(7): an obsolete package has    *)
(* set actions only (and signatures), a renamed one has a dependency on    *)
(* its successor and no payload, and no package is both.  The rules are    *)
(* checked action by action against flags kept beside the manifest, which  *)
(* a restart of the server rebuilds.                                       *)
PublishedIsConsistent == Consistent(pkg)

(* accept_append() refuses to close when "At least one certificate has not *)
(* been delivered for the signature action": a signature appended to a     *)
(* package comes with its chain of certificates, whatever else was added,  *)
(* refused or abandoned before.  A server that restarts forgets the count, *)
(* which is left out.                                                      *)
ChainIsCompleteUnlessRestarted ==
    [][\/ restarted
       \/ dir = "append" /\ "chainsig" \in ToSet(pkg') \ ToSet(pkg) => store' = Cert]_pkg

(* Restarting the server between two calls does not change what it knows   *)
(* of the transaction: the flags of the object are those of the manifest   *)
(* it would be reopened from, unless the last call was refused.            *)
RestartForgetsNothing ==
    obj.loaded /\ dir = "open" /\ ~error =>
        /\ obj.obsolete = Reopened.obsolete /\ obj.renamed = Reopened.renamed
        /\ obj.reqdeps = Reopened.reqdeps
=============================================================================
