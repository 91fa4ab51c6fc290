----------------------------- MODULE MCPublishing -----------------------------
(***************************************************************************)
(* The way of a package from a publisher to a client, in three instances   *)
(* that share no state: the transaction that publishes it (Transaction),   *)
(* the catalog that lists it (CatalogSync) and the retrieval of its files  *)
(* (Transport).  The initial state chooses one of them and only that one   *)
(* moves, so the states of the run are the sum of the three.               *)
(***************************************************************************)
EXTENDS Transaction, CatalogSync, Transport, TLC

CONSTANTS k1, k2,                           \* packages
          p1, p2, mirror, origin, other     \* publishers, repositories

SomeUploads == {<<"set", "file">>, <<"obsolete", "file">>,
                <<"renamed", "require">>, <<"renamed", "obsolete">>, <<"sig">>}
SignatureUploads == {<<"sig">>}

(* The first publisher has a mirror and an origin, the second an origin of *)
(* its own.                                                                *)
TwoPublishers == (p1 :> {mirror, origin}) @@ (p2 :> {other})
-----------------------------------------------------------------------------
VARIABLE part       \* the instance that moves

partvars == <<part, vars, syncvars, transportvars>>

WhenTransaction(A) == part = "transaction" /\ A /\ UNCHANGED <<part, syncvars, transportvars>>
WhenCatalog(A) == part = "catalog" /\ A /\ UNCHANGED <<part, vars, transportvars>>
WhenTransport(A) == part = "transport" /\ A /\ UNCHANGED <<part, vars, syncvars>>

(* Everything was retrieved: the client may stop.                          *)
AllServed == pc = "idle" /\ served = Pub

PartInit ==
    /\ part \in {"transaction", "catalog", "transport"}
    /\ Init /\ SyncInit /\ TransportInit

PartNext ==
    \/ WhenTransaction(Next)
    \/ WhenCatalog(SyncNext)
    \/ WhenTransport(TransportNext)
    \/ WhenTransport(AllServed /\ UNCHANGED transportvars)

(* The fairness of FairSyncSpec and TransportSpec.                         *)
PartFairness ==
    /\ WF_partvars(WhenCatalog(Refresh(FALSE)))
    /\ WF_partvars(WhenCatalog(ClientStep))
    /\ WF_partvars(WhenTransport(TransportNext))

PartSpec == PartInit /\ [][PartNext]_partvars /\ PartFairness
=============================================================================
