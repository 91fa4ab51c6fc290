------------------------------ MODULE MCRepoStore ------------------------------
(* Instances of RepoStore: the depot server and pkgsend or pkgrepo, which  *)
(* use a repository at the same time.                                      *)
EXTENDS RepoStore, TLC

CONSTANTS depot, pkgsend, t1, t2, k1, k2, f1, f2

TwoProcesses == (t1 :> depot) @@ (t2 :> pkgsend)
SharedFile == (k1 :> {f1}) @@ (k2 :> {f1, f2})
=============================================================================
