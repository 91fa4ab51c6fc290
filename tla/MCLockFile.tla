------------------------------ MODULE MCLockFile ------------------------------
(* Instances of LockFile: a process with two threads next to a process     *)
(* with one thread, over the ways in which pkg5 uses the class.            *)
EXTENDS LockFile, TLC

CONSTANTS p1, p2, t1, t2, t3

TwoThreadsInOne == (t1 :> p1) @@ (t2 :> p1) @@ (t3 :> p2)

(* Indexer and password files; depot server; pkgrepo and its status query; *)
(* image operations.                                                       *)
AllUses ==
    {[wrapper |-> "own", blocking |-> BOOLEAN,
      errnos |-> {"EACCES", "ENOSPC", "EINVAL"}],
     [wrapper |-> "rstore", blocking |-> {TRUE},
      errnos |-> {"EACCES", "ENOSPC"}],
     [wrapper |-> "rstore", blocking |-> BOOLEAN,
      errnos |-> {"EACCES", "EINVAL"}],
     [wrapper |-> "image", blocking |-> {TRUE},
      errnos |-> {"ENOENT", "EACCES", "ENOSPC"}]}
=============================================================================
