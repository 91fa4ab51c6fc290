----------------------------- MODULE MCDepotSearch -----------------------------
(* Up to one thread that searches, the background thread of the depot and  *)
(* a pkgrepo, over an index of a package or two that is built two or three *)
(* times.                                                                  *)
EXTENDS DepotSearch
=============================================================================
