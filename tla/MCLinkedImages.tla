---------------------------- MODULE MCLinkedImages ----------------------------
(* Three children of which two may run at once.                            *)
EXTENDS LinkedImages

CONSTANTS c1, c2, c3
=============================================================================
