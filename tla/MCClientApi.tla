---------------------------- MODULE MCClientApi ----------------------------
(* Instances of ClientApi: a few threads of one program and one other      *)
(* process.                                                                *)
EXTENDS ClientApi
=============================================================================
