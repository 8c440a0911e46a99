---------------------------- MODULE MCIndexClient ----------------------------
(* Instances of IndexClient for model checking. *)
EXTENDS IndexClient
=============================================================================
