---------------------------- MODULE MCLocalModels ----------------------------
(* Instances of LocalModels for model checking. *)
EXTENDS LocalModels
=============================================================================
