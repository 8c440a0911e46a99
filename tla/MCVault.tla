------------------------------ MODULE MCVault ------------------------------
(* Instances of Vault for model checking. *)
EXTENDS Vault
=============================================================================
