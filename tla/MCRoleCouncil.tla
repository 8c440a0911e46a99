---------------------------- MODULE MCRoleCouncil ----------------------------
(* Instances of RoleCouncil for model checking. *)
EXTENDS RoleCouncil
=============================================================================
