---------------------------- MODULE MCRecordStore ----------------------------
(* Instances of RecordStore for model checking. *)
EXTENDS RecordStore, TLC

\* Records and contents are not interchangeable: Idle chooses one of each.
Symmetry == Permutations(Clients)
=============================================================================
