----------------------------- MODULE MCUploads -----------------------------
(* An instance of UploadBudget for TLC. *)
EXTENDS UploadBudget, TLC

Symmetry == Permutations(Uploads)
============================================================================
