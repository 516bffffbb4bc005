--------------------------- MODULE MCApplications ---------------------------
(* Small instance: interchangeable writers racing on one application.       *)
EXTENDS Applications, TLC

WriterSymmetry == Permutations(Writers)
=============================================================================
