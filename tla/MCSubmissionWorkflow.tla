------------------------ MODULE MCSubmissionWorkflow ------------------------
(* Small instance: three requests racing on one approval (two for the        *)
(* temporal run), one other writer of the application, one retry.            *)
EXTENDS SubmissionWorkflow, TLC

RequestSymmetry == Permutations(Requests)
=============================================================================
