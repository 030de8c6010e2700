---------------------------- MODULE MCWorkflows ----------------------------
(* WorkflowRouter, with requests that may be exchanged for one another.     *)
EXTENDS WorkflowRouter, TLC

AnyCall == Permutations(Call)
=============================================================================
