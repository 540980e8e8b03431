----------------------------- MODULE MCExecuter -----------------------------
(* Instances of Executer for TLC: executions, and another key of the store. *)
EXTENDS Executer, TLC

CONSTANTS x1, x2, k1

Writers == 0..MaxRuns
=============================================================================
