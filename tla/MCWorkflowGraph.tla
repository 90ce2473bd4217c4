--------------------------- MODULE MCWorkflowGraph ----------------------------
(***************************************************************************)
(* Three invocations: one that ingests and two that forecast from the      *)
(* snapshot it returned, or all three at once.  Both agents of Phase 3 are *)
(* there: one failure, two failures and all-success are the cases that the *)
(* handlers tell apart, and a failure has an ApplicationError for its cause*)
(* or another exception.  The caller starts from the contract and the      *)
(* ingestion snapshot; snapshots that the entry refuses are those that     *)
(* earlier invocations returned, failed or at the end of Phase 3.          *)
(***************************************************************************)
EXTENDS WorkflowGraph

CONSTANTS w1, i1, i2, i3, a1, f1, f2, r1, r2

MCInitialSnapshots ==
  {Running("contract"), Running("ingestion")}
=============================================================================
