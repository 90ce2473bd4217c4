--------------------------- MODULE MCPhaseExecutor ----------------------------
(***************************************************************************)
(* Three branches: one that fails, one that is still queued when the group *)
(* aborts and one that ends in between.  Forecasting has two branches and  *)
(* ingestion five; the group treats all of them alike.                     *)
(***************************************************************************)
EXTENDS PhaseExecutor

CONSTANTS b1, b2, b3

MCBranches == {b1, b2, b3}
=============================================================================
