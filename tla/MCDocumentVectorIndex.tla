------------------------ MODULE MCDocumentVectorIndex -------------------------
(***************************************************************************)
(* Two callers over two chunks with three contents each, one of the wrong  *)
(* size: every pair of batches that overlap, agree, disagree or contradict *)
(* themselves.                                                             *)
(***************************************************************************)
EXTENDS DocumentVectorIndex

CONSTANTS c1, c2, p1, p2, x, y, long
=============================================================================
