--------------------------- MODULE MCFilesystemDLQ ----------------------------
(***************************************************************************)
(* Three threads over two record_ids with two contents: two that race for  *)
(* a file, and a third that comes after one of them failed.                *)
(***************************************************************************)
EXTENDS FilesystemDLQ

CONSTANTS c1, c2, c3, i1, i2, x, y
=============================================================================
