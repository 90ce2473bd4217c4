------------------------ MODULE MCConsumptionRepository -----------------------
(***************************************************************************)
(* Three calls, one more than the pool has connections, over two           *)
(* identities: batches that overlap, agree, disagree or contradict         *)
(* themselves, and deadlock when inserted in opposite orders.              *)
(***************************************************************************)
EXTENDS ConsumptionRepository

CONSTANTS c1, c2, c3, k1, k2, x, y

Record(k, v) == [key |-> k, value |-> v]
MCBatches ==
  {{Record(k1, x)}, {Record(k2, y)}, {Record(k1, x), Record(k2, x)},
   {Record(k1, y), Record(k2, x)}, {Record(k1, x), Record(k1, y)}}
=============================================================================
