------------------------ MODULE MCRiskAndBidHandoff ------------------------
(* Two workflows, two callers; f1 and f2 are equal objects, f3 is another.  *)
EXTENDS RiskAndBidHandoff

CONSTANTS f1, f2, f3

MCObjects == {f1, f2, f3}
MCContent == [f \in MCObjects |-> IF f = f3 THEN 2 ELSE 1]
=============================================================================
