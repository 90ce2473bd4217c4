---------------------------- MODULE MCServiceEdges ----------------------------
(***************************************************************************)
(* Three requests: two after each other in one task, the third beside      *)
(* them.  Three cache calls on one key in two spellings and a blank one;   *)
(* two values that encode and one that does not; a lifetime that is no     *)
(* whole number of milliseconds, and a clock that outlasts it.             *)
(***************************************************************************)
EXTENDS ServiceEdges, TLC

CONSTANTS r1, r2, r3, t1, t2, good, bad,
          plain, padded, blank, c1, c2, c3, v, w, u

MCRequests == {r1, r2, r3}
MCTask == [r \in MCRequests |-> IF r = r3 THEN t2 ELSE t1]
MCHeaders == {Nil, good, bad}
MCValid == {good}

MCCalls == {c1, c2, c3}
MCSpellings == {plain, padded, blank}
MCNormal == [s \in MCSpellings |-> IF s = blank THEN BlankKey ELSE plain]
MCSymmetry == Permutations(MCCalls) \cup Permutations({v, w}) \cup Permutations({r1, r2})
===============================================================================
