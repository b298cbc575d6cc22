---------------------------- MODULE MCThreadStore ----------------------------
(* Small instances of ThreadStore: m1 and m2 are the same assistant reply,  *)
(* persisted by two processes; m3 is a user message, without a run_id.      *)
EXTENDS ThreadStoreRefinement, TLC
CONSTANTS p1, p2, t1, t2, m1, m2, m3, r1

MCRunOf == [m \in Msg |-> IF m = m3 THEN NoRun ELSE r1]
MCSymmetry == Permutations(Proc) \cup Permutations(Thread) \cup Permutations({m1, m2})
=============================================================================
