-------------------------------- MODULE MCTui --------------------------------
(* Model values for TLC: a message of the operator and a foreign run, from *)
(* a gateway that sends pieces only.  With the text so far in each event   *)
(* (cumulative) the end of a run brings its whole text, so that nothing    *)
(* depends on what was accumulated; a text comes with a Res here as well.  *)
EXTENDS Tui

CONSTANTS ask1, other

MCOne == {ask1}
MCOneRuns == {ask1, other}

MCInit == Init /\ ~cumulative
MCSpec == MCInit /\ [][Next]_vars /\ Fairness
=============================================================================
