------------------------------- MODULE MCBridge ------------------------------
(* Two threads, one of them watched.                                       *)
EXTENDS Bridge

CONSTANTS t1, t2

MCThread == {t1, t2}

=============================================================================
