------------------------ MODULE ThreadStoreRefinement ------------------------
(***************************************************************************)
(* Each thread of ThreadStore, read through the lines that are ended, is a *)
(* SharedLog, whatever the processes that share the directory do to it.    *)
(***************************************************************************)
EXTENDS ThreadStore, Selection

CommittedLog(t) == Picked(file[t], Committed(file[t]))

Log(t) == INSTANCE SharedLog WITH log <- CommittedLog(t)

\* The ended lines of every thread behave like an append-only list without
\* repeated runs (conversation.rs:235-273 with 500-530).
RefinesSharedLog ==
  /\ \A t \in Thread : Log(t)!Init
  /\ [][\A t \in Thread : Log(t)!Next \/ UNCHANGED CommittedLog(t)]_vars
=============================================================================
