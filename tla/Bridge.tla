-------------------------------- MODULE Bridge -------------------------------
(***************************************************************************)
(* The commands and the watcher at work on the same threads, beside the    *)
(* viewers that persist whatever the gateway broadcasts.                   *)
(***************************************************************************)
EXTENDS Send, Watch

vars == <<shared, send, watch>>

Init == LogInit /\ SendInit /\ WatchInit

Sending  == SendStep /\ UNCHANGED watch
Watching(A) == A /\ UNCHANGED send

Next ==
  \/ Others /\ UNCHANGED <<send, watch>>
  \/ Sending
  \/ Watching(WatchStep)

\* The watcher polls once a second, its cooldown and claude's timeout are
\* timers, agent_chat has a timeout, and answering and absorbing only read and
\* write files.  Connecting and closing have no limit (connect_async comes
\* before HANDSHAKE_TIMEOUT, ws.rs:167-176; watch.rs:202, 206), and no fairness.
Fairness ==
  /\ WF_vars(Watching(Poll))
  /\ WF_vars(Watching(CoolDown))
  /\ WF_vars(Watching(ClaudeEnds))
  /\ WF_vars(Watching(WatchChatFails))
  /\ WF_vars(Watching(Answer))
  /\ WF_vars(Watching(Absorb))

Spec == Init /\ [][Next]_vars /\ Fairness

TypeOK == LogTypeOK /\ SendTypeOK /\ WatchTypeOK

=============================================================================
