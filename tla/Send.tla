--------------------------------- MODULE Send --------------------------------
(***************************************************************************)
(* `ocb conversation send` and its shorthand `ocb send`, src/src/main.rs:  *)
(* the thread is found or created, the message persisted, the agent asked, *)
(* the reply persisted, the reply reported.  An error at any of these ends *)
(* the command and leaves what it did so far.                              *)
(***************************************************************************)
EXTENDS ThreadLog

VARIABLES
  spc,      \* what the command does next
  sthread,  \* its thread
  sask,     \* its ask
  ok        \* history: <<thread, ask>> of the commands that reported a reply

send == <<spc, sthread, sask, ok>>

SendInit ==
  /\ spc = "idle"
  /\ sthread \in Thread
  /\ sask = 0
  /\ ok = {}

SendTypeOK ==
  /\ spc \in {"idle", "persist", "connect", "chat", "reply"}
  /\ sthread \in Thread
  /\ sask \in Nat
  /\ ok \subseteq Thread \X Nat

-----------------------------------------------------------------------------

\* The process ends.
Over == spc' = "idle" /\ sask' = 0

\* By id or prefix a thread of the index; by agent any of them, or a new one:
\* the threads of the agent that are not archived decide, and those are left
\* open here.
SendResolves(t) ==
  /\ spc = "idle"
  /\ index' = index \cup {t}
  /\ sthread' = t
  /\ spc' = "persist"
  /\ UNCHANGED <<file, run, sask, ok>>

SendPersists ==
  /\ spc = "persist"
  /\ Ask("none")
  /\ LET line == Said("cli", NextAsk) IN
     \/ Keep(sthread, line) /\ spc' = "connect" /\ sask' = NextAsk
     \/ KeepFails(sthread, line) /\ Over
  /\ UNCHANGED <<index, sthread, ok>>

\* The gateway takes the request; it may do so and the connection fail.
SendAsks ==
  /\ spc = "connect"
  /\ SetRun(sask, "running")
  /\ spc' = "chat"
  /\ UNCHANGED <<index, file, sthread, sask, ok>>

\* agent_chat and the disconnect both succeeded.
SendHears ==
  /\ spc = "chat" /\ run[sask] = "ended"
  /\ spc' = "reply"
  /\ UNCHANGED <<shared, sthread, sask, ok>>

\* No token, no connection, the timeout, or a disconnect that fails after the
\* reply came: an error, whatever becomes of the run.  So does a killed command.
SendFails ==
  /\ spc # "idle"
  /\ Over
  /\ UNCHANGED <<shared, sthread, ok>>

SendReplies ==
  /\ spc = "reply"
  /\ Over
  /\ \/ Keep(sthread, Reply(sask)) /\ ok' = ok \cup {<<sthread, sask>>}
     \/ KeepFails(sthread, Reply(sask)) /\ UNCHANGED ok
  /\ UNCHANGED <<index, run, sthread>>

SendStep ==
  \/ \E t \in Thread : SendResolves(t)
  \/ SendPersists \/ SendAsks \/ SendHears \/ SendFails \/ SendReplies

-----------------------------------------------------------------------------

\* A command that reported a reply has left its message in the thread, and
\* after it one line of that run: whoever else persisted it too, and whichever
\* of them did first; unless two appends to the thread came at the same time
\* and merged, for then neither line can be read, though both returned Ok
\* (main.rs:596-650, conversation.rs:232-268).
SentIsOnFile ==
  \A e \in {x \in ok : x[1] \notin spoiled} :
    LET l == log[e[1]] IN
    \E i, j \in DOMAIN l :
      /\ i < j /\ l[i] = Said("cli", e[2]) /\ OfRun(l[j], e[2])
      /\ \A k \in DOMAIN l : OfRun(l[k], e[2]) => k = j

\* What the command says it does: the reply it reported is in the thread
\* (main.rs:642 "Persist the assistant response").  It is not if the line of
\* that run is the first delta, kept by an MCP server.
ReplyOnFile == \A e \in ok : \E j \in DOMAIN log[e[1]] : log[e[1]][j] = Reply(e[2])

=============================================================================
