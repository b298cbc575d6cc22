-------------------------------- MODULE Watch --------------------------------
(***************************************************************************)
(* The watcher, src/src/watch.rs: a loop that polls one thread and runs    *)
(* `claude` when someone else wrote to it, and the task that waits for     *)
(* claude, passes its answer on to the agent and persists both.            *)
(*                                                                         *)
(* Loop and task share one thread of execution (cmd_watch builds a         *)
(* current_thread runtime): a poll comes between two steps of the task     *)
(* only where the task waits.  Other processes come between any two.       *)
(***************************************************************************)
EXTENDS ThreadLog

CONSTANT Watched   \* the thread

ASSUME WatchedAssumption == Watched \in Thread

VARIABLES
  on,        \* the watcher runs
  seen,      \* last_seen: the messages it has looked at
  inFlight,  \* in_flight
  cooling,   \* debounce_until is in the future
  task,      \* where the spawned task is
  wask,      \* the ask it makes of the agent
  blind,     \* history: the read that should have set seen failed
  answered   \* history: its asks whose replies it has seen to

watch == <<on, seen, inFlight, cooling, task, wask, blind, answered>>

Messages == log[Watched]

\* Where the task gives the thread of execution back.
Waiting == {"none", "claude", "connect", "chat", "close"}

WatchInit ==
  /\ on = FALSE /\ seen = 0 /\ inFlight = FALSE /\ cooling = FALSE
  /\ task = "none" /\ wask = 0
  /\ blind = FALSE /\ answered = {}

WatchTypeOK ==
  /\ on \in BOOLEAN /\ inFlight \in BOOLEAN /\ cooling \in BOOLEAN /\ blind \in BOOLEAN
  /\ seen \in Nat /\ (Watched \notin spoiled => seen <= Len(Messages))
  /\ task \in Waiting \cup {"answer", "absorb"}
  /\ wask \in Nat /\ answered \subseteq Nat
  /\ inFlight <=> task # "none"

-----------------------------------------------------------------------------
(* The loop.                                                               *)

\* Messages that are there already do not trigger, unless reading them fails.
Start ==
  /\ ~on /\ on' = TRUE
  /\ \/ Watched \in index /\ seen' = Len(Messages) /\ blind' = FALSE
     \/ seen' = 0 /\ blind' = TRUE
  /\ UNCHANGED <<shared, inFlight, cooling, task, wask, answered>>

\* Mutant: only the last of the new messages is looked at.
ForeignLast == IF seen < Len(Messages) /\ Messages[Len(Messages)].who # "cli"
                 THEN {Len(Messages)} ELSE {}

\* The new messages that are not Claude Code's own.
Foreign == {i \in seen + 1 .. Len(Messages) : Messages[i].who # "cli"}

\* One turn of the loop that finds new messages.  They count as seen even if
\* the cooldown, or a run in flight, keeps them from triggering.
Poll ==
  /\ on /\ task \in Waiting /\ Watched \in index /\ seen < Len(Messages)
  /\ seen' = Len(Messages) /\ blind' = FALSE
  /\ IF Foreign # {} /\ ~cooling /\ ~inFlight
       THEN inFlight' = TRUE /\ task' = "claude"
       ELSE UNCHANGED <<inFlight, task>>
  /\ UNCHANGED <<shared, on, cooling, wask, answered>>

CoolDown ==
  /\ on /\ cooling /\ cooling' = FALSE
  /\ UNCHANGED <<shared, on, seen, inFlight, task, wask, blind, answered>>

\* Interrupted, or killed.
Stop ==
  /\ on /\ on' = FALSE
  /\ inFlight' = FALSE /\ cooling' = FALSE /\ task' = "none" /\ wask' = 0
  /\ UNCHANGED <<shared, seen, blind, answered>>

-----------------------------------------------------------------------------
(* The task.                                                               *)

\* Mutant: an error of claude ends the task at once.
ClaudeEndsSilently ==
  /\ task = "claude" /\ task' = "none"
  /\ UNCHANGED <<shared, on, seen, inFlight, cooling, wask, blind, answered>>

\* claude passes, fails to start, exits with an error, or takes too long.
ClaudeEnds ==
  /\ task = "claude" /\ task' = "absorb"
  /\ UNCHANGED <<shared, on, seen, inFlight, cooling, wask, blind, answered>>

\* claude has something to say: it is persisted, an error ignored.
ClaudeSays ==
  /\ task = "claude" /\ task' = "connect"
  /\ Ask("none") /\ wask' = NextAsk
  /\ KeepFails(Watched, Said("cli", NextAsk))
  /\ UNCHANGED <<index, on, seen, inFlight, cooling, blind, answered>>

WatchAsks ==
  /\ task = "connect" /\ task' = "chat"
  /\ SetRun(wask, "running")
  /\ UNCHANGED <<index, file, on, seen, inFlight, cooling, wask, blind, answered>>

WatchHears ==
  /\ task = "chat" /\ run[wask] = "ended" /\ task' = "close"
  /\ UNCHANGED <<shared, on, seen, inFlight, cooling, wask, blind, answered>>

\* The reply counts once the connection is closed.
WatchCloses ==
  /\ task = "close" /\ task' = "answer"
  /\ UNCHANGED <<shared, on, seen, inFlight, cooling, wask, blind, answered>>

\* No connection, or one that fails as it is closed.
WatchLinkFails ==
  /\ task \in {"connect", "close"} /\ task' = "absorb"
  /\ UNCHANGED <<shared, on, seen, inFlight, cooling, wask, blind, answered>>

\* An error of agent_chat, or its timeout.
WatchChatFails ==
  /\ task = "chat" /\ task' = "absorb"
  /\ UNCHANGED <<shared, on, seen, inFlight, cooling, wask, blind, answered>>

\* The reply is persisted, an error ignored.
Answer ==
  /\ task = "answer" /\ task' = "absorb"
  /\ KeepFails(Watched, Reply(wask))
  /\ answered' = IF HasReply(log'[Watched], wask) THEN answered \cup {wask} ELSE answered
  /\ UNCHANGED <<index, run, on, seen, inFlight, cooling, wask, blind>>

\* Mutant: the thread is not read again.
AbsorbNothing ==
  /\ task = "absorb" /\ task' = "none"
  /\ inFlight' = FALSE /\ cooling' = TRUE /\ wask' = 0
  /\ UNCHANGED <<shared, on, seen, blind, answered>>

\* Everything written by now counts as seen; then the flag, then the cooldown.
Absorb ==
  /\ task = "absorb" /\ task' = "none"
  /\ \/ Watched \in index /\ seen' = Len(Messages) /\ blind' = FALSE
     \/ UNCHANGED seen /\ blind' = TRUE
  /\ inFlight' = FALSE /\ cooling' = TRUE /\ wask' = 0
  /\ UNCHANGED <<shared, on, answered>>

WatchStep ==
  \/ Start \/ Poll \/ CoolDown \/ Stop
  \/ ClaudeEnds \/ ClaudeSays \/ WatchAsks \/ WatchHears \/ WatchCloses
  \/ WatchLinkFails \/ WatchChatFails \/ Answer \/ Absorb

-----------------------------------------------------------------------------
(* Properties.                                                             *)

Triggers == ~inFlight /\ inFlight'

\* A reply the watcher itself asked for and saw to does not run claude again,
\* whoever persisted it and when: otherwise claude and the agent would go on
\* answering each other (watch.rs:232-239).  A failed read excuses it, and so
\* does a merged line: a reply that was lost this way may be persisted again.
NoEcho ==
  [][Triggers /\ ~blind /\ Watched \notin spoiled =>
       \A i \in seen + 1 .. Len(Messages) : \A a \in answered : ~OfRun(Messages[i], a)]_watch

\* Messages of someone else that the watcher has not looked at while it is
\* neither running claude nor cooling down make it run claude, whatever is
\* written after them (watch.rs:99-150).  Merged lines excuse it: a count that
\* has gone down hides the next line.
Quiet == on /\ ~inFlight /\ ~cooling
QuietTriggers == Quiet /\ Foreign # {} ~> (inFlight \/ ~on \/ Watched \in spoiled)

\* A run of claude, however it ends, frees the watcher for the next, unless it
\* waits for the gateway for good where nothing limits the wait: for an answer
\* to the upgrade, or to get the close frame out (watch.rs:160-265, ws.rs:167).
RunEnds == <>[](task \in {"connect", "close"}) \/ (inFlight ~> ~inFlight)

=============================================================================
