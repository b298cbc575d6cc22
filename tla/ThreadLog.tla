------------------------------ MODULE ThreadLog ------------------------------
(***************************************************************************)
(* What the commands, the watcher and the viewers of a conversation share: *)
(* the threads on file, and the runs of the gateway they ask for.          *)
(*                                                                         *)
(* An append is one step here, deduplicated by run within a thread, where  *)
(* ThreadStore has one per call.  What can go wrong between those calls is *)
(* kept: an append may fail before or after the line is written, a read    *)
(* may fail (the index may not parse, or may have lost the thread), and of *)
(* two appends at the same time both may succeed and leave one line that   *)
(* cannot be read.  ThreadStoreRefinement shows that the lines which can   *)
(* be read and are ended only grow, no run twice; it does not show that an *)
(* append which succeeded is among them.                                   *)
(*                                                                         *)
(* An ask is a message meant for the agent, numbered; the run it starts,   *)
(* if it reaches the gateway, has its number, and so has the reply.        *)
(***************************************************************************)
EXTENDS Naturals, Sequences

CONSTANTS
  Thread,   \* thread ids
  Viewed,   \* those that a TUI or an MCP server has open
  MaxAsks   \* bound on the asks

ASSUME ViewedAssumption == Viewed \subseteq Thread
ASSUME AsksAssumption   == MaxAsks \in Nat

VARIABLES
  index,    \* the threads created
  log,      \* the messages of each, as read_thread returns them
  spoiled,  \* history: the threads in which two appends merged
  run       \* the run of each ask

file   == <<log, spoiled>>
shared == <<index, file, run>>

-----------------------------------------------------------------------------

\* source: "tui", "cli", none for a reply of the agent ("agent"), and "ws" for
\* the piece of one that the MCP server keeps.
ByAgent == {"agent", "ws"}
Who     == {"tui", "cli"} \cup ByAgent
Line    == [who : Who, ask : Nat]
Said(who, a) == [who |-> who, ask |-> a]
Reply(a)     == Said("agent", a)
Piece(a)     == Said("ws", a)
OfRun(line, a) == line.who \in ByAgent /\ line.ask = a

RunState == {"none", "running", "ended"}

HasReply(l, a) == \E i \in DOMAIN l : OfRun(l[i], a)

\* Mutant: a reply is appended whether or not its run is on file.
AddedAgain(l, line) == Append(l, line)

\* append_message: a line whose run is there already is not written again.
OnFile(l, line) == line.who \in ByAgent /\ HasReply(l, line.ask)
Added(l, line)  == IF OnFile(l, line) THEN l ELSE Append(l, line)

\* The line and its newline are two writes: those of another append may come
\* in between, and neither line can be read then.  The other line is the last
\* of the thread, or one that was never readable.  Of a spoiled thread nothing
\* is claimed, so that once is enough: the bound on this.
Merges(t, line) ==
  /\ t \notin spoiled /\ ~OnFile(log[t], line)
  /\ spoiled' = spoiled \cup {t}
  /\ \E n \in 0 .. Len(log[t]) : /\ n + 1 >= Len(log[t])
                                /\ log' = [log EXCEPT ![t] = SubSeq(@, 1, n)]

Keep(t, line) ==
  /\ t \in index
  /\ \/ log' = [log EXCEPT ![t] = Added(@, line)] /\ UNCHANGED spoiled
     \/ Merges(t, line)

\* It may fail before the line is written, or after it: the index is
\* rewritten last.
KeepFails(t, line) == UNCHANGED file \/ Keep(t, line)

NextAsk  == Len(run) + 1
MayAsk   == Len(run) < MaxAsks
Ask(st)  == MayAsk /\ run' = Append(run, st)
SetRun(a, st) == run' = [run EXCEPT ![a] = st]

LogInit ==
  /\ index = {}
  /\ log = [t \in Thread |-> <<>>]
  /\ spoiled = {}
  /\ run = <<>>

LogTypeOK ==
  /\ index \subseteq Thread
  /\ log \in [Thread -> Seq(Line)]
  /\ spoiled \subseteq index
  /\ run \in Seq(RunState)

-----------------------------------------------------------------------------
(* The others: `conversation new`, the TUI and the MCP server, and the     *)
(* gateway, which carries a run on whether or not anyone still waits.      *)

NewThread(t) ==
  /\ t \notin index
  /\ index' = index \cup {t}
  /\ UNCHANGED <<file, run>>

\* The TUI displays and persists a message, ignoring an error, and sends it.
TuiSends(t) ==
  /\ t \in index
  /\ Ask("running")
  /\ KeepFails(t, Said("tui", NextAsk))
  /\ UNCHANGED index

Ends(a) ==
  /\ a \in DOMAIN run /\ run[a] = "running"
  /\ SetRun(a, "ended")
  /\ UNCHANGED <<index, file>>

\* A TUI with thread t open persists the reply in t when the gateway broadcasts
\* the end of a run, whatever session the run is of.
Hears(a, t) ==
  /\ a \in DOMAIN run /\ run[a] = "ended"
  /\ Keep(t, Reply(a))
  /\ UNCHANGED <<index, run>>

\* An MCP server with thread t open persists a delta of a run that is not its
\* own as soon as it comes; of one run, the first that is not on file yet.
Overhears(a, t) ==
  /\ a \in DOMAIN run /\ run[a] = "running"
  /\ Keep(t, Piece(a))
  /\ UNCHANGED <<index, run>>

Others ==
  \/ \E t \in Thread : NewThread(t)
  \/ \E t \in Viewed : TuiSends(t)
  \/ \E a \in 1 .. MaxAsks : Ends(a)
  \/ \E a \in 1 .. MaxAsks, t \in Viewed : Hears(a, t) \/ Overhears(a, t)

=============================================================================
