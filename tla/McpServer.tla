------------------------------ MODULE McpServer ------------------------------
(***************************************************************************)
(* The select loop of the MCP server, src/src/mcp/mod.rs: `reply` calls    *)
(* from stdin, frames of the gateway, and changes of the thread's file,    *)
(* with the other processes that write to the same thread.                 *)
(*                                                                         *)
(* A `reply` call is named by the run the gateway gives it.  An append to  *)
(* the thread is one step, deduplicated by run.  It may fail before or     *)
(* after the line is written, a read may fail, and of two appends at the   *)
(* same time both may succeed and leave one line that no reader sees; each *)
(* of these counts as a failure of the store.  A branch of the select! is  *)
(* one step, except that the file branch empties its channel before it     *)
(* reads the file.                                                         *)
(***************************************************************************)
EXTENDS Gateway, Selection

CONSTANTS
  WatchCap,      \* capacity of the watcher's channel (32)
  MaxTui,        \* bound on the messages typed in the TUI (0: no other process)
  MaxFailures,   \* bound on the failures of the store
  SplitLines     \* a line of stdin may arrive in more than one read

ASSUME WatchAssumption == WatchCap \in Nat \ {0} /\ MaxTui \in Nat
ASSUME StoreAssumption == MaxFailures \in Nat
ASSUME StdinAssumption == SplitLines \in BOOLEAN

VARIABLES
  mode,      \* "start", "select", "poll" (in the file branch) or "stopped"
  linked,    \* the gateway was reached: run_select_loop, not run_without_ws
  watching,  \* the file watcher could be built
  asked,     \* the tools/call requests that came on stdin
  pending,   \* the PendingReply, or NoReply
  answers,   \* the responses written to stdout, oldest first
  log,       \* the thread
  lastSeen,  \* last_seen_count
  changed,   \* the file changed and the watcher thread has not told yet
  ticks,     \* events in the watcher's channel
  told,      \* notifications of TUI messages, by position in the log
  heard,     \* the pieces of unsolicited replies that were notified
  failures,  \* how many calls of the store failed, or merged their line
  passed     \* history: the TUI's positions the cursor went past without a look

linkVars == <<gatewayVars, linked, watching>>
serverVars == <<linked, watching, mode, asked, pending, answers, log, lastSeen, changed,
                ticks, told, heard, failures, passed>>
vars == <<wire, open, res, sent, ended, cumulative, noise, linked, watching, mode, asked,
          pending, answers, log, lastSeen, changed, ticks, told, heard, failures,
          passed>>

-----------------------------------------------------------------------------
(* Data.                                                                   *)

\* A text: the pieces of one run it holds.
Text == SUBSET (Run \X (1 .. ReplyLen))
PiecesUpto(r, k) == {r} \X (1 .. k)
Whole(r)         == PiecesUpto(r, ReplyLen)

Reply == [req : Own, run : Run \cup {NoRun}, deltas : Text, final : Text,
          accepted : BOOLEAN]
NoReply == [req |-> NoRun]

NewReply(q) == [req |-> q, run |-> NoRun, deltas |-> {}, final |-> {}, accepted |-> FALSE]

Line == [source : {"tui", "mcp", "ws", "none"}, run : Run \cup {NoRun}, text : Text]
UserLine(source)         == [source |-> source, run |-> NoRun, text |-> {}]
AgentLine(source, r, tx) == [source |-> source, run |-> r, text |-> tx]

Answer == [req : Own, text : Text,
           kind : {"immediate", "busy", "unsent", "refused", "closed",
                   "accepted", "completed", "end"}]
Says(q, kind, tx) == answers' = Append(answers, [req |-> q, text |-> tx, kind |-> kind])

Assembled(p) == IF p.final # {} THEN p.final ELSE p.deltas

TuiLines == {i \in DOMAIN log : log[i].source = "tui"}

\* append_message: a line of the same run stands for the new one.
Logged(r) == r # NoRun /\ \E i \in DOMAIN log : log[i].run = r

Write(line) ==
  IF Logged(line.run) THEN UNCHANGED <<log, changed>>
                      ELSE log' = Append(log, line) /\ changed' = watching

Fails == failures < MaxFailures /\ failures' = failures + 1

\* The error of an append may come before the line is written, or after it.
WriteFails(line) == Fails /\ (Write(line) \/ UNCHANGED <<log, changed>>)

Answered(q) == \E i \in DOMAIN answers : answers[i].req = q

\* The last line is another process's.
PeerLast == /\ log # <<>>
            /\ LET last == log[Len(log)] IN
                 last.source = "tui" \/ (last.source = "none" /\ ~Answered(last.run))

\* The line and its newline are two writes: those of another process come in
\* between, and neither line can be read then.  The other line is the last of
\* the thread, not yet ended, or one that was never read.
Merges(line) ==
  /\ ~Logged(line.run)
  /\ Fails /\ changed' = watching
  /\ UNCHANGED log \/ (PeerLast /\ log' = SubSeq(log, 1, Len(log) - 1))

\* The cursor is moved by one when the append succeeds: past the new line, if
\* that is the next one and was written; else past another line, without a look
\* whether it is of the TUI, or to a place that the next message will have.
Past == passed' = passed \cup
          ({lastSeen + 1} \ {i \in DOMAIN log' : log'[i].source # "tui"})

WriteOwn(line) ==
  \/ /\ (Write(line) /\ UNCHANGED failures) \/ Merges(line)
     /\ lastSeen' = lastSeen + 1 /\ Past
  \/ WriteFails(line) /\ UNCHANGED <<lastSeen, passed>>

Init ==
  /\ GatewayInit
  /\ mode = "start" /\ linked = FALSE /\ watching = FALSE
  /\ asked = {} /\ pending = NoReply /\ answers = <<>>
  /\ log = <<>> /\ lastSeen = 0 /\ changed = FALSE /\ ticks = 0
  /\ told = <<>> /\ heard = {} /\ failures = 0 /\ passed = {}

-----------------------------------------------------------------------------
(* The start: the MCP handshake, then the gateway or the loop without it.  *)

\* The watcher comes first, or not at all; then what is on file counts as seen,
\* unless it cannot be read.
Start ==
  /\ mode = "start"
  /\ mode' = "select" /\ linked' \in BOOLEAN /\ watching' \in BOOLEAN
  /\ \/ lastSeen' = Len(log) /\ passed' = TuiLines /\ UNCHANGED failures
     \/ Fails /\ UNCHANGED <<lastSeen, passed>>
  /\ UNCHANGED <<gatewayVars, asked, pending, answers, log, changed, ticks, told, heard>>

-----------------------------------------------------------------------------
(* Branch 1: a request from Claude Code.                                   *)

Read(q) ==
  /\ mode = "select" /\ q \notin asked
  /\ asked' = asked \cup {q}

\* read_line is not cancel safe: when another branch wins the select!, the
\* read_message in progress is dropped with the part of a line it took, and
\* the rest of that line is no JSON (and gets no response).
DropRead == \/ UNCHANGED asked
            \/ SplitLines /\ \E q \in Own \ asked : asked' = asked \cup {q}

\* channel_history, channel_status, a `reply` with no message or, without the
\* gateway, any `reply`.
AnswerAtOnce(q) ==
  /\ Read(q)
  /\ Says(q, "immediate", {})
  /\ UNCHANGED <<linkVars, mode, pending, log, lastSeen, changed, ticks, told, heard,
                 failures, passed>>

RejectReply(q) ==
  /\ Read(q) /\ pending # NoReply
  /\ Says(q, "busy", {})
  /\ UNCHANGED <<linkVars, mode, pending, log, lastSeen, changed, ticks, told, heard,
                 failures, passed>>

\* Mutated form of StartReply: a reply in flight is replaced.
StartReplyAnyway(q) ==
  /\ Read(q) /\ linked
  /\ WriteOwn(UserLine("mcp"))
  /\ IF open
       THEN /\ pending' = NewReply(q)
            /\ res' = [res EXCEPT ![q] = "asked"]
            /\ UNCHANGED answers
       ELSE Says(q, "unsent", {}) /\ UNCHANGED <<pending, res>>
  /\ UNCHANGED <<wire, open, sent, ended, cumulative, noise, linked, watching, mode,
                 ticks, told, heard>>

StartReply(q) ==
  /\ Read(q) /\ linked /\ pending = NoReply
  /\ WriteOwn(UserLine("mcp"))
  /\ IF open
       THEN /\ pending' = NewReply(q)
            /\ res' = [res EXCEPT ![q] = "asked"]
            /\ UNCHANGED answers
       ELSE Says(q, "unsent", {}) /\ UNCHANGED <<pending, res>>
  /\ UNCHANGED <<wire, open, sent, ended, cumulative, noise, linked, watching, mode,
                 ticks, told, heard>>

\* Also a handshake that fails.
StdinClosed ==
  /\ mode \in {"start", "select"}
  /\ mode' = "stopped"
  /\ UNCHANGED <<linkVars, asked, pending, answers, log, lastSeen, changed, ticks, told, heard,
                 failures, passed>>

-----------------------------------------------------------------------------
(* Branch 2: a frame of the gateway.                                       *)

Got == Head(wire)
GotLen  == IF Got.type = "delta" THEN Got.seq ELSE ReplyLen
GotText == IF Got.text THEN PiecesUpto(Got.run, GotLen) ELSE {}
Latest(old) == IF GotText # {} THEN GotText ELSE old

Take(type) ==
  /\ mode = "select"
  /\ wire # <<>> /\ Got.type = type
  /\ wire' = Tail(wire)
  /\ DropRead
  /\ UNCHANGED <<open, res, sent, ended, cumulative, noise, linked, watching, mode,
                 ticks, told>>

\* Mutated form of CompletePending: the pending reply is not taken.
CompletePendingKept(p, kind) ==
  /\ pending' = p
  /\ WriteOwn(AgentLine("none", p.run, Assembled(p)))
  /\ Says(p.req, kind, Assembled(p))

\* complete_pending_reply
CompletePending(p, kind) ==
  /\ pending' = NoReply
  /\ WriteOwn(AgentLine("none", p.run, Assembled(p)))
  /\ Says(p.req, kind, Assembled(p))

\* A reply that keeps waiting.
KeepPending(p) ==
  /\ pending' = p
  /\ UNCHANGED <<answers, log, lastSeen, changed, failures, passed>>

\* Mutated form of Matches: the run of the first event is adopted.
MatchesFirst == pending # NoReply /\ pending.run \in {NoRun, Got.run}

\* The event belongs to the pending reply.
Matches == pending # NoReply /\ pending.run # NoRun /\ pending.run = Got.run

\* The Res answers the pending request.
Answers == pending # NoReply /\ pending.req = Got.run

\* Mutated form of RecvDelta: a piece replaces those before it.
RecvDeltaReplaces ==
  /\ Take("delta") /\ Matches
  /\ KeepPending([pending EXCEPT !.deltas = {<<Got.run, Got.seq>>},
                                 !.final = Latest(@)])
  /\ UNCHANGED heard

RecvDelta ==
  /\ Take("delta") /\ Matches
  /\ KeepPending([pending EXCEPT !.deltas = @ \cup {<<Got.run, Got.seq>>},
                                 !.final = Latest(@)])
  /\ UNCHANGED heard

\* Mutated form of RecvEnd: without a final text the completion Res is awaited.
RecvEndNeedsText ==
  /\ Take("end") /\ Matches
  /\ LET p == [pending EXCEPT !.final = Latest(@)] IN
       IF p.final # {} THEN CompletePending(p, "end") ELSE KeepPending(p)
  /\ UNCHANGED heard

RecvEnd ==
  /\ Take("end") /\ Matches
  /\ CompletePending([pending EXCEPT !.final = Latest(@)], "end")
  /\ UNCHANGED heard

\* Mutated form of EmitDelta: the piece is not persisted.
EmitDeltaUnsaved ==
  /\ Take("delta") /\ ~Matches
  /\ heard' = heard \cup {<<Got.run, Got.seq>>}
  /\ UNCHANGED <<pending, answers, log, lastSeen, changed, failures, passed>>

\* emit_channel_notification
EmitDelta ==
  /\ Take("delta") /\ ~Matches
  /\ LET line == AgentLine("ws", Got.run, {<<Got.run, Got.seq>>}) IN
       (Write(line) /\ UNCHANGED failures) \/ Merges(line) \/ WriteFails(line)
  /\ heard' = heard \cup {<<Got.run, Got.seq>>}
  /\ UNCHANGED <<pending, answers, lastSeen, passed>>

RecvAccepted ==
  /\ Take("accepted") /\ Answers /\ ~pending.accepted
  /\ LET p == [pending EXCEPT !.run = Got.run, !.accepted = TRUE, !.final = Latest(@)] IN
       IF p.final # {} THEN CompletePending(p, "accepted") ELSE KeepPending(p)
  /\ UNCHANGED heard

RecvRefused ==
  /\ Take("refused") /\ Answers /\ ~pending.accepted
  /\ Says(pending.req, "refused", {})
  /\ pending' = NoReply
  /\ UNCHANGED <<log, lastSeen, changed, heard, failures, passed>>

RecvCompleted ==
  /\ Take("completed") /\ Answers /\ pending.accepted
  /\ LET p == [pending EXCEPT !.final = Latest(@)] IN
       IF p.final # {} THEN CompletePending(p, "completed") ELSE KeepPending(p)
  /\ UNCHANGED heard

\* A Res of an answered request, the end of an unsolicited run, a tick.
IgnoreFrame ==
  /\ \/ Take("completed") /\ ~Answers
     \/ Take("end") /\ ~Matches
     \/ Take("noise")
  /\ UNCHANGED <<pending, answers, log, lastSeen, changed, heard, failures, passed>>

RecvClosed ==
  /\ mode = "select" /\ linked /\ wire = <<>> /\ ~open
  /\ mode' = "stopped"
  /\ pending' = NoReply
  /\ IF pending # NoReply THEN Says(pending.req, "closed", {}) ELSE UNCHANGED answers
  /\ UNCHANGED <<linkVars, asked, log, lastSeen, changed, ticks, told, heard,
                 failures, passed>>

-----------------------------------------------------------------------------
(* Branch 3: the file changed.                                             *)

\* Mutated forms of WatcherTells: the channel has no bound; changes are ignored
\* while a reply is pending.
WatcherTellsAll ==
  /\ changed
  /\ changed' = FALSE
  /\ ticks' = ticks + 1
  /\ UNCHANGED <<linkVars, mode, asked, pending, answers, log, lastSeen, told, heard,
                 failures, passed>>

WatcherTellsIdle ==
  /\ changed
  /\ changed' = FALSE
  /\ ticks' = IF pending = NoReply /\ ticks < WatchCap THEN ticks + 1 ELSE ticks
  /\ UNCHANGED <<linkVars, mode, asked, pending, answers, log, lastSeen, told, heard,
                 failures, passed>>

\* The watcher's thread: try_send, and an event that does not fit is dropped.
WatcherTells ==
  /\ changed
  /\ changed' = FALSE
  /\ ticks' = IF ticks < WatchCap THEN ticks + 1 ELSE ticks
  /\ UNCHANGED <<linkVars, mode, asked, pending, answers, log, lastSeen, told, heard,
                 failures, passed>>

DrainTicks ==
  /\ mode = "select" /\ ticks > 0
  /\ mode' = "poll" /\ ticks' = 0
  /\ DropRead
  /\ UNCHANGED <<linkVars, pending, answers, log, lastSeen, changed, told, heard,
                 failures, passed>>

\* The new messages typed in the TUI, in the order of the thread.
NewTui == InOrder({i \in lastSeen + 1 .. Len(log) : log[i].source = "tui"})

\* Mutated form of PollThread: the cursor stays.
PollThreadStays ==
  /\ mode = "poll"
  /\ mode' = "select"
  /\ IF Len(log) > lastSeen THEN told' = told \o NewTui ELSE UNCHANGED told
  /\ UNCHANGED <<linkVars, asked, pending, answers, log, lastSeen, changed, ticks, heard,
                 failures, passed>>

\* poll_tui_messages; if the read fails, until the next event.
PollThread ==
  /\ mode = "poll"
  /\ mode' = "select"
  /\ \/ /\ Len(log) > lastSeen
        /\ told' = told \o NewTui /\ lastSeen' = Len(log)
        /\ UNCHANGED failures
     \/ Len(log) <= lastSeen /\ UNCHANGED <<told, lastSeen, failures>>
     \/ Fails /\ UNCHANGED <<told, lastSeen>>
  /\ UNCHANGED <<linkVars, asked, pending, answers, log, changed, ticks, heard, passed>>

-----------------------------------------------------------------------------
(* The other processes of the thread.                                      *)

TuiWrites ==
  /\ Cardinality(TuiLines) < MaxTui
  /\ Write(UserLine("tui"))
  /\ UNCHANGED <<linkVars, mode, asked, pending, answers, lastSeen, ticks, told, heard,
                 failures, passed>>

\* A TUI or CLI on the same thread persists the run whose end it saw.
PeerPersists(r) ==
  /\ MaxTui > 0
  /\ r \in ended /\ ~Logged(r)
  /\ Write(AgentLine("none", r, Whole(r)))
  /\ UNCHANGED <<linkVars, mode, asked, pending, answers, lastSeen, ticks, told, heard,
                 failures, passed>>

-----------------------------------------------------------------------------
HandleRequest == \E q \in Own : AnswerAtOnce(q) \/ RejectReply(q) \/ StartReply(q)

HandleFrame == \/ RecvDelta \/ RecvEnd \/ EmitDelta \/ RecvAccepted \/ RecvRefused
               \/ RecvCompleted \/ IgnoreFrame \/ RecvClosed

Peers == TuiWrites \/ \E r \in Run : PeerPersists(r)

Next == \/ Start \/ HandleRequest \/ StdinClosed \/ HandleFrame
        \/ WatcherTells \/ DrainTicks \/ PollThread \/ Peers
        \/ linked /\ GatewayNext /\ UNCHANGED serverVars

Spec == Init /\ [][Next]_vars

\* select! polls its branches in random order, so a ready one is not passed
\* over for ever; the watcher's thread runs; the gateway finishes what it was
\* asked.  Nothing forces a request, a peer, the drop or the end of stdin.
GatewayServes == \E r \in Own : Accept(r) \/ Refuse(r) \/ Emit(r) \/ End(r)

FairSpec == /\ Spec
            /\ WF_vars(HandleFrame) /\ WF_vars(DrainTicks) /\ WF_vars(PollThread)
            /\ WF_vars(WatcherTells)
            /\ WF_vars(GatewayServes /\ UNCHANGED serverVars)

-----------------------------------------------------------------------------
(* Properties.                                                             *)

TypeOK ==
  /\ wire \in Seq(Frame) /\ open \in BOOLEAN
  /\ res \in [Own -> {"none", "asked", "accepted", "refused", "completed"}]
  /\ sent \in [Run -> 0 .. ReplyLen] /\ ended \in SUBSET Run
  /\ cumulative \in BOOLEAN /\ noise \in Nat
  /\ mode \in {"start", "select", "poll", "stopped"}
  /\ linked \in BOOLEAN /\ watching \in BOOLEAN
  /\ asked \in SUBSET Own
  /\ pending \in Reply \cup {NoReply}
  /\ answers \in Seq(Answer)
  /\ log \in Seq(Line) /\ lastSeen \in Nat
  /\ changed \in BOOLEAN /\ ticks \in 0 .. WatchCap
  /\ told \in Seq(Nat) /\ heard \in SUBSET (Run \X (1 .. ReplyLen))
  /\ failures \in 0 .. MaxFailures /\ passed \in SUBSET Nat

\* A request gets one response, though its reply can end in a Res with text,
\* in the completion Res, in the lifecycle end or in the loss of the
\* connection, and each may come after another (mcp/mod.rs:711-866, 367-376).
AnsweredOnce ==
  \A i, j \in DOMAIN answers : answers[i].req = answers[j].req => i = j

\* No request is forgotten: one that came and was not answered is the pending
\* one, so a second `reply` must not take its place (mcp/mod.rs:606-620), and
\* read_message must "read one line from stdin", no part of one
\* (mcp/transport.rs:40, and the select! of mcp/mod.rs:239-344).
NoneForgotten ==
  mode # "stopped" => \A q \in asked : Answered(q) \/ pending.req = q

\* The text returned to Claude Code is of the run of its own request, with
\* foreign events before, between and after its own: "We only correlate by
\* run_id - never adopt blindly" (mcp/mod.rs:732-741).
AnswerIsOwn ==
  \A i \in DOMAIN answers : answers[i].text \subseteq Whole(answers[i].req)

\* A reply completed by the lifecycle end is whole, and no piece of it was
\* notified as an unsolicited message too (mcp/mod.rs:744-776).
EndAnswerWhole ==
  \A i \in DOMAIN answers : answers[i].kind = "end" =>
    /\ answers[i].text = Whole(answers[i].req)
    /\ heard \cap Whole(answers[i].req) = {}

\* A TUI message is notified to Claude Code at most once and in the order of
\* the thread, whatever the server itself wrote meanwhile (mcp/mod.rs:1003-1038).
TuiToldInOrder ==
  \A i, j \in DOMAIN told : i < j => told[i] < told[j]

\* A run a piece of which was notified has exactly one line in the transcript,
\* unless the store failed: the first piece, or what another process persisted
\* for the run.  The later pieces, which the server persists under the same
\* run_id, do not get in (mcp/mod.rs:931-940).
LinesOf(r) == {i \in DOMAIN log : log[i].run = r}
HeardRunLogged ==
  failures = 0 => \A piece \in heard : \E i \in DOMAIN log : LinesOf(piece[1]) = {i}

\* Every `reply` that is sent is answered in the end by a gateway that serves it
\* or drops the connection: no order of frames leaves it pending, though the
\* loop has no timeout (mcp/mod.rs:711-866).
ReplyAnswered ==
  \A q \in Own : pending.req = q ~> (Answered(q) \/ mode = "stopped")

\* Every message typed in the TUI is told in the end, unless there is no watcher
\* or the store failed: an event dropped from a full channel, one that comes
\* while the file is read or while a reply is pending, leaves none unread
\* (mcp/mod.rs:984-987, 385-397).  Excepted are those the cursor went past: the
\* lines before the start, and a message at the place that an append of the
\* server itself was taken to fill (mcp/mod.rs:641, 897).
TuiTold ==
  []<>(\/ \A i \in TuiLines : i \in passed \/ \E k \in DOMAIN told : told[k] = i
       \/ mode = "stopped" \/ ~watching \/ failures > 0)

=============================================================================
