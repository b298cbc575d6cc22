--------------------------------- MODULE Tui ---------------------------------
(***************************************************************************)
(* The conversation viewer, src/src/tui: the event loop of mod.rs, the     *)
(* WebSocket task of ws_task.rs, the two channels between them, and the    *)
(* thread they share with the other processes.                             *)
(*                                                                         *)
(* Both run on one thread (main.rs:1006), so the task moves only while the *)
(* loop sleeps, and a turn of the loop is: the events, the sleep, the      *)
(* keys, the file.  Other processes write to the thread at any time.       *)
(*                                                                         *)
(* An operator's message is named by the run that replies to it.  Scroll   *)
(* and cursor keys, system messages, the status bar and the drawing are    *)
(* left out.  The viewer has a thread; what was on file when it loaded the *)
(* history is left out too.  A line is on file from the moment it is ended *)
(* and can be read.                                                        *)
(***************************************************************************)
EXTENDS Gateway, Selection

CONSTANTS
  EventCap,      \* capacity of the channel of WsEvents (256)
  QueueCap,      \* capacity of the channel of outgoing messages (64)
  MaxTrouble     \* bound on the lines other processes write, the errors of
                 \* append_message and read_thread, and the lines that are merged

ASSUME ChannelAssumption == EventCap \in Nat \ {0} /\ QueueCap \in Nat \ {0}
ASSUME TroubleAssumption == MaxTrouble \in Nat

VARIABLES
  mode,       \* where the loop is: "start", "events", "sleep", "keys", "file", "quit"
  watching,   \* using_watcher
  status,     \* app.status: "connecting", "connected", "down"
  task,       \* the WebSocket task: "connecting", "running", "exited"
  events,     \* WsEvents from the task to the loop
  queue,      \* messages from the loop to the task
  typed,      \* the messages the operator entered
  shown,      \* app.messages
  stream,     \* the run of the accumulator, and its pieces (delta_map's too)
  log,        \* the thread
  loaded,     \* app.last_loaded_count
  changed,    \* a notification of the file watcher is pending
  trouble     \* history: lines other processes wrote or merged with an own one, and
              \* appends or reads that failed

loopVars == <<mode, watching, status, queue, typed, shown, stream, loaded>>
fileVars == <<log, changed, trouble>>
tuiVars  == <<mode, watching, status, task, events, queue, typed, shown, stream, log,
              loaded, changed, trouble>>
vars == <<wire, open, res, sent, ended, cumulative, noise, mode, watching, status, task,
          events, queue, typed, shown, stream, log, loaded, changed, trouble>>

-----------------------------------------------------------------------------
(* Data.                                                                   *)

Piece    == Run \X (1 .. ReplyLen)
Whole(r) == [k \in 1 .. ReplyLen |-> <<r, k>>]

\* A message of the thread, and of the display: who made the line is history
\* ("peer": another process, of a run).
Line == [who : {"operator", "user", "agent", "peer"}, ask : Own \cup {NoRun},
         run : Run \cup {NoRun}, text : Seq(Piece)]
OperatorLine(q)  == [who |-> "operator", ask |-> q, run |-> NoRun, text |-> <<>>]
UserLine         == [who |-> "user", ask |-> NoRun, run |-> NoRun, text |-> <<>>]
AgentLine(r, tx) == [who |-> "agent", ask |-> NoRun, run |-> r, text |-> tx]
PeerLine(r, tx)  == [who |-> "peer", ask |-> NoRun, run |-> r, text |-> tx]

\* text: the event carries the final text.
Event == [kind : {"connected", "down", "delta", "done"}, run : Run \cup {NoRun},
          seq : Nat, text : BOOLEAN]
StatusEvent(kind)  == [kind |-> kind, run |-> NoRun, seq |-> 0, text |-> FALSE]
DeltaEvent(r, k)   == [kind |-> "delta", run |-> r, seq |-> k, text |-> FALSE]
DoneEvent(r, text) == [kind |-> "done", run |-> r, seq |-> 0, text |-> text]

NoStream == [run |-> NoRun, pieces |-> <<>>]

Among(lines, r) == \E i \in DOMAIN lines : lines[i].run = r

\* append_message: a line of the same run stands for the new one.
Write(line) ==
  IF line.run # NoRun /\ Among(log, line.run)
    THEN UNCHANGED <<log, changed>>
    ELSE log' = Append(log, line) /\ changed' = watching

\* The append returns Ok, but another process writes a line at the same time
\* and the two merge into one that nobody can read.
Merged == UNCHANGED log /\ changed' = watching

\* The cursor is moved past the own line; the error of an append may come
\* before the line is written or after it.
WriteOwn(line) ==
  \/ Write(line) /\ loaded' = loaded + 1 /\ UNCHANGED trouble
  \/ /\ trouble < MaxTrouble /\ trouble' = trouble + 1
     /\ \/ (Write(line) \/ UNCHANGED <<log, changed>>) /\ UNCHANGED loaded
        \/ Merged /\ loaded' = loaded + 1

Init ==
  /\ GatewayInit
  /\ mode = "start" /\ watching = FALSE
  /\ status = "connecting" /\ task = "connecting"
  /\ events = <<>> /\ queue = <<>> /\ typed = {}
  /\ shown = <<>> /\ stream = NoStream
  /\ log = <<>> /\ loaded = 0 /\ changed = FALSE
  /\ trouble = 0

-----------------------------------------------------------------------------
(* The WebSocket task.  A full channel makes it wait with its event, so    *)
(* that the frame counts as not taken until there is room.                 *)

TaskMoves == mode = "sleep" /\ UNCHANGED <<loopVars, fileVars>>

\* Mutated form of Tell: the channel has no limit.
TellUnbounded(e) == events' = Append(events, e)

Tell(e) == Len(events) < EventCap /\ events' = Append(events, e)

Connect ==
  /\ mode = "sleep" /\ task = "connecting"
  /\ \/ task' = "running" /\ Tell(StatusEvent("connected"))
     \/ task' = "exited"  /\ Tell(StatusEvent("down"))
  /\ UNCHANGED <<gatewayVars, loopVars, fileVars>>

Got == Head(wire)

Take(type) ==
  /\ TaskMoves /\ task = "running"
  /\ wire # <<>> /\ Got.type = type
  /\ wire' = Tail(wire)
  /\ UNCHANGED <<open, res, sent, ended, cumulative, noise, task>>

RecvDelta == Take("delta") /\ Tell(DeltaEvent(Got.run, Got.seq))

RecvEnd == Take("end") /\ Tell(DoneEvent(Got.run, Got.text))

\* Mutated form of RecvRes: a Res without a text completes the turn as well.
RecvResAlways ==
  /\ Take("accepted") \/ Take("completed")
  /\ Tell(DoneEvent(Got.run, Got.text))

\* Either Res: what counts is its text.
RecvRes ==
  /\ Take("accepted") \/ Take("completed")
  /\ IF Got.text THEN Tell(DoneEvent(Got.run, TRUE)) ELSE UNCHANGED events

IgnoreFrame == (Take("refused") \/ Take("noise")) /\ UNCHANGED events

RecvClosed ==
  /\ TaskMoves /\ task = "running" /\ wire = <<>> /\ ~open
  /\ Tell(StatusEvent("down")) /\ task' = "exited"
  /\ UNCHANGED gatewayVars

\* Mutated form of SendQueued: a message waits until no run is streaming.
SendQueuedIdle ==
  /\ mode = "sleep" /\ task = "running" /\ queue # <<>> /\ stream = NoStream
  /\ queue' = Tail(queue)
  /\ IF open
       THEN res' = [res EXCEPT ![Head(queue)] = "asked"] /\ UNCHANGED <<events, task>>
       ELSE Tell(StatusEvent("down")) /\ task' = "exited" /\ UNCHANGED res
  /\ UNCHANGED <<wire, open, sent, ended, cumulative, noise, mode, watching, status, typed,
                 shown, stream, loaded, fileVars>>

SendQueued ==
  /\ mode = "sleep" /\ task = "running" /\ queue # <<>>
  /\ queue' = Tail(queue)
  /\ IF open
       THEN res' = [res EXCEPT ![Head(queue)] = "asked"] /\ UNCHANGED <<events, task>>
       ELSE Tell(StatusEvent("down")) /\ task' = "exited" /\ UNCHANGED res
  /\ UNCHANGED <<wire, open, sent, ended, cumulative, noise, mode, watching, status, typed,
                 shown, stream, loaded, fileVars>>

-----------------------------------------------------------------------------
(* The loop: handle_ws_event.                                              *)

\* The history is loaded, then the file is watched, if it can be: what others
\* write in between is told to no one.
Begin ==
  /\ mode = "start" /\ mode' = "events"
  /\ watching' \in BOOLEAN
  /\ UNCHANGED <<gatewayVars, status, task, events, queue, typed, shown, stream, loaded,
                 fileVars>>

Handle(kind) ==
  /\ mode = "events" /\ events # <<>> /\ Head(events).kind = kind
  /\ events' = Tail(events)
  /\ UNCHANGED <<gatewayVars, mode, watching, task, queue, typed>>

HandleStatus ==
  /\ \/ Handle("connected") /\ status' = "connected"
     \/ Handle("down") /\ status' = "down"
  /\ UNCHANGED <<shown, stream, log, loaded, changed, trouble>>

\* The first piece of another run clears what was accumulated.
HandleDelta ==
  /\ Handle("delta")
  /\ LET e == Head(events)
         kept == IF stream.run = e.run THEN stream.pieces ELSE <<>> IN
       stream' = [run |-> e.run, pieces |-> Append(kept, <<e.run, e.seq>>)]
  /\ UNCHANGED <<status, shown, log, loaded, changed, trouble>>

TurnText(e) == IF e.text THEN Whole(e.run) ELSE stream.pieces

\* Mutated form of HandleDone: only the run that is streaming can be complete.
HandleDoneStreamed ==
  /\ Handle("done")
  /\ stream' = NoStream
  /\ LET e == Head(events) IN
       IF Among(shown, e.run) \/ stream.run # e.run
         THEN UNCHANGED <<shown, log, loaded, changed, trouble>>
         ELSE /\ shown' = Append(shown, AgentLine(e.run, TurnText(e)))
              /\ WriteOwn(AgentLine(e.run, TurnText(e)))
  /\ UNCHANGED status

\* TurnComplete: of a run that is already displayed, only the stream is reset.
HandleDone ==
  /\ Handle("done")
  /\ stream' = NoStream
  /\ LET e == Head(events) IN
       IF Among(shown, e.run)
         THEN UNCHANGED <<shown, log, loaded, changed, trouble>>
         ELSE /\ shown' = Append(shown, AgentLine(e.run, TurnText(e)))
              /\ WriteOwn(AgentLine(e.run, TurnText(e)))
  /\ UNCHANGED status

-----------------------------------------------------------------------------
(* The loop: keys and file.                                                *)

Goto(from, to) ==
  /\ mode = from /\ mode' = to
  /\ UNCHANGED <<gatewayVars, watching, status, task, events, queue, typed, shown, stream,
                 loaded, fileVars>>

EventsDone == events = <<>> /\ Goto("events", "sleep")
WakeUp     == Goto("sleep", "keys")
KeysDone   == Goto("keys", "file")
FileDone   == ~changed /\ Goto("file", "events")
Quit       == Goto("keys", "quit")

\* Mutated form of EnterMessage: the own line is not counted.
EnterMessageUncounted(q) ==
  /\ mode = "keys" /\ status = "connected" /\ q \notin typed
  /\ typed' = typed \cup {q}
  /\ shown' = Append(shown, OperatorLine(q))
  /\ Write(OperatorLine(q)) /\ UNCHANGED <<loaded, trouble>>
  /\ IF task # "exited" /\ Len(queue) < QueueCap
       THEN queue' = Append(queue, q) ELSE UNCHANGED queue
  /\ UNCHANGED <<gatewayVars, mode, watching, status, task, events, stream>>

\* The Enter key; try_send drops a message the channel has no room for, or
\* that nobody receives any more.
EnterMessage(q) ==
  /\ mode = "keys" /\ status = "connected" /\ q \notin typed
  /\ typed' = typed \cup {q}
  /\ shown' = Append(shown, OperatorLine(q))
  /\ WriteOwn(OperatorLine(q))
  /\ IF task # "exited" /\ Len(queue) < QueueCap
       THEN queue' = Append(queue, q) ELSE UNCHANGED queue
  /\ UNCHANGED <<gatewayVars, mode, watching, status, task, events, stream>>

\* Mutated form of NewLines: a reply that is displayed already is taken again.
NewLinesAll == SubSeq(log, loaded + 1, Len(log))
NewLines == Picked(log, {i \in loaded + 1 .. Len(log) :
                          log[i].run = NoRun \/ ~Among(shown, log[i].run)})

\* poll_thread_file
Reload ==
  \/ /\ Len(log) > loaded
     /\ shown' = shown \o NewLines /\ loaded' = Len(log)
     /\ UNCHANGED trouble
  \/ Len(log) <= loaded /\ UNCHANGED <<shown, loaded, trouble>>
  \/ /\ trouble < MaxTrouble /\ trouble' = trouble + 1
     /\ UNCHANGED <<shown, loaded>>

\* Once per notification.
PollFile ==
  /\ mode = "file" /\ changed
  /\ changed' = FALSE
  /\ Reload
  /\ UNCHANGED <<gatewayVars, mode, watching, status, task, events, queue, typed, stream, log>>

\* Without a watcher, every tenth turn.
PollTick ==
  /\ mode = "file" /\ ~watching
  /\ mode' = "events"
  /\ Reload
  /\ UNCHANGED <<gatewayVars, watching, status, task, events, queue, typed, stream, log,
                 changed>>

-----------------------------------------------------------------------------
(* The other processes of the thread write a message, or what they have of *)
(* a run under its run_id: an MCP server the first piece it hears while    *)
(* the run goes on (mcp/mod.rs:932), a caller or another viewer the reply. *)
(* The first piece stands for the other texts they can have of it (a later *)
(* piece, a beginning, pieces of another run): the viewer reads none.      *)

PeerWrites(line) ==
  /\ trouble < MaxTrouble /\ trouble' = trouble + 1
  /\ Write(line)
  /\ UNCHANGED <<gatewayVars, loopVars, task, events>>

PeerStep ==
  \/ PeerWrites(UserLine)
  \/ \E r \in Run \ ended : sent[r] > 0 /\ PeerWrites(PeerLine(r, <<<<r, 1>>>>))
  \/ \E r \in ended : PeerWrites(PeerLine(r, Whole(r)))

-----------------------------------------------------------------------------
TakeFrame == RecvDelta \/ RecvEnd \/ RecvRes \/ IgnoreFrame \/ RecvClosed
TaskStep  == Connect \/ TakeFrame \/ SendQueued

Turn == \/ Begin \/ HandleStatus \/ HandleDelta \/ HandleDone \/ EventsDone \/ WakeUp
        \/ KeysDone \/ PollFile \/ PollTick \/ FileDone

Connected == task = "running" /\ mode # "quit"

Next == \/ TaskStep \/ Turn \/ Quit
        \/ \E q \in Own : EnterMessage(q)
        \/ mode # "quit" /\ PeerStep
        \/ Connected /\ GatewayNext /\ UNCHANGED tuiVars

Spec == Init /\ [][Next]_vars

\* The loop goes on turning (its sleep ends); each sleep lets the task run if
\* it can, and its select! is fair to both branches; the gateway finishes what
\* it was asked.  Nothing forces a key, a peer, the connection or its loss.
GatewayServes == /\ Connected
                 /\ \E r \in Own : Accept(r) \/ Refuse(r) \/ Emit(r) \/ End(r)

Fairness == /\ WF_vars(Turn) /\ SF_vars(TakeFrame) /\ SF_vars(SendQueued)
            /\ WF_vars(GatewayServes /\ UNCHANGED tuiVars)

FairSpec == Spec /\ Fairness

-----------------------------------------------------------------------------
(* Properties.                                                             *)

\* Every variable has its type, and the channels keep to their capacity.
TypeOK ==
  /\ wire \in Seq(Frame) /\ open \in BOOLEAN
  /\ res \in [Own -> {"none", "asked", "accepted", "refused", "completed"}]
  /\ sent \in [Run -> 0 .. ReplyLen] /\ ended \in SUBSET Run
  /\ cumulative \in BOOLEAN /\ noise \in Nat
  /\ mode \in {"start", "events", "sleep", "keys", "file", "quit"} /\ watching \in BOOLEAN
  /\ status \in {"connecting", "connected", "down"}
  /\ task \in {"connecting", "running", "exited"}
  /\ events \in Seq(Event) /\ Len(events) <= EventCap
  /\ queue \in Seq(Own) /\ Len(queue) <= QueueCap
  /\ typed \in SUBSET Own
  /\ shown \in Seq(Line)
  /\ stream \in [run : Run \cup {NoRun}, pieces : Seq(Piece)]
  /\ log \in Seq(Line) /\ loaded \in Nat /\ changed \in BOOLEAN
  /\ trouble \in 0 .. MaxTrouble

\* A reply is displayed once, though it comes by the WebSocket, as a lifecycle
\* end and as a Res, and by the file when another process persists it
\* (tui/mod.rs:337-351, 387-394).
ReplyShownOnce ==
  \A i, j \in DOMAIN shown :
    shown[i].run # NoRun /\ shown[i].run = shown[j].run => i = j

\* What the viewer makes of a reply that no frame of another run came between,
\* and displays or persists, is the whole reply, in whatever order the end and
\* the two Res frames come and whatever another process did to the file.  A line
\* another process put there first takes its place as it is, an MCP server's
\* single piece too (ws_task.rs:177-230, tui/mod.rs:341-352, 371-427).
Silent(q) == sent[q] = 0 /\ (q \in Own => res[q] # "completed")
MadeHere(line, r) == line.who = "agent" /\ line.run = r
LoneReplyWhole ==
  \A r \in Run : (\A q \in Run \ {r} : Silent(q)) =>
    /\ \A i \in DOMAIN shown : MadeHere(shown[i], r) => shown[i].text = Whole(r)
    /\ \A i \in DOMAIN log : MadeHere(log[i], r) => log[i].text = Whole(r)

\* While no other process has written and no append or read has failed, the display is
\* the thread: nothing is shown twice, left out or out of order, though each
\* own line comes back through the watcher (tui/mod.rs:417, 529-531, 333-353).
DisplayIsThread == trouble = 0 => shown = log

\* Again and again all the runs whose end was broadcast are displayed, unless
\* the connection ends first: neither a full channel, nor the pieces of other
\* runs, nor a second TurnComplete keep one from it (tui/mod.rs:386-427).
EndShown ==
  []<>(task # "running" \/ mode = "quit" \/ \A r \in ended : Among(shown, r))

\* The queue of outgoing messages is emptied again and again, unless the
\* connection ends: a stream of frames does not starve the other branch
\* (ws_task.rs:84-149).
QueueServed == []<>(queue = <<>> \/ task = "exited" \/ mode = "quit")

=============================================================================
