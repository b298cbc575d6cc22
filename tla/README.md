# A TLA+ model of openclaw-bridge

`ocb` is a Rust command line that carries conversations between a person, Claude
Code and the agents of an OpenClaw gateway. Every use of it is a process of its
own: one-shot commands (`main.rs`), an MCP server (`mcp/`), a terminal viewer
(`tui/`) and a watcher (`watch.rs`). They share nothing but a directory of files
and a gateway that broadcasts the events of every run to every connection. What is
hard about the program follows from that: no operation on the files takes a lock,
and no frame of the gateway says for whom it is.

This directory holds specifications of those parts, TLC runs over small
instances of them, and TLAPS proofs of what matters most. Line references are to
`src/src/`; a comment above each property names the lines it is about, and
`PROJECT.json` gives the lines each definition stands for.

## 1. Inventory

| component | state | operations | hard behaviour | modules |
|---|---|---|---|---|
| thread store, `conversation.rs` | `threads.json`, `threads.tmp`, one JSONL file for each thread, active or archived | create, append (deduplicated by run), auto-archive, resume, set session id, read | several processes without a lock; each publishes a snapshot of the index; one name for the temporary file; `writeln!` is two writes; crashes between any two calls | `ThreadStore`, `ThreadStoreRefinement`, `SharedLog`, `Selection`, `ListProofs`, `ThreadStoreProofs` |
| gateway (not in this repository) | the connection, the runs | two `Res` for a request, broadcast events, lifecycle ends | order of `Res` and events, other clients' runs, loss of the connection | `Gateway` |
| client, `ws.rs` `agent_chat*` | run id, pieces by seq, final text, flags, frame count | one receive loop, twice (plain, streaming) | which run is mine; completion before the pieces; two limits; a timeout that drops the loop anywhere | `AgentChat`, `Selection`, `ListProofs`, `AgentChatProofs` |
| MCP server, `mcp/` | the pending reply, the cursor `last_seen_count`, the watcher's channel | `reply` and other tool calls, frames, file events | one pending reply without a timeout; three branches of one `select!`; cancelled reads; an index into a file others append to; failing appends | `McpServer`, `Selection`, `ListProofs`, `McpServerProofs`, `McpStreamProofs` |
| viewer, `tui/mod.rs`, `app.rs`, `ws_task.rs` | displayed messages, stream accumulator, cursor, two channels | event loop, WebSocket task, Enter key, file notifications | two tasks on one thread; a reply that comes three ways; one accumulator for all runs; full channels | `Tui`, `Selection`, `ListProofs`, `TuiProofs` |
| device identity and handshake, `auth.rs`, `ws.rs` `connect` | identity file, token file, one temporary name for each, the process's cached identity | load or generate the identity, challenge, connect request, hello-ok, persist a token, reset | first runs at once; read-modify-write of the token map; two files that must fit together; kills between calls | `DeviceAuth`, `DeviceAuthProofs` |
| watcher, `watch.rs` | `last_seen`, the cooldown, the in-flight flag, the spawned task | poll, run `claude`, pass its answer on, persist both | the cursor moves before the checks and again after the run; its own messages must not trigger it; every way out of the task must free it | `ThreadLog`, `Watch`, `Bridge`, `BridgeProofs` |
| commands, `main.rs` | none between calls | `conversation send`, `send`, `new`, `pair`, `auth status`, `auth reset`, `list`, `chat` | a sequence of calls any of which may fail; others write between them | `Send`, `Bridge`, `DeviceAuth` |
| `ui.rs`, `cli.rs`, `ssh.rs`, `lib.rs`, `error.rs` | none | drawing, arguments, a remote command, paths | none that a model would show | not modelled |

The components meet in three places. All of them append to and poll the threads of
the **store**: the MCP server and the viewer keep the number of messages they have
read and ask for those past it. And each long-lived one has a connection to the
**gateway**, whose events of a run also reach the processes that did not ask for it,
so two of them may persist the same reply; the store's dedup by `run_id` is what is
supposed to make that harmless. And every connection starts with the **identity** of the
device and ends its handshake by writing the token file.

What makes them correct:

* store: an acknowledged message stays in its file, and a reader finds it or the line of
  the run it duplicates; an entry of the index has a file; counts do not promise what is
  not there; what a reader has seen never changes under its cursor; a process alone
  leaves index and files in agreement.
* client: the reply is the own run's, whole, and the call returns.
* MCP server: every request gets one response, of its own run, in the end; every
  message of the TUI is passed on, once and in order; what is announced of other runs
  leaves a line in the transcript.
* viewer: a reply is displayed once, and whole if it was put together here; what is
  displayed is what the thread holds; nothing broadcast or queued is stuck.
* identity: the program leaves a file whole or not at all; the identity in use is the one
  every later process will use; the token sent was issued to it; no role loses its token.
* watcher and commands: a reply reported is on file, once, after its message; the watcher
  does not answer itself, misses nothing while it is quiet, and is free again after
  every run.

## 2. The modules

### `ThreadStore`

One action for each file-system call with the local code around it, but for two pairs that
are one step each: the look at a path and the open that follows it (`DedupHit`, `OpenFile`),
and the test and the rename of a move (`MoveFile`, `Unarchive`). `pc[p]` names the next call
of process `p`, `req[p]` its operation, `snap[p]` its snapshot of the index. `file[t]` is a
sequence of *chunks*, a message or the newline `NL`, because `writeln!` on an unbuffered
`File` writes them apart (conversation.rs:268). `Intact` and `Kept` are what `read_jsonl`
makes of such a file: a line that is one message parses, of the lines with the same run the
first is kept. `Committed` is the part of it whose newline is there. The history variable
`ragged` has the threads in whose file two appends were between text and newline at once, or
one was killed there: their lines may run into one.

| action | code |
|---|---|
| `BeginAppend`, `DedupHit`, `OpenFile`, `OpenFails`, `WriteLine`, `WriteNewline` | `append_message_in` |
| `BeginCreate`, `CreateFile` | `create_thread_in` |
| `BeginArchive`, `MoveFile` | `auto_archive_in` |
| `BeginResume`, `Unarchive` | `resume_thread_in` |
| `BeginSetSession` | `set_thread_session_id_in` |
| `TruncateTmp`, `WriteTmp`, `RenameTmp`, `RenameFails` | `write_index`: `fs::write` opens with truncation, then writes through a descriptor (`fd`) that follows the file when another process renames it; then `rename` |
| `Crash`, `Tick` | a process killed between two calls; 48 hours pass |

An early return with an error and no effect is a stuttering step. Threads, messages
and runs are model values; a thread id is fresh, so a thread is created once.

### `SharedLog`, `ThreadStoreRefinement`

`SharedLog` is what the pollers rely on: a list that grows at its end, without
repeated runs. `ThreadStoreRefinement` maps each thread to the kept, ended lines of
its file in order (`CommittedLog`), and states that every step of the store is a step
of that list or leaves it alone.

### `Selection`

What a loop takes of a list when it walks over it and skips some elements:
`InOrder(S)` are the positions in `S`, lowest first, and `Picked(s, S)` the elements of
`s` there. The pollers of the MCP server and of the viewer (`NewTui`, `NewLines`), the
client's join of the pieces it has (`Joined`) and the reader of a thread
(`CommittedLog`) are of this kind. The library's `SelectSeq` would say the same, but
through a recursion that no proof can expand; a position here is found by its rank.

### `Gateway`

The environment of the three clients: the frames under way (`wire`), whether the
connection is open, and for each own request how far its `Res` frames are. Every run
streams its pieces in order and then its end; foreign runs do so at any time, or,
with `QuietStart`, only after a request of this client was accepted. `cumulative`
says whether events carry the text so far (`data.text`), which the code treats as
optional. All of it is external: it is what the code and its comments expect.

### `AgentChat`

`Send` issues the request; each pass of the loop is `GiveUp`, `StopDraining`, one of
the `Recv...` actions (the arms of the match), `RecvClosed` or `Timeout`. The two
Rust loops differ in the callback only, so there is one loop and a variable `shown`.
`deltas[k]` is the run whose piece was stored last under seq `k`: the map of the code
is keyed by seq alone, which is exactly where two runs could mix.

### `McpServer`

`Start` is `run_mcp_server` up to its loop: the handshake, then `run_select_loop`, or
`run_without_ws` when the gateway is not reached (`linked = FALSE`: the same loop without
the frames, in which a `reply` is answered at once). The watcher may not be buildable
(`watching = FALSE`: the file branch never fires), and the cursor starts at the length
of the thread, or at 0 if that cannot be read.
A branch of the `select!` is one step: `Read` (a call comes: `AnswerAtOnce` for the
tools that need no gateway, `RejectReply`, `StartReply`), `DropRead` (a part of a line
was read when another branch won; see finding 3), `StdinClosed`, the frame handlers,
and `DrainTicks` followed by `PollThread` for the file. `complete_pending_reply` is
`CompletePending`, used by all four ways a reply ends. An append to the thread is one
step, deduplicated by run; `WriteOwn` may fail before or after the line is written,
because the index is published after it, or succeed and merge its line with another
(`Merges`); each of these counts in `failures`. Others write to the log by `TuiWrites` and
`PeerPersists`; `WatcherTells` is the callback thread of `notify`, whose `try_send`
drops an event when its channel is full.

The server adds one to its cursor after an own append, in the belief that the own line
is the one at that place (mcp/mod.rs:641). The history variable `passed` has the places
the cursor went past without a look at them that hold a message of the TUI or are not
filled yet. They are what `TuiTold` excepts, and nothing else is.

### `Tui`

Loop and task share one thread (main.rs:1006), so `mode` is the place of the loop -
events, sleep, keys, file - and the task moves only in `"sleep"`. `HandleDelta`,
`HandleDone`, `HandleStatus` are `handle_ws_event`; `EnterMessage` is the Enter key;
`Begin` builds the file watcher, after the history was loaded, or fails to; `Reload` is
`poll_thread_file`, called by `PollFile` for a notification and by `PollTick` where there
is no watcher. `Connect`, `Recv...` and `SendQueued` are the task.
`send().await` on a full channel is the guard in `Tell`; the model then leaves the
frame on the wire, so that the only thing it allows beyond the code is that the other
branch runs meanwhile. `PeerStep` is any other process on the thread: it writes a message
of its own, the whole reply of a run that ended, or the first piece of one that still
runs, as an MCP server does with a run it did not ask for (mcp/mod.rs:932); the viewer
then shows that line from the file, and drops the completion of its own because the run
is already displayed (tui/mod.rs:390-394). An append may merge with another's (`Merged`).

### `DeviceAuth`

A step is one call of the file system with the local code around it, for any number of
processes; `pc[p]` names the next one and `then[p]` where the process goes with the
identity it loads. A file is missing, empty, torn (`"mixed"`), damaged from outside or
whole. The n-th identity generated is the number n, and a token is the identity it was
issued to.

| action | code |
|---|---|
| `LoadIdentity`, `RemoveBad`, `Generate` | `load_device_identity`, `generate_and_persist_identity` (auth.rs:104-216): the process's `OnceLock`, the file, a corrupt file removed, a new key |
| `Truncate`, `Write`, `Rename`, `RenameFails`, `DropTmp` | `fs::write` to the temporary name and the rename, for both files (auth.rs:203-216, ws.rs:1143-1164); an open file follows its inode (`fd`) |
| `Connect`, `Challenge`, `LoadToken`, `HelloToken`, `Hello`, `HandshakeFails` | `WsClient::connect`, `read_challenge`, the connect request with `load_device_token`, `validate_hello_ok`, `persist_device_token`; the timer can fire only where the handshake waits |
| `Pair`, `StatusLooks`, `StatusLoads`, `ResetLooks`, `ResetIdentity`, `ResetTokens` | the commands `pair`, `auth status`, `auth reset` (main.rs) |
| `Exit` | the process ends or is killed between any two calls |
| `DeleteIdentity`, `DamageIdentity` | nobody's code: the rotation of the key by deleting its file (auth.rs:10, 106-107), and a file that does not parse (auth.rs:145-164), at any time |

Three history variables name the conditions the properties need. `contended`: two
processes were between a read and the write that depends on it at once (`Critical`).
`pulled`: the identity file went, by a reset, a deletion or damage, while a process had
the identity in memory. `orphaned`: it went and left the token file behind, which only a
whole `auth reset` removes. `FilesWhole` and `RolesKept` need the first only, `UsesStored`
the first two, `TokenIsOwn` all three. Nothing in the code rules any of them out; section 5
says what happens then.

### `ThreadLog`, `Send`, `Watch`, `Bridge`

`ThreadLog` is the store as its callers see it: a log for each thread with a
deduplicated append of one step, which may fail before or after the line is written. It
may also succeed and merge its line with that of another append, so that no reader sees
either (`Merges`; `spoiled` has the threads where that happened). It also has the
others: a TUI that sends (`TuiSends`) or persists the end of any run it hears of
(`Hears`), an MCP server that persists a delta of a run not its own (`Overhears`), and
the gateway, which carries a run on whether or not anyone still waits (`Ends`).

`Send` is `conversation send` and `send`, one action for each call that can fail:
`SendResolves`, `SendPersists`, `SendAsks`, `SendHears`, `SendReplies`, and `SendFails`
wherever it may end early. `Watch` is `watch.rs`: `Poll` is one turn of the loop that
finds new messages, `ClaudeSays` to `Absorb` the spawned task. Loop and task share one
thread (a `current_thread` runtime), so `Poll` is enabled only where the task awaits
(`Waiting`). The task may fail to connect or to close (`WatchLinkFails`), and it may wait
there without end: `connect_async` (ws.rs:167) comes before the handshake and its time-out,
and neither watch.rs:202 nor watch.rs:206 adds one. `Bridge` lets a command, a watcher and
the others work on the same threads.

## 3. The runs

Twelve runs, each a question of its own. State counts are of distinct states.

| run | instance | result |
|---|---|---|
| `store_shared` | 2 processes, 1 thread, 2 messages of the same run, 1 crash, clock to 1 | passes: types, counts, files, acknowledged messages in the file and shown to readers, append-only for readers, refinement of `SharedLog` (490,000) |
| `store_alone` | 1 process, 2 threads, 2 messages, 1 crash | passes: the index is never torn, is exact between operations, and a half-done move is one the next archive repairs (106,000) |
| `store_torn_index` | 2 processes | violated: finding 1 |
| `chat_quiet` | own and foreign run, replies of 2 pieces, 3 frames under way, limits 7 and 5 | passes, with liveness |
| `chat_foreign` | the same without `QuietStart` | violated: finding 2 |
| `mcp_calls` | 2 calls and a foreign run, replies of 1 piece, an append or read that fails or merges, both kinds of shutdown, with and without watcher | passes: one answer each, of its own run, none forgotten, one line for a run announced (5.0 million) |
| `mcp_thread` | 1 call and its run, replies of 2 pieces, 2 TUI messages, a peer that persists the reply, an append or read that fails or merges, channel of 1 event, split reads | passes, with liveness (378,000) |
| `mcp_split` | split reads | violated: finding 3 |
| `tui_thread` | 1 message of the operator, a foreign run, replies of 2 pieces, both channels of size 1, one trouble: a peer's line (a message, a first piece, a reply), or an append or read that fails or merges; a gateway that sends pieces only, with and without watcher | passes, with liveness (737,000) |
| `auth` | 2 processes at a time, any number in succession, 2 roles, 2 identities, the identity file deleted or damaged at any time | passes: whole files, one identity, its own token, no lost role (918,000) |
| `bridge` | 2 threads, one watched and viewed, 2 asks of anyone, appends that fail or merge | passes: reported replies on file once, no echo, no missed message while quiet, every run ends that does not hang in connecting or closing (850,000) |
| `bridge_partial` | the same | violated: finding 4 |

**Bounds.** Two processes are enough for the store's races because each is between a read of
one and a write of another; a third only repeats one of the two roles. Two messages of one
run make the dedup race; one crash reaches every point between two calls. Two pieces are the
least that can be incomplete, mixed or out of step with a completion; two TUI messages are
the least that can be told in the wrong order. A wire of one to three frames holds the
reorderings the gateway may make, since it is the gateway's choice what to put on it;
reception is in order. Channels of one element are full after one event, so every
full-channel branch but one is reached: the outgoing queue of the viewer would need a second
message before the task runs. The limits 7 and 5 of `chat_quiet` stand for 50,000 and 500
(ws.rs:637-640) and are hit with the frames that exist. `mcp_thread` has no foreign run, so
that two TUI messages and a failure fit; foreign runs are in `mcp_calls`, and the theorems
hold with any number of them. `tui_thread` has a gateway that does not send the text so far
(`MCSpec`): with it the end of a run brings its whole text, so that nothing depends on the
pieces accumulated; a text comes with a `Res` in any case, and the theorems hold with both.
In `auth` a slot is used by any number of processes one after the other (`Exit`, then a new
`Connect`), so that two identities give: the one whose tokens are on file, or which a
running process has kept, and the one that took its place on file; a third would be to the
second what the second is to the first. In `bridge` two asks are one of the watcher and one
that may come at any point of it, or the other way round; the second thread is what a
broadcast may be persisted in that it does not belong to. `MaxClock`, `MaxCrashes`,
`MaxTui`, `MaxFailures`, `MaxTrouble` and `MaxNoise` bound what the environment does.

Deadlock is checked in `auth`, `bridge` and `bridge_partial`: there a command can always
be started. Elsewhere `CHECK_DEADLOCK FALSE` says what the system does: calls return,
servers stop, and bounded environments fall silent.

Three of the runs use symmetry (`store_shared` and `auth`: processes; `mcp_calls`: the two
calls), none with liveness.

**Fairness.** Only what the scheduling of the code gives:

* `AgentChat`: weak fairness of `Receive`, one task awaiting one socket.
* `McpServer`: each branch of the `select!` is served if it stays ready (tokio picks a
  ready branch at random), and the watcher's thread runs.
* `Tui`: weak fairness of the loop, whose sleep ends; strong fairness of reception and
  of sending, since the task is enabled only during each sleep, again and again.
* `Bridge`: weak fairness of the watcher's poll, its cooldown, and of the steps of its task
  that the code bounds: `claude` has a time-out that ends the wait, `agent_chat` has one, and
  `Answer` and `Absorb` only read and write files. None of connecting and closing, which
  have no limit: `RunEnds` excepts a task that stays there for good, and only that. `Poll`
  stands for a turn whose read succeeded, so this assumes that reads do not fail for ever.
* The gateway finishes what it accepted (`GatewayServes`, not in `Bridge`). It is an
  assumption about the environment, and without it nothing could be answered.
* Elsewhere none on the timeout, the loss of the connection, the closing of stdin, foreign runs,
  keys, peers or failures: no liveness property holds because something broke.

## 4. What is proved

The eight `...Proofs` modules are checked by TLAPS for every value of the constants, under
the assumptions named in the modules: `NL` is no message, `RunOf` is a function to runs
or `NoRun`, bounds and limits are naturals, `NoRun` is no run, `Operator` is a role,
viewed and watched threads are threads. Each safety property that a passing run checks,
the refinement included, is a theorem here.

**Lists.** `ListProofs` has the lemmas the others share. `Ranks` says that the elements of
a finite set of numbers have the ranks 0 to n - 1, each one, by a least counterexample (a
set of numbers has a minimum, `WellFoundedInduction`); from it, `InOrder` enumerates the
set in rising order (`InOrderIs`), is the only such enumeration (`InOrderOnly`), and
grows at its end with the set (`InOrderGrows`, `PickedGrows`): this is what makes a list
picked from a growing log a growing list. The second part is about a reply of l pieces
that passes through one queue or two: `Flows(l, a, b, n, m)` says that past the n pieces
accumulated, the marks of queue `a`, and behind it those of `b`, are the pieces up to
the m sent, each once and in order, and then the end. `FlowPush`, `FlowMove`,
`FlowDrop`, `FlowTell` and `FlowTake` carry it over what a sender, a task in the middle
and a receiver do, for the client as for the viewer.

**Store.** `TInv` adds to the types what a process at a given call is working on
(`PhaseOK`: a process at `"create"` has a create request, and so on); without it the
type of `snap[p][req[p].thread]` is not inductive. `StepEffect` then says, once for
all actions, what any step does to files, index and snapshots: a file gets
at most one chunk at its end, no file loses its place, what is published is a snapshot
or was there before, and an entry of a snapshot comes from the index or from a file that
exists. The theorems follow from it:

* `TypeCorrect`: `TypeOK`.
* `FilesForEntries`: `EntriesHaveFiles`, by `FilesInv`, which says the same of
  `threads.tmp` and of every snapshot, each of which may be published later.
* `CountNeverAhead`: `CountBounded`, by `CountInv`: no snapshot in flight counts more
  than the file has, and one about to be raised is raised for a line already written.
* `AcksInFile`: `AckedInFile`, by `AckInv`: the message is in the file from the first
  write on, and files only grow.
* `ReadersOnlySeeGrowth`: the action property `CommittedGrows`, by the lemma
  `CommittedAppend` about one more chunk at the end of a file.
* `AcksAreShown`: `AckedShown`. `LinesApart` says that in a thread that is not ragged each
  line starts behind a newline, and only a process between its two writes leaves one open
  (`HalfStays`, `StepApart`). So the line of an acknowledged message is intact, by `AckInv`
  and `LinesApart`, and is kept or has an earlier one of its run that is (`OneLineKept`).
* `ThreadsAreLogs`: the refinement `RefinesSharedLog`. The mapping is a picked list, so
  `PickedGrows` makes each step one new message at the end or none (`ShownGrow`,
  `StepShown`). That it is a message the list does not have yet is `FreshInv`: a message is
  one process's to write (`OneAuthor`), is in no file before (`NotYet`), and is in one
  once (`OnceInFile`).

What the code says of its index ("atomic write", "persist it to the index") is false once
two operations overlap, as `store_torn_index` shows, and true while they do not. The last
three theorems say so: `Spec /\ []Solo => []...`, where `Solo` lets at most one of any
number of processes be inside an operation at a time; any of them may be killed inside
it. A single process, the instance of `store_alone`, is a special case. `TakesTurns` gives each
step then its `OthersIdle`.

* `LoneIndexParses`: `IndexParses`, by `LoneWrite`: what is renamed is the copy that was
  just written, whole. What a killed process left in `threads.tmp` is truncated first.
* `CutMovesRepaired`: `MoveRepairable`, by `MoveInv`: the same of every snapshot, and the
  threads still to be moved are old in the index.
* `LoneStoreExact`: `ExactWhenQuiet`. `ExactInv` is four facts: every line in a file is
  intact and ended, but for the one whose newline is about to be written (`FilesTidy`); a
  request fits the files it found (`RequestSafe`); the index agrees with the files while
  no snapshot is being made (`IndexExact`), and the snapshot of the one process at work
  does, short of the line just written (`SnapExact`, `Due`). It holds until a process is
  killed. `CreateInv` adds that a thread returned has its file.

**Client.** Under `QuietStart` (no event of a foreign run before the acceptance), `IInv` is
inductive: `WireInv` says that every event under way comes behind an acceptance that is
still on the wire (`Announced`) or was already taken, and `ClientInv` that the client knows
its run exactly from the acceptance on. `OnlyOwnRun` alone is not inductive: it does not say
why the next frame to be taken cannot be foreign. `ChatInvariant` is that invariant,
`ChatTypeCorrect` its type part with the bound on the count of frames, and `OwnRunOnly`
proves `OnlyOwnRun` for any number of foreign runs, any length and any capacity.
`chat_foreign` shows that `QuietStart` cannot be dropped.

`RepliesAreWhole` (`ReplyIsWhole`) and `ShownIsReturned` (`ShownIsReply`) rest on
`OrderInv`: the pieces shown are the first ones of the reply, the same that `deltas`
holds, and the wire has exactly those that follow, then the end (`Collected`, a `Flows`
of one queue); the text of a completion is the whole reply (`Texts`); and a call that
succeeded had one of three reasons to stop, each with what it implies for the pieces
(`Returned`).

**MCP server.** `StepEffect` reduces the twenty kinds of step to four: a request may be
lost on stdin, a reply starts, a request is answered at once, or the pending one is
answered (`Effect`). `IInv` then says that a pending reply was asked for, has no answer
yet, and holds only pieces of its own run (`OwnReply`, which needs that the pieces on the
wire are numbered as the gateway numbers them, `WireInv`). From it follow `OneAnswerEach`
(`AnsweredOnce`) and `AnswersAreOwn` (`AnswerIsOwn`) without any assumption on foreign
runs, in contrast with `AgentChat`: here the run is taken from the `Res` alone. With
`SplitLines = FALSE`, `NoRequestForgotten` proves `NoneForgotten`; `mcp_split` is the
counterexample otherwise.

`McpStreamProofs` goes on to what the answers are worth. Its invariant `SInv` is about the
order of the frames of a run: until the acceptance of the pending request is taken, every
piece of its run is behind that acceptance on the wire (`Ordered`); no piece is behind the
end (`EndsLast`); and each piece broadcast is in the reply or still on the wire
(`Collected`). So the end finds nothing left of its run on the wire, and the reply whole:
`EndedAnswersWhole` (`EndAnswerWhole`). The second half of that property, that no piece was
announced as unsolicited, is the other use of `Ordered`: a piece that matches no pending
run cannot be of the pending request. The lemmas `AppendWire` and `TailWire` carry all six
facts over one frame sent and one frame taken, and `GatewayStream` reduces the gateway to
one kind of step, `Pushed`. `HeardIsLogged` (`HeardRunLogged`) adds that a run has no two
lines (`RunOnce`), that without failures the transcript keeps the runs it has (`Grows`), and
that an announced piece leaves a line of its run: exactly one, the first piece or what
another process persisted. The later pieces announced are not there (section 5).
`ServerTypeCorrect` (`TypeOK`) collects these invariants with `LoopInv`, the places of the
loop and the size of the watcher's channel. `ToldInOrder` (`TuiToldInOrder`) is by
`ToldInv`: nothing told is past the cursor, and a poll tells the TUI's messages past it
in rising order (`InOrderIs`), whatever fails or merges.

**Viewer.** `TuiTypeCorrect` is `TypeOK`, with the frames and events on their way typed
(`FlightOK`) and each queued message typed by the operator, queued once and not asked yet
(`QueueOK`); without the latter a request could be sent twice. `RepliesShownOnce`
(`ReplyShownOnce`) is by `OnceInv`: neither the display nor the thread has two lines of a
run, and each way a line comes to the display checks or implies that. `LoneRepliesWhole`
(`LoneReplyWhole`, of the lines the viewer makes itself, not of those other processes wrote)
is by `LoneInv`: of a run that streams alone, the accumulator, the channel of events and the
wire together are a `Flows` of two queues, so that the event of the end finds every piece
accumulated. `DisplayStaysThread` proves `DisplayIsThread`; the invariant adds that the
cursor is at the end of the thread, without which a poll might show own lines again. It
covers the viewer with and without a file watcher.

**Identity and tokens.** `DeviceAuthProofs` proves all five properties of `auth`, for any
number of processes, roles and identities, with the identity file deleted and damaged at
any time. `Types` is `TypeOK`, with the promise that nobody asks to connect without an
identity. `FilesNeverTorn` is `FilesWhole`, by `Quiet`: while processes do not overlap, the
temporary file a rename publishes is the one its process has written whole, and no
descriptor points at a published file. `StoredIsUsed` (`UsesStored`) and `TokenMatches`
(`TokenIsOwn`) are by `Owned`, which relates three places: what is in a process's memory, in
the identity file and in the token file. It follows a reset through the gap between its two
removals, and `orphaned` from the moment an identity leaves its tokens behind to the reset
that removes them: nothing but that separates the two files. `OtherRolesKept` is the action
property `RolesKept`: a map about to be published has every role the file has.

**Watcher and commands.** `BridgeProofs` builds on `TInv`, the types with what a command or
task at a given place is working on. `Types` is `TypeOK`, in which the in-flight flag is
exactly the life of the task. `ReportedIsOnFile` is `SentIsOnFile`, by `FInv`: in a thread
in which no two appends merged, from the first append on the message is there and no line of
its run stands before it, and no run has two lines. `NoEchoes` is the action property
`NoEcho`, by `EInv`: an answered run has its line in the thread, and that line is past the
cursor only while the task that asked is about to read the thread again, unless lines
merged. None of them uses fairness.

**Only model-checked.** Liveness: `CallReturns`, `ReplyAnswered`, `TuiTold`, `EndShown`,
`QueueServed`, `QuietTriggers` and `RunEnds`. TLAPS 1.4 has no rules for fairness and
`ENABLED`, so these stay with TLC. The runs that expect a violation refute one property each,
and there is nothing to prove about those.

## 5. What the runs found

1. `store_torn_index`: all processes write the same `threads.tmp`. One truncates it
   between another's write and rename, and an empty index is published
   (conversation.rs:162, "Atomic write" at 160).
2. `chat_foreign`: until the first `Res`, the client adopts the run of whatever event
   comes first (ws.rs:728), and returns another client's text.
3. `mcp_split`: `read_line` is not cancel safe. If a frame or a file event wins after
   a part of a request was read, the part is lost and the request never answered
   (mcp/transport.rs:46).
4. `bridge_partial`: an MCP server persists the first delta of a run of someone else under
   its run id (mcp/mod.rs:932); the whole reply is then taken for a duplicate, and
   `conversation send` reports it as persisted (main.rs:642).

Met while modelling, and part of the models, without a run of its own.

Store:

* Two appends at once may write *line, line, newline, newline*. The merged line does not
  parse and is skipped; both calls returned `Ok` (conversation.rs:268, doc at 369).
* A snapshot taken before another process's `create_thread` and published after it
  removes the new thread from the index (`CreatedListed` is claimed of a lone process
  only, inside `ExactWhenQuiet`).

Client and servers:

* The limit after completion counts all frames, not those after the completion
  (ws.rs:651, comment at 638).
* `last_seen_count += 1` after the own append passes over a TUI message that was appended
  just before, or, if the append was a dedup hit (mcp/mod.rs:897), over the next one to
  come; it is never forwarded, against the doc at mcp/mod.rs:408-409. `TuiTold` excepts
  these places (`passed`), and shows that no other message is left untold.
* `emit_channel_notification` persists each piece of an unsolicited reply under the
  run's id, so the dedup keeps the first piece only (mcp/mod.rs:932, against the doc at
  21-23). `HeardRunLogged` says what is there: one line of the run.
* A viewer that finds that first piece in the file shows it as the reply, and drops the
  reply it accumulated itself (tui/mod.rs:341-352, 390-394). The comment at
  tui/mod.rs:405-407 expects other processes to write full responses only.
* A completion `Res` completes the pending reply with the text so far when deltas carry
  cumulative text, though the comment above says the loop waits for the end
  (mcp/mod.rs:847-852).
* The viewer accumulates all runs in one map and completes a run with whatever it holds
  (tui/mod.rs:376, 399): with two runs at once the text of one is shown and persisted
  under the other.
* The viewer loads the history, and only then builds its watcher (tui/mod.rs:65, 225):
  what is written in between is displayed with the next change of the file, if one comes.
* The viewer persists and displays a message before it knows that the queue has room
  (tui/mod.rs:514-548), and counts one line for an append that the dedup swallowed
  (tui/mod.rs:417).

Identity and tokens, once processes overlap or an identity goes from under its users or
its tokens:

* Two first runs each generate an identity and share one temporary name: one of them may
  go on with a key that is not on file, and its token is then of no use to anyone
  (auth.rs:203-216). A process that finds a corrupt file removes whatever is there by
  then (auth.rs:153).
* Two handshakes with tokens for different roles may lose one of them (ws.rs:1098), and
  may leave a token file that does not parse; no connection can be made after that until
  it is removed.
* `auth reset` does not reach the `OnceLock` of a running watcher or server, which goes on
  with the removed identity and writes its tokens into the new token file (main.rs:969).
* Rotation by deleting the identity file (auth.rs:10, 106-107), and the recovery from a
  corrupt one (auth.rs:145-164), leave the token file as it is: the next connect request
  carries the new identity with the token of the old one.
* The time-out of the handshake is 30 seconds; the text of its error speaks of ten
  minutes.

Watcher and commands:

* A message that arrives during a cooldown or a run is counted as seen and never triggers
  (watch.rs:113); `QuietTriggers` excepts it.
* When `claude` takes too long the watcher stops waiting, but does not kill the process,
  which may still write to its session while the next one runs.
* Two watchers of one thread answer each other: each takes the other's reply of the
  agent for a message of someone else.
* A gateway that accepts the connection and never answers the upgrade, or never lets it
  close, keeps the watcher's task and with it the in-flight flag for good: no limit covers
  ws.rs:167, watch.rs:202 and watch.rs:206.
* A viewer or an MCP server persists the end of any run in the thread it has open,
  whatever session the run is of (`Hears`): the reply then stands in two threads.
* A `disconnect` that fails after the reply came is reported as an error, and the reply
  is not persisted; a retry appends the message a second time.
* Two `send --agent` at once may each create a thread.

## 6. Not modelled, and why

Texts, timestamps, ids and JSON are model values: no property here depends on them. A
malformed frame ends the loops like a closed connection, a `Res` without a `runId` is
not in `Gateway`. The MCP handshake is one step. The viewer has a thread, chosen before
it starts; its scrolling, its text field and its status bar are left out. The
readers `list_threads`, `read_thread_tail` and `find_thread_by_prefix` change nothing
(`conversation list` archives first, which is `BeginArchive`). `spawn`, `status`,
`agents` and `workspace` run one remote command over ssh; `history` and `version` print.
Drawing, argument parsing, ssh quoting, configuration and cryptography are pure
functions. The prompt that `watch` gives to `claude`, and what `claude` does with the
thread by itself, are outside the repository.

## 7. Plan

Done, in this order: the store (everything rests on it), the gateway with the client
(smallest of the clients), the MCP server, the viewer, the identity and token files, the
commands and the watcher together on shared threads; with proofs of all their safety
properties.

Next, most important first:

1. The threads of `ThreadLog`, `McpServer` and `Tui` are logs with an append of one step
   that may fail before or after the line, or merge it with another; that `ThreadStore`
   implements such a log is stated of what a reader sees (`SharedLog`) and of what is
   acknowledged (`AckedShown`), not yet as a refinement of the calls that fail.
2. A second watcher in `Bridge`, for how long two of them go on answering each other.
3. A viewer with two messages of the operator, for the full outgoing queue.

New questions share configurations where they can: a run is added only when its
instance differs.
