----------------------------- MODULE ThreadStore -----------------------------
(***************************************************************************)
(* The conversation store of src/src/conversation.rs as several `ocb`      *)
(* processes (CLI, TUI, MCP server, watcher) use it at the same time.      *)
(*                                                                         *)
(* The store is a directory: threads.json (the index), threads.tmp (its    *)
(* temporary copy, one name for every process) and one JSONL file for each *)
(* thread, active or archived.  No operation takes a lock: each reads the  *)
(* index, works on its own snapshot, and publishes the snapshot by writing *)
(* threads.tmp and renaming it.  A step below is one file-system call with *)
(* the local code around it; only the look at a path and the call that     *)
(* uses it are one step, in the check of append_message for a run and the  *)
(* open after it, and in the test and the rename of a move.  What comes    *)
(* between those two is as if it had come after: it lets an append through *)
(* that the check would have stopped, as the steps after the open do.      *)
(*                                                                         *)
(* Abstracted: the text of a message (a member of Msg), timestamps (a      *)
(* clock that advances in units of the 48 h archive limit), agent ids and  *)
(* the order of entries in the index.  An early return with an error and   *)
(* no effect is a stuttering step, so the actions show only the paths that *)
(* change state.                                                           *)
(***************************************************************************)
EXTENDS Integers, Sequences, FiniteSets

CONSTANTS
  Proc,         \* the processes that share the directory
  Thread,       \* thread ids (fresh UUIDs: each is created at most once)
  Msg,          \* messages, by their UUID
  RunOf,        \* Msg -> Run or NoRun: the run_id field of each message
  Run, NoRun,
  NL,           \* the newline that ends a JSONL line
  MaxClock,     \* bound on the clock, in units of 48 hours
  MaxCrashes    \* bound on the processes killed in the middle of a call

ASSUME MsgAssumption   == NL \notin Msg
ASSUME RunAssumption   == NoRun \notin Run /\ RunOf \in [Msg -> Run \cup {NoRun}]
ASSUME BoundAssumption == MaxClock \in Nat /\ MaxCrashes \in Nat

VARIABLES
  index,    \* threads.json
  tmp,      \* threads.tmp
  place,    \* where each thread's file is
  file,     \* its contents: messages and newlines in the order written
  pc,       \* the next call of each process
  req,      \* the operation the process is in
  snap,     \* its copy of the index
  todo,     \* auto_archive: the entries still to be moved
  fd,       \* fs::write: the file the open descriptor reaches by now
  acked,    \* history: <<thread, message>> of every append that returned Ok
  created,  \* history: the threads create_thread returned
  ragged,   \* history: the threads in whose file two appends overlapped between
            \* the text of a line and its newline, or one was killed there
  clock, crashes

store == <<index, tmp, place, file>>
local == <<pc, req, snap, todo, fd>>
vars  == <<index, tmp, place, file, pc, req, snap, todo, fd,
           acked, created, ragged, clock, crashes>>

-----------------------------------------------------------------------------
(* Data.                                                                   *)

Entry == [listed : BOOLEAN, count : Nat, archived : BOOLEAN,
          updated : Nat, session : BOOLEAN]

Unlisted == [listed |-> FALSE, count |-> 0, archived |-> FALSE,
             updated |-> 0, session |-> FALSE]

NewEntry(now) == [Unlisted EXCEPT !.listed = TRUE, !.updated = now]

NoThreads == [t \in Thread |-> Unlisted]

Snapshot == [Thread -> Entry]

\* "empty" is a truncated file, "mixed" one text over a longer one: neither
\* parses.  Their threads field is unused.
Content == [kind : {"missing", "empty", "mixed", "json"}, threads : Snapshot]

Missing     == [kind |-> "missing", threads |-> NoThreads]
Empty       == [kind |-> "empty",   threads |-> NoThreads]
Mixed       == [kind |-> "mixed",   threads |-> NoThreads]
Json(s)     == [kind |-> "json",    threads |-> s]
Parses(c)   == c.kind \in {"missing", "json"}

Idle == [op |-> "none"]
AppendOp(t, m) == [op |-> "append", thread |-> t, msg |-> m]
ThreadOp(o, t) == [op |-> o, thread |-> t]
ArchiveOp      == [op |-> "archive"]
Request == {Idle, ArchiveOp} \cup {AppendOp(t, m) : t \in Thread, m \in Msg}
             \cup {ThreadOp(o, t) : o \in {"create", "resume", "session"}, t \in Thread}

PC == {"idle", "open", "line", "newline", "create", "move", "unarchive",
       "trunc", "write", "rename"}

-----------------------------------------------------------------------------
(* Reading a JSONL file.  A line parses exactly when it holds one message. *)

Intact(f) == {i \in DOMAIN f : /\ f[i] # NL
                               /\ i = 1 \/ f[i - 1] = NL
                               /\ i = Len(f) \/ f[i + 1] = NL}

RunAt(f, i) == RunOf[f[i]]

\* Mutated form of Kept: the last line of a run is kept, not the first.
KeptLast(f) == {i \in Intact(f) :
                  RunAt(f, i) = NoRun \/
                  \A j \in Intact(f) : i < j => RunAt(f, j) # RunAt(f, i)}

\* read_jsonl: of the lines with one run_id, the first is kept.
Kept(f) == {i \in Intact(f) :
              \/ RunAt(f, i) = NoRun
              \/ \A j \in Intact(f) : j < i => RunAt(f, j) # RunAt(f, i)}

\* The kept lines whose newline is written too.
Committed(f) == {i \in Kept(f) : i < Len(f)}

Lines(f) == {i \in DOMAIN f : f[i] # NL}

-----------------------------------------------------------------------------
(* Starting and ending an operation.                                       *)

PathOf(e) == IF e.archived THEN "archived" ELSE "active"

\* read_index succeeded: the process goes on with its own copy.
Start(p, r, s, next) ==
  /\ pc[p] = "idle" /\ Parses(index)
  /\ req'  = [req  EXCEPT ![p] = r]
  /\ snap' = [snap EXCEPT ![p] = s]
  /\ pc'   = [pc   EXCEPT ![p] = next]

\* The call returns, with or without an error, or its process dies.
Leave(p) ==
  /\ pc'   = [pc   EXCEPT ![p] = "idle"]
  /\ req'  = [req  EXCEPT ![p] = Idle]
  /\ snap' = [snap EXCEPT ![p] = NoThreads]
  /\ todo' = [todo EXCEPT ![p] = {}]

Goto(p, next) == pc' = [pc EXCEPT ![p] = next]

Revise(p, t, e) == snap' = [snap EXCEPT ![p][t] = e]

InUse(m) == \/ \E t \in Thread : \E i \in DOMAIN file[t] : file[t][i] = m
            \/ \E q \in Proc : req[q].op = "append" /\ req[q].msg = m

-----------------------------------------------------------------------------
(* append_message.                                                         *)

BeginAppend(p, t, m) ==
  /\ ~InUse(m)
  /\ index.threads[t].listed
  /\ Start(p, AppendOp(t, m), index.threads, "open")
  /\ UNCHANGED <<store, todo, fd, acked, created, clock, crashes>>

\* A line with the same run_id, read through read_jsonl.
SameRun(t, m) == {i \in Kept(file[t]) : /\ RunOf[m] # NoRun
                                        /\ RunAt(file[t], i) = RunOf[m]}

\* Mutated form of FileThere: the path is not looked at.
FileAssumed(p) == req[p].thread \in Thread

FileThere(p) == LET t == req[p].thread IN place[t] = PathOf(snap[p][t])

\* Mutated form of DedupHit: a duplicate is counted and published like a message.
DedupHitCounted(p) ==
  LET t == req[p].thread IN
  /\ pc[p] = "open" /\ FileThere(p) /\ SameRun(t, req[p].msg) # {}
  /\ Revise(p, t, [snap[p][t] EXCEPT !.count = @ + 1])
  /\ Goto(p, "trunc")
  /\ UNCHANGED <<store, req, todo, fd, acked, created, clock, crashes>>

DedupHit(p) ==
  /\ pc[p] = "open" /\ FileThere(p)
  /\ \E i \in SameRun(req[p].thread, req[p].msg) :
       acked' = acked \cup {<<req[p].thread, file[req[p].thread][i]>>}
  /\ Leave(p)
  /\ UNCHANGED <<store, fd, created, clock, crashes>>

\* OpenOptions::append without create.
OpenFile(p) ==
  LET t == req[p].thread IN
  /\ pc[p] = "open" /\ FileThere(p)
  /\ SameRun(t, req[p].msg) = {}
  /\ Goto(p, "line")
  /\ Revise(p, t, [snap[p][t] EXCEPT !.updated = clock])
  /\ UNCHANGED <<store, req, todo, fd, acked, created, clock, crashes>>

\* Mutated form of OpenFails: a file that is not there is ignored.
OpenFailsIgnored(p) ==
  /\ pc[p] = "open" /\ ~FileThere(p)
  /\ acked' = acked \cup {<<req[p].thread, req[p].msg>>}
  /\ Leave(p)
  /\ UNCHANGED <<store, fd, created, clock, crashes>>

OpenFails(p) ==
  /\ pc[p] = "open" /\ ~FileThere(p)
  /\ Leave(p)
  /\ UNCHANGED <<store, fd, acked, created, clock, crashes>>

\* writeln! on an unbuffered File writes the text and the newline apart.
WriteLine(p) ==
  LET t == req[p].thread IN
  /\ pc[p] = "line"
  /\ file' = [file EXCEPT ![t] = Append(@, req[p].msg)]
  /\ Goto(p, "newline")
  /\ UNCHANGED <<index, tmp, place, req, snap, todo, fd, acked, created, clock, crashes>>

\* Mutated forms of WriteNewline: the line is not ended; the count is left alone,
\* or goes down.
WriteNewlineOmitted(p) ==
  LET t == req[p].thread IN
  /\ pc[p] = "newline"
  /\ Revise(p, t, [snap[p][t] EXCEPT !.count = @ + 1])
  /\ Goto(p, "trunc")
  /\ UNCHANGED <<store, req, todo, fd, acked, created, clock, crashes>>

WriteNewlineUncounted(p) ==
  LET t == req[p].thread IN
  /\ pc[p] = "newline"
  /\ file' = [file EXCEPT ![t] = Append(@, NL)]
  /\ Goto(p, "trunc")
  /\ UNCHANGED <<index, tmp, place, req, snap, todo, fd, acked, created, clock, crashes>>

WriteNewlineUncounts(p) ==
  LET t == req[p].thread IN
  /\ pc[p] = "newline"
  /\ file' = [file EXCEPT ![t] = Append(@, NL)]
  /\ Revise(p, t, [snap[p][t] EXCEPT !.count = 0 - 1])
  /\ Goto(p, "trunc")
  /\ UNCHANGED <<index, tmp, place, req, todo, fd, acked, created, clock, crashes>>

WriteNewline(p) ==
  LET t == req[p].thread IN
  /\ pc[p] = "newline"
  /\ file' = [file EXCEPT ![t] = Append(@, NL)]
  /\ Revise(p, t, [snap[p][t] EXCEPT !.count = @ + 1])
  /\ Goto(p, "trunc")
  /\ UNCHANGED <<index, tmp, place, req, todo, fd, acked, created, clock, crashes>>

-----------------------------------------------------------------------------
(* create_thread, auto_archive, resume_thread, set_thread_session_id.      *)

BeginCreate(p, t) ==
  /\ place[t] = "none"
  /\ \A q \in Proc : pc[q] = "create" => req[q].thread # t
  /\ Start(p, ThreadOp("create", t), index.threads, "create")
  /\ UNCHANGED <<store, todo, fd, acked, created, clock, crashes>>

\* Mutated form of CreateFile: the file is left for the first append to make.
CreateLazily(p) ==
  LET t == req[p].thread IN
  /\ pc[p] = "create"
  /\ Revise(p, t, NewEntry(clock))
  /\ Goto(p, "trunc")
  /\ UNCHANGED <<store, req, todo, fd, acked, created, clock, crashes>>

CreateFile(p) ==
  LET t == req[p].thread IN
  /\ pc[p] = "create"
  /\ place' = [place EXCEPT ![t] = "active"]
  /\ Revise(p, t, NewEntry(clock))
  /\ Goto(p, "trunc")
  /\ UNCHANGED <<index, tmp, file, req, todo, fd, acked, created, clock, crashes>>

Stale(e) == e.listed /\ ~e.archived /\ e.updated < clock

BeginArchive(p) ==
  LET old == {t \in Thread : Stale(index.threads[t])} IN
  /\ old # {}
  /\ Start(p, ArchiveOp, index.threads, "move")
  /\ todo' = [todo EXCEPT ![p] = old]
  /\ UNCHANGED <<store, fd, acked, created, clock, crashes>>

\* One turn of the loop; a file that is not there is passed over.
MoveFile(p, t) ==
  /\ pc[p] = "move" /\ t \in todo[p]
  /\ place' = [place EXCEPT ![t] = IF @ = "active" THEN "archived" ELSE @]
  /\ Revise(p, t, [snap[p][t] EXCEPT !.archived = TRUE])
  /\ todo' = [todo EXCEPT ![p] = @ \ {t}]
  /\ Goto(p, IF todo[p] = {t} THEN "trunc" ELSE "move")
  /\ UNCHANGED <<index, tmp, file, req, fd, acked, created, clock, crashes>>

BeginResume(p, t) ==
  /\ index.threads[t].listed /\ index.threads[t].archived
  /\ Start(p, ThreadOp("resume", t), index.threads, "unarchive")
  /\ UNCHANGED <<store, todo, fd, acked, created, clock, crashes>>

Unarchive(p) ==
  LET t == req[p].thread IN
  /\ pc[p] = "unarchive"
  /\ place' = [place EXCEPT ![t] = IF @ = "archived" THEN "active" ELSE @]
  /\ Revise(p, t, [snap[p][t] EXCEPT !.archived = FALSE])
  /\ Goto(p, "trunc")
  /\ UNCHANGED <<index, tmp, file, req, todo, fd, acked, created, clock, crashes>>

BeginSetSession(p, t) ==
  /\ index.threads[t].listed
  /\ Start(p, ThreadOp("session", t),
           [index.threads EXCEPT ![t].session = TRUE], "trunc")
  /\ UNCHANGED <<store, todo, fd, acked, created, clock, crashes>>

-----------------------------------------------------------------------------
(* write_index: fs::write(threads.tmp) truncates, then writes at offset 0; *)
(* fs::rename moves the file the name threads.tmp then stands for.         *)

\* Mutated form of TruncateTmp: the index is rewritten in place.
TruncateIndex(p) ==
  /\ pc[p] = "trunc"
  /\ index' = Empty
  /\ fd'  = [fd EXCEPT ![p] = "index"]
  /\ Goto(p, "write")
  /\ UNCHANGED <<tmp, place, file, req, snap, todo, acked, created, clock, crashes>>

TruncateTmp(p) ==
  /\ pc[p] = "trunc"
  /\ tmp' = Empty
  /\ fd'  = [fd EXCEPT ![p] = "tmp"]
  /\ Goto(p, "write")
  /\ UNCHANGED <<index, place, file, req, snap, todo, acked, created, clock, crashes>>

\* Over the text of another process the outcome depends on the two lengths.
Overwrite(old, s) == IF old.kind = "empty" THEN {Json(s)} ELSE {Json(s), Mixed}

WriteTmp(p) ==
  /\ pc[p] = "write"
  /\ CASE fd[p] = "tmp"   -> tmp' \in Overwrite(tmp, snap[p]) /\ UNCHANGED index
       [] fd[p] = "index" -> index' \in Overwrite(index, snap[p]) /\ UNCHANGED tmp
       [] OTHER           -> UNCHANGED <<index, tmp>>
  /\ fd' = [fd EXCEPT ![p] = "none"]
  /\ Goto(p, "rename")
  /\ UNCHANGED <<place, file, req, snap, todo, acked, created, clock, crashes>>

\* A descriptor follows its file: tmp becomes index, the old index is gone.
Renamed(d) == CASE d = "tmp" -> "index" [] d = "index" -> "gone" [] OTHER -> d

RenameTmp(p) ==
  /\ pc[p] = "rename" /\ tmp.kind # "missing"
  /\ index' = tmp
  /\ tmp' = Missing
  /\ fd' = [q \in Proc |-> Renamed(fd[q])]
  /\ acked' = acked \cup (IF req[p].op = "append"
                            THEN {<<req[p].thread, req[p].msg>>} ELSE {})
  /\ created' = created \cup (IF req[p].op = "create" THEN {req[p].thread} ELSE {})
  /\ Leave(p)
  /\ UNCHANGED <<place, file, clock, crashes>>

\* Another process has renamed threads.tmp away: the call returns an error.
RenameFails(p) ==
  /\ pc[p] = "rename" /\ tmp.kind = "missing"
  /\ Leave(p)
  /\ UNCHANGED <<store, fd, acked, created, clock, crashes>>

-----------------------------------------------------------------------------
(* The environment: time, and a process killed (or failed by the file      *)
(* system) in the middle of an operation.                                  *)

Tick ==
  /\ clock < MaxClock
  /\ clock' = clock + 1
  /\ UNCHANGED <<store, local, acked, created, crashes>>

Crash(p) ==
  /\ pc[p] # "idle" /\ crashes < MaxCrashes
  /\ crashes' = crashes + 1
  /\ Leave(p)
  /\ fd' = [fd EXCEPT ![p] = "none"]
  /\ UNCHANGED <<store, acked, created, clock>>

-----------------------------------------------------------------------------
Init ==
  /\ index = Missing /\ tmp = Missing
  /\ place = [t \in Thread |-> "none"]
  /\ file  = [t \in Thread |-> <<>>]
  /\ pc    = [p \in Proc |-> "idle"]
  /\ req   = [p \in Proc |-> Idle]
  /\ snap  = [p \in Proc |-> NoThreads]
  /\ todo  = [p \in Proc |-> {}]
  /\ fd    = [p \in Proc |-> "none"]
  /\ acked = {} /\ created = {} /\ ragged = {}
  /\ clock = 0 /\ crashes = 0

AppendStep(p) ==
  \/ \E t \in Thread, m \in Msg : BeginAppend(p, t, m)
  \/ DedupHit(p) \/ OpenFile(p) \/ OpenFails(p) \/ WriteLine(p) \/ WriteNewline(p)

ThreadStep(p) ==
  \/ \E t \in Thread : \/ BeginCreate(p, t) \/ MoveFile(p, t)
                       \/ BeginResume(p, t) \/ BeginSetSession(p, t)
  \/ CreateFile(p) \/ BeginArchive(p) \/ Unarchive(p)

PublishStep(p) == TruncateTmp(p) \/ WriteTmp(p) \/ RenameTmp(p) \/ RenameFails(p)

\* A process is between the text of a line and its newline.
HalfWritten(p, t) == pc[p] = "newline" /\ req[p].thread = t

Overlapped == {t \in Thread : \E p, q \in Proc :
                 p # q /\ HalfWritten(p, t) /\ HalfWritten(q, t)}
Killed     == {t \in Thread : \E p \in Proc : HalfWritten(p, t) /\ pc'[p] = "idle"}

Next == /\ \/ \E p \in Proc : AppendStep(p) \/ ThreadStep(p) \/ PublishStep(p) \/ Crash(p)
           \/ Tick
        /\ ragged' = ragged \cup Overlapped' \cup Killed

Spec == Init /\ [][Next]_vars

-----------------------------------------------------------------------------
(* Properties.                                                             *)

\* Every variable has its type; the text of an unparsable index is unused.
TypeOK ==
  /\ index \in Content /\ tmp \in Content
  /\ place \in [Thread -> {"none", "active", "archived"}]
  /\ file \in [Thread -> Seq(Msg \cup {NL})]
  /\ pc \in [Proc -> PC]
  /\ req \in [Proc -> Request]
  /\ snap \in [Proc -> Snapshot]
  /\ todo \in [Proc -> SUBSET Thread]
  /\ fd \in [Proc -> {"none", "tmp", "index", "gone"}]
  /\ acked \in SUBSET (Thread \X Msg) /\ created \in SUBSET Thread
  /\ ragged \in SUBSET Thread
  /\ clock \in Nat /\ crashes \in Nat

\* message_count never promises more messages than the thread's file holds,
\* whatever stale snapshot was published last (conversation.rs:270-272).
CountBounded ==
  \A t \in Thread : index.threads[t].count <= Cardinality(Lines(file[t]))

\* create_thread makes the file before it publishes the entry, and nothing
\* deletes a file: an indexed thread has a file, after a crash as well.
EntriesHaveFiles ==
  \A t \in Thread : index.threads[t].listed => place[t] # "none"

\* append_message returns Ok only for a message that is in the thread's file,
\* also when the file was archived under it (conversation.rs:266-274).
AckedInFile ==
  \A a \in acked : \E i \in DOMAIN file[a[1]] : file[a[1]][i] = a[2]

\* The pollers keep a count of the messages read and ask for those past it
\* (mcp/mod.rs:1019, tui/mod.rs:337).  That is sound for ended lines: one that
\* is shown stays shown and the same, and a new one comes after all of them.
CommittedGrows ==
  [][\A t \in Thread :
       /\ Committed(file[t]) \subseteq Committed(file'[t])
       /\ \A i \in Committed(file[t]) : file'[t][i] = file[t][i]
       /\ \A i \in Committed(file[t]) :
            \A j \in Committed(file'[t]) \ Committed(file[t]) : i < j]_vars

\* Reading the thread shows an acknowledged message, or the one of the same run
\* that it duplicates.
Shown(a) == \E i \in Kept(file[a[1]]) :
              \/ file[a[1]][i] = a[2]
              \/ RunOf[a[2]] # NoRun /\ RunAt(file[a[1]], i) = RunOf[a[2]]

\* append_message documents that the message it returned is persisted
\* (conversation.rs:369-370).  It does not hold of two writers whose lines and
\* newlines interleave (conversation.rs:268); it does, over every other race of
\* the check for the run, the archive and the index, unless two appends to the
\* thread overlapped just there, or one was killed just there.
AckedShown == \A a \in acked : a[1] \in ragged \/ Shown(a)

\* What write_index documents (conversation.rs:160, "Atomic write"): a reader
\* finds the index of one writer, never a part of one.
IndexParses == Parses(index)

\* What create_thread documents (conversation.rs:362, "persist it to the
\* index"): a thread that was returned is in the index.  Of two processes the
\* stale snapshot of one can still publish over the new entry of the other.
CreatedListed == \A t \in created : index.threads[t].listed

\* A process that has the store to itself, and is not killed, leaves an index
\* that agrees with the files whenever it is between two operations.
ExactWhenQuiet ==
  (crashes = 0 /\ \A p \in Proc : pc[p] = "idle") =>
    /\ (\A a \in acked : Shown(a)) /\ CreatedListed
    /\ \A t \in Thread :
         /\ index.threads[t].listed <=> place[t] # "none"
         /\ index.threads[t].listed => place[t] = PathOf(index.threads[t])
         /\ index.threads[t].count = Cardinality(Kept(file[t]))

\* auto_archive killed between the move and the index (conversation.rs:315-325)
\* leaves an entry that still says active.  It is old enough for the next
\* auto_archive to pass over the missing file and repair it: no append can have
\* refreshed it.
MoveRepairable ==
  \A t \in Thread :
    LET e == index.threads[t] IN
    (e.listed /\ ~e.archived /\ place[t] = "archived") => e.updated < clock

=============================================================================
