-------------------------- MODULE ThreadStoreProofs --------------------------
(***************************************************************************)
(* What holds of ThreadStore for every number of processes, threads,       *)
(* messages, crashes and clock ticks: whatever the interleaving, and, in   *)
(* the last part, as long as the processes take turns.                     *)
(***************************************************************************)
EXTENDS ThreadStoreRefinement, ListProofs, WellFoundedInduction

-----------------------------------------------------------------------------
(* Types.  PhaseOK adds to the types what each program counter says of the *)
(* request, which the next step's use of its fields needs.                 *)

PhaseOK ==
  \A p \in Proc :
    /\ pc[p] \in {"open", "line", "newline"} =>
         \E t \in Thread, m \in Msg : req[p] = AppendOp(t, m)
    /\ pc[p] = "create" => \E t \in Thread : req[p] = ThreadOp("create", t)
    /\ pc[p] = "unarchive" => \E t \in Thread : req[p] = ThreadOp("resume", t)
    /\ pc[p] = "move" => req[p] = ArchiveOp

TInv == TypeOK /\ PhaseOK

LEMMA ConstantTypes ==
  /\ Unlisted \in Entry
  /\ NoThreads \in Snapshot
  /\ Missing \in Content /\ Empty \in Content /\ Mixed \in Content
  /\ \A s \in Snapshot : Json(s) \in Content
  /\ \A now \in Nat : NewEntry(now) \in Entry
  /\ Idle \in Request /\ ArchiveOp \in Request
  /\ \A t \in Thread, m \in Msg : AppendOp(t, m) \in Request
  /\ \A t \in Thread, o \in {"create", "resume", "session"} : ThreadOp(o, t) \in Request
<1>1. Unlisted \in Entry
  BY DEF Unlisted, Entry
<1>2. NoThreads \in Snapshot
  BY <1>1 DEF NoThreads, Snapshot
<1>3. Missing \in Content /\ Empty \in Content /\ Mixed \in Content
  BY <1>2 DEF Missing, Empty, Mixed, Content
<1>4. \A s \in Snapshot : Json(s) \in Content
  BY DEF Json, Content
<1>5. \A now \in Nat : NewEntry(now) \in Entry
  BY DEF NewEntry, Unlisted, Entry
<1>6. /\ Idle \in Request /\ ArchiveOp \in Request
      /\ \A t \in Thread, m \in Msg : AppendOp(t, m) \in Request
      /\ \A t \in Thread, o \in {"create", "resume", "session"} : ThreadOp(o, t) \in Request
  BY DEF Request
<1> QED BY <1>1, <1>2, <1>3, <1>4, <1>5, <1>6

LEMMA InitTyped == Init => TInv
<1> SUFFICES ASSUME Init PROVE TInv
  OBVIOUS
<1>1. TypeOK
  BY ConstantTypes DEF Init, TypeOK, PC
<1>2. PhaseOK
  BY DEF Init, PhaseOK
<1> QED BY <1>1, <1>2 DEF TInv

\* A message in a file, or in a request that is an append.
LEMMA AppendRequest ==
  ASSUME NEW r \in Request, r.op = "append"
  PROVE  r.thread \in Thread /\ r.msg \in Msg
BY DEF Request, Idle, ArchiveOp, AppendOp, ThreadOp

LEMMA CreateRequest ==
  ASSUME NEW r \in Request, r.op = "create"
  PROVE  r.thread \in Thread
BY DEF Request, Idle, ArchiveOp, AppendOp, ThreadOp

\* The request of a process that is inside an operation on one thread.
LEMMA RequestInPhase ==
  ASSUME PhaseOK, NEW p \in Proc
  PROVE  /\ pc[p] \in {"open", "line", "newline"} =>
              req[p].op = "append" /\ req[p].thread \in Thread /\ req[p].msg \in Msg
         /\ pc[p] = "create" => req[p].op = "create" /\ req[p].thread \in Thread
         /\ pc[p] = "unarchive" => req[p].op = "resume" /\ req[p].thread \in Thread
<1>1. ASSUME pc[p] \in {"open", "line", "newline"}
      PROVE  req[p].op = "append" /\ req[p].thread \in Thread /\ req[p].msg \in Msg
  <2> PICK t \in Thread, m \in Msg : req[p] = AppendOp(t, m)
    BY <1>1, Zenon DEF PhaseOK
  <2> QED BY DEF AppendOp
<1>2. ASSUME pc[p] = "create"
      PROVE  req[p].op = "create" /\ req[p].thread \in Thread
  <2> PICK t \in Thread : req[p] = ThreadOp("create", t)
    BY <1>2, Zenon DEF PhaseOK
  <2> QED BY DEF ThreadOp
<1>3. ASSUME pc[p] = "unarchive"
      PROVE  req[p].op = "resume" /\ req[p].thread \in Thread
  <2> PICK t \in Thread : req[p] = ThreadOp("resume", t)
    BY <1>3, Zenon DEF PhaseOK
  <2> QED BY DEF ThreadOp
<1> QED BY <1>1, <1>2, <1>3

\* What an operation may store into one field of an entry.
LEMMA EntryUpdates ==
  ASSUME NEW e \in Entry
  PROVE  /\ \A n \in Nat : [e EXCEPT !.updated = n] \in Entry
         /\ [e EXCEPT !.count = @ + 1] \in Entry
         /\ \A b \in BOOLEAN : [e EXCEPT !.archived = b] \in Entry
         /\ \A b \in BOOLEAN : [e EXCEPT !.session = b] \in Entry
BY DEF Entry

LEMMA ReviseTyped ==
  ASSUME TypeOK, NEW p \in Proc, NEW t \in Thread, NEW e \in Entry, Revise(p, t, e)
  PROVE  snap' \in [Proc -> Snapshot]
BY DEF TypeOK, Snapshot, Revise

LEMMA LeaveTyped ==
  ASSUME TInv, NEW p \in Proc, Leave(p)
  PROVE  /\ pc' \in [Proc -> PC] /\ req' \in [Proc -> Request]
         /\ snap' \in [Proc -> Snapshot] /\ todo' \in [Proc -> SUBSET Thread]
         /\ PhaseOK'
<1>1. PhaseOK'
  BY DEF TInv, TypeOK, PhaseOK, Leave
<1> QED BY <1>1, ConstantTypes DEF TInv, TypeOK, Leave, PC

LEMMA StartTyped ==
  ASSUME TInv, NEW p \in Proc, NEW r \in Request, NEW s \in Snapshot,
         NEW next \in {"open", "create", "move", "unarchive", "trunc"},
         Start(p, r, s, next),
         next = "open" => \E t \in Thread, m \in Msg : r = AppendOp(t, m),
         next = "create" => \E t \in Thread : r = ThreadOp("create", t),
         next = "unarchive" => \E t \in Thread : r = ThreadOp("resume", t),
         next = "move" => r = ArchiveOp
  PROVE  /\ pc' \in [Proc -> PC] /\ req' \in [Proc -> Request]
         /\ snap' \in [Proc -> Snapshot] /\ PhaseOK'
<1>1. PhaseOK'
  BY DEF TInv, TypeOK, PhaseOK, Start
<1> QED BY <1>1 DEF TInv, TypeOK, Start, PC

LEMMA StepTyped == TInv /\ [Next]_vars => TInv'
<1> SUFFICES ASSUME TInv, [Next]_vars, ragged' \in SUBSET Thread PROVE TInv'
  BY DEF Next, vars, Overlapped, Killed, TInv, TypeOK
<1> USE DEF TInv
<1>1. ASSUME NEW p \in Proc, NEW t \in Thread, NEW m \in Msg, BeginAppend(p, t, m)
      PROVE  TInv'
  <2>1. index.threads \in Snapshot
    BY DEF TypeOK, Content
  <2>2. /\ pc' \in [Proc -> PC] /\ req' \in [Proc -> Request]
        /\ snap' \in [Proc -> Snapshot] /\ PhaseOK'
    BY <1>1, <2>1, ConstantTypes, StartTyped DEF BeginAppend
  <2> QED BY <1>1, <2>2 DEF BeginAppend, TypeOK, store
<1>2. ASSUME NEW p \in Proc, DedupHit(p) PROVE TInv'
  <2>1. req[p].thread \in Thread
    BY <1>2, RequestInPhase DEF DedupHit
  <2>2. \A i \in SameRun(req[p].thread, req[p].msg) : file[req[p].thread][i] \in Msg
    BY <2>1 DEF SameRun, Kept, Intact, TypeOK
  <2>3. acked' \in SUBSET (Thread \X Msg)
    BY <1>2, <2>1, <2>2 DEF DedupHit, TypeOK
  <2>4. Leave(p)
    BY <1>2 DEF DedupHit
  <2> QED BY <1>2, <2>3, <2>4, LeaveTyped DEF DedupHit, TypeOK, store
<1>3. ASSUME NEW p \in Proc, OpenFile(p) PROVE TInv'
  <2>1. req[p].thread \in Thread
    BY <1>3, RequestInPhase DEF OpenFile
  <2>2. snap' \in [Proc -> Snapshot]
    <3>1. snap[p][req[p].thread] \in Entry
      BY <2>1 DEF TypeOK, Snapshot
    <3>2. [snap[p][req[p].thread] EXCEPT !.updated = clock] \in Entry
      BY <3>1, EntryUpdates DEF TypeOK
    <3> QED BY <1>3, <2>1, <3>2, ReviseTyped DEF OpenFile
  <2>3. PhaseOK'
    BY <1>3 DEF OpenFile, Goto, PhaseOK, TypeOK
  <2> QED BY <1>3, <2>2, <2>3 DEF OpenFile, Goto, TypeOK, PC, store
<1>4. ASSUME NEW p \in Proc, OpenFails(p) PROVE TInv'
  BY <1>4, LeaveTyped DEF OpenFails, TypeOK, store
<1>5. ASSUME NEW p \in Proc, WriteLine(p) PROVE TInv'
  <2>1. req[p].thread \in Thread /\ req[p].msg \in Msg
    BY <1>5, RequestInPhase DEF WriteLine
  <2>2. file' \in [Thread -> Seq(Msg \cup {NL})]
    BY <1>5, <2>1 DEF WriteLine, TypeOK
  <2>3. PhaseOK'
    BY <1>5 DEF WriteLine, Goto, PhaseOK, TypeOK
  <2> QED BY <1>5, <2>2, <2>3 DEF WriteLine, Goto, TypeOK, PC
<1>6. ASSUME NEW p \in Proc, WriteNewline(p) PROVE TInv'
  <2>1. req[p].thread \in Thread
    BY <1>6, RequestInPhase DEF WriteNewline
  <2>2. file' \in [Thread -> Seq(Msg \cup {NL})]
    BY <1>6, <2>1 DEF WriteNewline, TypeOK
  <2>3. snap' \in [Proc -> Snapshot]
    <3>1. snap[p][req[p].thread] \in Entry
      BY <2>1 DEF TypeOK, Snapshot
    <3>2. [snap[p][req[p].thread] EXCEPT !.count = @ + 1] \in Entry
      BY <3>1, EntryUpdates DEF TypeOK
    <3> QED BY <1>6, <2>1, <3>2, ReviseTyped DEF WriteNewline
  <2>4. PhaseOK'
    BY <1>6 DEF WriteNewline, Goto, PhaseOK, TypeOK
  <2> QED BY <1>6, <2>2, <2>3, <2>4 DEF WriteNewline, Goto, TypeOK, PC
<1>7. ASSUME NEW p \in Proc, NEW t \in Thread, BeginCreate(p, t) PROVE TInv'
  <2>1. index.threads \in Snapshot
    BY DEF TypeOK, Content
  <2>2. /\ pc' \in [Proc -> PC] /\ req' \in [Proc -> Request]
        /\ snap' \in [Proc -> Snapshot] /\ PhaseOK'
    BY <1>7, <2>1, ConstantTypes, StartTyped DEF BeginCreate
  <2> QED BY <1>7, <2>2 DEF BeginCreate, TypeOK, store
<1>8. ASSUME NEW p \in Proc, CreateFile(p) PROVE TInv'
  <2>1. req[p].thread \in Thread
    BY <1>8, RequestInPhase DEF CreateFile
  <2>2. NewEntry(clock) \in Entry
    BY ConstantTypes DEF TypeOK
  <2>3. snap' \in [Proc -> Snapshot]
    BY <1>8, <2>1, <2>2, ReviseTyped DEF CreateFile
  <2>4. PhaseOK'
    BY <1>8 DEF CreateFile, Goto, PhaseOK, TypeOK
  <2> QED BY <1>8, <2>1, <2>3, <2>4 DEF CreateFile, Goto, TypeOK, PC
<1>9. ASSUME NEW p \in Proc, BeginArchive(p) PROVE TInv'
  <2>1. index.threads \in Snapshot
    BY DEF TypeOK, Content
  <2>2. /\ pc' \in [Proc -> PC] /\ req' \in [Proc -> Request]
        /\ snap' \in [Proc -> Snapshot] /\ PhaseOK'
    BY <1>9, <2>1, ConstantTypes, StartTyped DEF BeginArchive
  <2>3. todo' \in [Proc -> SUBSET Thread]
    BY <1>9 DEF BeginArchive, TypeOK
  <2> QED BY <1>9, <2>2, <2>3 DEF BeginArchive, TypeOK, store
<1>10. ASSUME NEW p \in Proc, NEW t \in Thread, MoveFile(p, t) PROVE TInv'
  <2>1. snap' \in [Proc -> Snapshot]
    <3>1. snap[p][t] \in Entry
      BY DEF TypeOK, Snapshot
    <3>2. [snap[p][t] EXCEPT !.archived = TRUE] \in Entry
      BY <3>1, EntryUpdates DEF TypeOK
    <3> QED BY <1>10, <3>2, ReviseTyped DEF MoveFile
  <2>2. place' \in [Thread -> {"none", "active", "archived"}]
    BY <1>10 DEF MoveFile, TypeOK
  <2>3. PhaseOK'
    BY <1>10 DEF MoveFile, Goto, PhaseOK, TypeOK
  <2> QED BY <1>10, <2>1, <2>2, <2>3 DEF MoveFile, Goto, TypeOK, PC
<1>11. ASSUME NEW p \in Proc, NEW t \in Thread, BeginResume(p, t) PROVE TInv'
  <2>1. index.threads \in Snapshot
    BY DEF TypeOK, Content
  <2>2. /\ pc' \in [Proc -> PC] /\ req' \in [Proc -> Request]
        /\ snap' \in [Proc -> Snapshot] /\ PhaseOK'
    BY <1>11, <2>1, ConstantTypes, StartTyped DEF BeginResume
  <2> QED BY <1>11, <2>2 DEF BeginResume, TypeOK, store
<1>12. ASSUME NEW p \in Proc, Unarchive(p) PROVE TInv'
  <2>1. req[p].thread \in Thread
    BY <1>12, RequestInPhase DEF Unarchive
  <2>2. snap' \in [Proc -> Snapshot]
    <3>1. snap[p][req[p].thread] \in Entry
      BY <2>1 DEF TypeOK, Snapshot
    <3>2. [snap[p][req[p].thread] EXCEPT !.archived = FALSE] \in Entry
      BY <3>1, EntryUpdates DEF TypeOK
    <3> QED BY <1>12, <2>1, <3>2, ReviseTyped DEF Unarchive
  <2>3. place' \in [Thread -> {"none", "active", "archived"}]
    BY <1>12, <2>1 DEF Unarchive, TypeOK
  <2>4. PhaseOK'
    BY <1>12 DEF Unarchive, Goto, PhaseOK, TypeOK
  <2> QED BY <1>12, <2>2, <2>3, <2>4 DEF Unarchive, Goto, TypeOK, PC
<1>13. ASSUME NEW p \in Proc, NEW t \in Thread, BeginSetSession(p, t) PROVE TInv'
  <2>1. [index.threads EXCEPT ![t].session = TRUE] \in Snapshot
    <3>1. index.threads \in Snapshot /\ index.threads[t] \in Entry
      BY DEF TypeOK, Content, Snapshot
    <3>2. [index.threads[t] EXCEPT !.session = TRUE] \in Entry
      BY <3>1, EntryUpdates
    <3> QED BY <3>1, <3>2 DEF Snapshot
  <2>2. /\ pc' \in [Proc -> PC] /\ req' \in [Proc -> Request]
        /\ snap' \in [Proc -> Snapshot] /\ PhaseOK'
    BY <1>13, <2>1, ConstantTypes, StartTyped DEF BeginSetSession
  <2> QED BY <1>13, <2>2 DEF BeginSetSession, TypeOK, store
<1>14. ASSUME NEW p \in Proc, TruncateTmp(p) PROVE TInv'
  <2>1. PhaseOK'
    BY <1>14 DEF TruncateTmp, Goto, PhaseOK, TypeOK
  <2> QED BY <1>14, <2>1, ConstantTypes DEF TruncateTmp, Goto, TypeOK, PC
<1>15. ASSUME NEW p \in Proc, WriteTmp(p) PROVE TInv'
  <2>1. PhaseOK'
    BY <1>15 DEF WriteTmp, Goto, PhaseOK, TypeOK
  <2>2. \A c : Overwrite(c, snap[p]) \subseteq Content
    BY ConstantTypes DEF Overwrite, TypeOK
  <2>3. index' \in Content /\ tmp' \in Content
    BY <1>15, <2>2 DEF WriteTmp, TypeOK
  <2> QED BY <1>15, <2>1, <2>3 DEF WriteTmp, Goto, TypeOK, PC
<1>16. ASSUME NEW p \in Proc, RenameTmp(p) PROVE TInv'
  <2>1. Leave(p)
    BY <1>16 DEF RenameTmp
  <2>2. acked' \in SUBSET (Thread \X Msg)
    <3>1. CASE req[p].op = "append"
      BY <1>16, <3>1, AppendRequest DEF RenameTmp, TypeOK
    <3>2. CASE req[p].op # "append"
      BY <1>16, <3>2 DEF RenameTmp, TypeOK
    <3> QED BY <3>1, <3>2
  <2>3. created' \in SUBSET Thread
    <3>1. CASE req[p].op = "create"
      BY <1>16, <3>1, CreateRequest DEF RenameTmp, TypeOK
    <3>2. CASE req[p].op # "create"
      BY <1>16, <3>2 DEF RenameTmp, TypeOK
    <3> QED BY <3>1, <3>2
  <2>4. fd' \in [Proc -> {"none", "tmp", "index", "gone"}]
    BY <1>16 DEF RenameTmp, Renamed, TypeOK
  <2>5. index' \in Content /\ tmp' \in Content
    BY <1>16, ConstantTypes DEF RenameTmp, TypeOK
  <2> QED BY <1>16, <2>1, <2>2, <2>3, <2>4, <2>5, LeaveTyped DEF RenameTmp, TypeOK
<1>17. ASSUME NEW p \in Proc, RenameFails(p) PROVE TInv'
  BY <1>17, LeaveTyped DEF RenameFails, TypeOK, store
<1>18. CASE Tick
  BY <1>18 DEF Tick, TypeOK, PhaseOK, store, local
<1>19. ASSUME NEW p \in Proc, Crash(p) PROVE TInv'
  BY <1>19, LeaveTyped DEF Crash, TypeOK, store
<1>20. CASE UNCHANGED vars
  BY <1>20 DEF vars, TypeOK, PhaseOK
<1> QED BY <1>1, <1>2, <1>3, <1>4, <1>5, <1>6, <1>7, <1>8, <1>9, <1>10, <1>11, <1>12,
          <1>13, <1>14, <1>15, <1>16, <1>17, <1>18, <1>19, <1>20
       DEF Next, AppendStep, ThreadStep, PublishStep

\* Every reachable state is well typed (conversation.rs:86-107).
THEOREM TypeCorrect == Spec => []TypeOK
<1>1. Spec => []TInv
  BY InitTyped, StepTyped, PTL DEF Spec
<1>2. TInv => TypeOK
  BY DEF TInv
<1> QED BY <1>1, <1>2, PTL

-----------------------------------------------------------------------------
(* What one step does to the store, whatever its action: files only grow,  *)
(* each by one chunk; no file is deleted; and a published entry comes from *)
(* a snapshot, which comes from the index.                                 *)

FilesGrow ==
  \A t \in Thread : \/ file'[t] = file[t]
                    \/ \E x \in Msg \cup {NL} : file'[t] = Append(file[t], x)

FilesStay == \A t \in Thread : place[t] # "none" => place'[t] # "none"

Sources == {index.threads, tmp.threads, NoThreads} \cup {snap[p] : p \in Proc}

PublishedFrom == index'.threads \in Sources /\ tmp'.threads \in Sources

EntryFrom(p, t) ==
  /\ \/ snap'[p][t].count \in {0, snap[p][t].count, index.threads[t].count}
     \/ /\ pc[p] = "newline" /\ t = req[p].thread
        /\ snap'[p][t].count = snap[p][t].count + 1
  /\ snap'[p][t].listed =>
       snap[p][t].listed \/ index.threads[t].listed \/ place'[t] # "none"

Effect ==
  /\ FilesGrow /\ FilesStay /\ PublishedFrom
  /\ \A p \in Proc, t \in Thread : EntryFrom(p, t)

LEMMA SnapUntouched ==
  ASSUME UNCHANGED snap PROVE \A p \in Proc, t \in Thread : EntryFrom(p, t)
BY DEF EntryFrom

LEMMA SnapLeft ==
  ASSUME TypeOK, NEW p \in Proc, Leave(p)
  PROVE  \A q \in Proc, t \in Thread : EntryFrom(q, t)
BY DEF EntryFrom, Leave, NoThreads, Unlisted, TypeOK

LEMMA SnapStarted ==
  ASSUME TypeOK, NEW p \in Proc, NEW r, NEW s, NEW next, Start(p, r, s, next),
         \A t \in Thread : /\ s[t].count = index.threads[t].count
                           /\ s[t].listed = index.threads[t].listed
  PROVE  \A q \in Proc, t \in Thread : EntryFrom(q, t)
BY DEF EntryFrom, Start, TypeOK

LEMMA SnapRevised ==
  ASSUME TypeOK, NEW p \in Proc, NEW u \in Thread, NEW e, Revise(p, u, e),
         \/ e.count \in {0, snap[p][u].count}
         \/ pc[p] = "newline" /\ u = req[p].thread /\ e.count = snap[p][u].count + 1,
         e.listed => snap[p][u].listed \/ place'[u] # "none"
  PROVE  \A q \in Proc, t \in Thread : EntryFrom(q, t)
BY DEF EntryFrom, Revise, TypeOK, Snapshot

LEMMA StepEffect == TInv /\ [Next]_vars => Effect
<1> SUFFICES ASSUME TInv, [Next]_vars PROVE Effect
  OBVIOUS
<1> USE DEF TInv
<1>0. ASSUME UNCHANGED store PROVE FilesGrow /\ FilesStay /\ PublishedFrom
  BY <1>0 DEF store, FilesGrow, FilesStay, PublishedFrom, Sources
<1>1. ASSUME NEW p \in Proc, NEW t \in Thread, NEW m \in Msg, BeginAppend(p, t, m)
      PROVE  Effect
  BY <1>0, <1>1, SnapStarted DEF BeginAppend, Effect
<1>2. ASSUME NEW p \in Proc, DedupHit(p) PROVE Effect
  BY <1>0, <1>2, SnapLeft DEF DedupHit, Effect
<1>3. ASSUME NEW p \in Proc, OpenFile(p) PROVE Effect
  <2> DEFINE u == req[p].thread
             e == [snap[p][u] EXCEPT !.updated = clock]
  <2>1. u \in Thread /\ snap[p][u] \in Entry
    BY <1>3, RequestInPhase DEF OpenFile, TypeOK, Snapshot
  <2>2. e.count = snap[p][u].count /\ e.listed = snap[p][u].listed /\ Revise(p, u, e)
    BY <1>3, <2>1 DEF OpenFile, Entry
  <2>3. \A q \in Proc, t \in Thread : EntryFrom(q, t)
    BY <2>1, <2>2, SnapRevised
  <2> QED BY <1>0, <1>3, <2>3 DEF OpenFile, Effect
<1>4. ASSUME NEW p \in Proc, OpenFails(p) PROVE Effect
  BY <1>0, <1>4, SnapLeft DEF OpenFails, Effect
<1>5. ASSUME NEW p \in Proc, WriteLine(p) PROVE Effect
  <2>1. req[p].thread \in Thread /\ req[p].msg \in Msg
    BY <1>5, RequestInPhase DEF WriteLine
  <2>2. FilesGrow
    BY <1>5, <2>1 DEF WriteLine, FilesGrow, TypeOK
  <2> QED BY <1>5, <2>2, SnapUntouched
          DEF WriteLine, Effect, FilesStay, PublishedFrom, Sources
<1>6. ASSUME NEW p \in Proc, WriteNewline(p) PROVE Effect
  <2> DEFINE u == req[p].thread
             e == [snap[p][u] EXCEPT !.count = @ + 1]
  <2>1. u \in Thread /\ snap[p][u] \in Entry
    BY <1>6, RequestInPhase DEF WriteNewline, TypeOK, Snapshot
  <2>2. /\ e.count = snap[p][u].count + 1 /\ e.listed = snap[p][u].listed
        /\ Revise(p, u, e) /\ pc[p] = "newline"
    BY <1>6, <2>1 DEF WriteNewline, Entry
  <2>3. \A q \in Proc, t \in Thread : EntryFrom(q, t)
    BY <2>1, <2>2, SnapRevised
  <2>4. FilesGrow
    BY <1>6, <2>1 DEF WriteNewline, FilesGrow, TypeOK
  <2> QED BY <1>6, <2>3, <2>4
          DEF WriteNewline, Effect, FilesStay, PublishedFrom, Sources
<1>7. ASSUME NEW p \in Proc, NEW t \in Thread, BeginCreate(p, t) PROVE Effect
  BY <1>0, <1>7, SnapStarted DEF BeginCreate, Effect
<1>8. ASSUME NEW p \in Proc, CreateFile(p) PROVE Effect
  <2> DEFINE u == req[p].thread
  <2>1. u \in Thread
    BY <1>8, RequestInPhase DEF CreateFile
  <2>2. FilesStay /\ place'[u] # "none"
    BY <1>8, <2>1 DEF CreateFile, FilesStay, TypeOK
  <2>3. NewEntry(clock).count = 0 /\ Revise(p, u, NewEntry(clock))
    BY <1>8 DEF CreateFile, NewEntry, Unlisted
  <2>4. \A q \in Proc, t \in Thread : EntryFrom(q, t)
    BY <2>1, <2>2, <2>3, SnapRevised
  <2> QED BY <1>8, <2>2, <2>4 DEF CreateFile, Effect, FilesGrow, PublishedFrom, Sources
<1>9. ASSUME NEW p \in Proc, BeginArchive(p) PROVE Effect
  BY <1>0, <1>9, SnapStarted DEF BeginArchive, Effect
<1>10. ASSUME NEW p \in Proc, NEW u \in Thread, MoveFile(p, u) PROVE Effect
  <2> DEFINE e == [snap[p][u] EXCEPT !.archived = TRUE]
  <2>1. snap[p][u] \in Entry
    BY DEF TypeOK, Snapshot
  <2>2. e.count = snap[p][u].count /\ e.listed = snap[p][u].listed /\ Revise(p, u, e)
    BY <1>10, <2>1 DEF MoveFile, Entry
  <2>3. \A q \in Proc, t \in Thread : EntryFrom(q, t)
    BY <2>1, <2>2, SnapRevised
  <2>4. FilesStay
    BY <1>10 DEF MoveFile, FilesStay, TypeOK
  <2> QED BY <1>10, <2>3, <2>4 DEF MoveFile, Effect, FilesGrow, PublishedFrom, Sources
<1>11. ASSUME NEW p \in Proc, NEW t \in Thread, BeginResume(p, t) PROVE Effect
  BY <1>0, <1>11, SnapStarted DEF BeginResume, Effect
<1>12. ASSUME NEW p \in Proc, Unarchive(p) PROVE Effect
  <2> DEFINE u == req[p].thread
             e == [snap[p][u] EXCEPT !.archived = FALSE]
  <2>1. u \in Thread /\ snap[p][u] \in Entry
    BY <1>12, RequestInPhase DEF Unarchive, TypeOK, Snapshot
  <2>2. e.count = snap[p][u].count /\ e.listed = snap[p][u].listed /\ Revise(p, u, e)
    BY <1>12, <2>1 DEF Unarchive, Entry
  <2>3. \A q \in Proc, t \in Thread : EntryFrom(q, t)
    BY <2>1, <2>2, SnapRevised
  <2>4. FilesStay
    BY <1>12, <2>1 DEF Unarchive, FilesStay, TypeOK
  <2> QED BY <1>12, <2>3, <2>4 DEF Unarchive, Effect, FilesGrow, PublishedFrom, Sources
<1>13. ASSUME NEW p \in Proc, NEW u \in Thread, BeginSetSession(p, u) PROVE Effect
  <2> DEFINE s == [index.threads EXCEPT ![u].session = TRUE]
  <2>1. \A t \in Thread : /\ s[t].count = index.threads[t].count
                          /\ s[t].listed = index.threads[t].listed
    BY DEF TypeOK, Content, Snapshot, Entry
  <2>2. \A q \in Proc, t \in Thread : EntryFrom(q, t)
    BY <1>13, <2>1, SnapStarted DEF BeginSetSession
  <2> QED BY <1>0, <1>13, <2>2 DEF BeginSetSession, Effect
<1>14. ASSUME NEW p \in Proc, TruncateTmp(p) PROVE Effect
  BY <1>14, SnapUntouched
  DEF TruncateTmp, Empty, Effect, FilesGrow, FilesStay, PublishedFrom, Sources
<1>15. ASSUME NEW p \in Proc, WriteTmp(p) PROVE Effect
  <2>1. \A c : \A d \in Overwrite(c, snap[p]) : d.threads \in Sources
    BY DEF Overwrite, Json, Mixed, Sources
  <2>2. PublishedFrom
    BY <1>15, <2>1 DEF WriteTmp, PublishedFrom, Sources
  <2> QED BY <1>15, <2>2, SnapUntouched DEF WriteTmp, Effect, FilesGrow, FilesStay
<1>16. ASSUME NEW p \in Proc, RenameTmp(p) PROVE Effect
  <2>1. PublishedFrom
    BY <1>16 DEF RenameTmp, Missing, PublishedFrom, Sources
  <2> QED BY <1>16, <2>1, SnapLeft DEF RenameTmp, Effect, FilesGrow, FilesStay
<1>17. ASSUME NEW p \in Proc, RenameFails(p) PROVE Effect
  BY <1>0, <1>17, SnapLeft DEF RenameFails, Effect
<1>18. CASE Tick
  BY <1>0, <1>18, SnapUntouched DEF Tick, local, Effect
<1>19. ASSUME NEW p \in Proc, Crash(p) PROVE Effect
  BY <1>0, <1>19, SnapLeft DEF Crash, Effect
<1>20. CASE UNCHANGED vars
  BY <1>0, <1>20, SnapUntouched DEF vars, store, Effect
<1> QED BY <1>1, <1>2, <1>3, <1>4, <1>5, <1>6, <1>7, <1>8, <1>9, <1>10, <1>11, <1>12,
          <1>13, <1>14, <1>15, <1>16, <1>17, <1>18, <1>19, <1>20
       DEF Next, AppendStep, ThreadStep, PublishStep

-----------------------------------------------------------------------------
(* Indexed threads have files.  The index may be any process's snapshot,   *)
(* so the invariant speaks of every copy of the index.                     *)

FilesInv ==
  \A t \in Thread :
    /\ index.threads[t].listed => place[t] # "none"
    /\ tmp.threads[t].listed => place[t] # "none"
    /\ \A p \in Proc : snap[p][t].listed => place[t] # "none"

LEMMA InitFiles == Init => FilesInv
BY DEF Init, FilesInv, Missing, NoThreads, Unlisted

LEMMA StepFiles == FilesInv /\ Effect => FilesInv'
<1> SUFFICES ASSUME FilesInv, Effect PROVE FilesInv'
  OBVIOUS
<1>1. \A s \in Sources, t \in Thread : s[t].listed => place'[t] # "none"
  BY DEF FilesInv, Effect, FilesStay, Sources, NoThreads, Unlisted
<1>2. \A p \in Proc, t \in Thread : snap'[p][t].listed => place'[t] # "none"
  BY DEF FilesInv, Effect, FilesStay, EntryFrom
<1> QED BY <1>1, <1>2 DEF Effect, PublishedFrom, FilesInv

\* Indexed threads have a file, after any crashes and in any interleaving
\* (conversation.rs:201-212, 315-325).
THEOREM FilesForEntries == Spec => []EntriesHaveFiles
<1>1. TInv /\ FilesInv /\ [Next]_vars => FilesInv'
  BY StepEffect, StepFiles
<1>2. Spec => [](TInv /\ FilesInv)
  BY <1>1, InitTyped, StepTyped, InitFiles, PTL DEF Spec
<1>3. FilesInv => EntriesHaveFiles
  BY DEF FilesInv, EntriesHaveFiles
<1> QED BY <1>2, <1>3, PTL

-----------------------------------------------------------------------------
(* Counting.  A snapshot read before an append of another process is       *)
(* behind the file, never ahead of it; between a process's own write and   *)
(* its increment the file is ahead of the snapshot by at least one.        *)

Written(t) == Cardinality(Lines(file[t]))

CountInv ==
  /\ \A t \in Thread : /\ index.threads[t].count <= Written(t)
                       /\ tmp.threads[t].count <= Written(t)
                       /\ \A p \in Proc : snap[p][t].count <= Written(t)
  /\ \A p \in Proc : pc[p] = "newline" =>
       snap[p][req[p].thread].count + 1 <= Written(req[p].thread)

\* Appending a chunk to a file adds at most the line it is.
LEMMA LinesGrow ==
  ASSUME NEW f \in Seq(Msg \cup {NL}), NEW x \in Msg \cup {NL}
  PROVE  /\ Cardinality(Lines(f)) \in Nat
         /\ Cardinality(Lines(Append(f, x))) \in Nat
         /\ Cardinality(Lines(f)) <= Cardinality(Lines(Append(f, x)))
         /\ x # NL => Cardinality(Lines(Append(f, x))) = Cardinality(Lines(f)) + 1
<1>1. IsFiniteSet(Lines(f))
  <2>1. IsFiniteSet(1 .. Len(f)) /\ Lines(f) \in SUBSET (1 .. Len(f))
    BY FS_Interval DEF Lines
  <2> QED BY <2>1, FS_Subset
<1>2. Lines(Append(f, x)) = IF x = NL THEN Lines(f) ELSE Lines(f) \cup {Len(f) + 1}
  BY DEF Lines
<1>3. Len(f) + 1 \notin Lines(f)
  BY DEF Lines
<1>4. Cardinality(Lines(f)) \in Nat
  BY <1>1, FS_CardinalityType
<1>5. Cardinality(Lines(f) \cup {Len(f) + 1}) = Cardinality(Lines(f)) + 1
  BY <1>1, <1>3, FS_AddElement
<1> QED BY <1>2, <1>4, <1>5

LEMMA WrittenGrows ==
  ASSUME TypeOK, FilesGrow
  PROVE  \A t \in Thread : /\ Written(t) \in Nat /\ Written(t)' \in Nat
                           /\ Written(t) <= Written(t)'
<1> SUFFICES ASSUME NEW t \in Thread
             PROVE  /\ Written(t) \in Nat /\ Written(t)' \in Nat
                    /\ Written(t) <= Written(t)'
  OBVIOUS
<1>1. file[t] \in Seq(Msg \cup {NL})
  BY DEF TypeOK
<1>2. CASE file'[t] = file[t]
  BY <1>1, <1>2, LinesGrow DEF Written
<1>3. ASSUME NEW x \in Msg \cup {NL}, file'[t] = Append(file[t], x)
      PROVE  /\ Written(t) \in Nat /\ Written(t)' \in Nat
             /\ Written(t) <= Written(t)'
  BY <1>1, <1>3, LinesGrow DEF Written
<1> QED BY <1>2, <1>3 DEF FilesGrow

LEMMA InitCounts == Init => CountInv
<1> SUFFICES ASSUME Init PROVE CountInv
  OBVIOUS
<1>1. \A t \in Thread : Lines(file[t]) = {}
  BY DEF Init, Lines
<1>2. \A t \in Thread : Written(t) = 0
  BY <1>1, FS_EmptySet DEF Written
<1> QED BY <1>2 DEF Init, CountInv, Missing, NoThreads, Unlisted

LEMMA StepCounts == TInv /\ TInv' /\ CountInv /\ [Next]_vars /\ Effect => CountInv'
<1> SUFFICES ASSUME TInv, TInv', CountInv, [Next]_vars, Effect PROVE CountInv'
  OBVIOUS
<1>1. \A t \in Thread : /\ Written(t) \in Nat /\ Written(t)' \in Nat
                        /\ Written(t) <= Written(t)'
  BY WrittenGrows DEF TInv, Effect
<1>2. \A s \in Sources, t \in Thread : s[t].count \in Nat /\ s[t].count <= Written(t)'
  <2> SUFFICES ASSUME NEW s \in Sources, NEW t \in Thread
               PROVE  s[t].count \in Nat /\ s[t].count <= Written(t)'
    OBVIOUS
  <2>1. s[t].count \in Nat
    <3>1. s \in Snapshot
      BY ConstantTypes DEF Sources, TInv, TypeOK, Content
    <3> QED BY <3>1 DEF Snapshot, Entry
  <2>2. s[t].count <= Written(t)
    BY <1>1 DEF CountInv, Sources, NoThreads, Unlisted
  <2> QED BY <1>1, <2>1, <2>2
<1>3. \A p \in Proc, t \in Thread : snap'[p][t].count <= Written(t)'
  <2> SUFFICES ASSUME NEW p \in Proc, NEW t \in Thread
               PROVE  snap'[p][t].count <= Written(t)'
    OBVIOUS
  <2>1. snap[p] \in Sources /\ index.threads \in Sources
    BY DEF Sources
  <2>2. CASE snap'[p][t].count \in {0, snap[p][t].count, index.threads[t].count}
    BY <1>1, <1>2, <2>1, <2>2
  <2>3. CASE /\ pc[p] = "newline" /\ t = req[p].thread
             /\ snap'[p][t].count = snap[p][t].count + 1
    <3>1. snap[p][t].count + 1 <= Written(t)
      BY <2>3 DEF CountInv
    <3> QED BY <1>1, <1>2, <2>1, <2>3, <3>1
  <2> QED BY <2>2, <2>3 DEF Effect, EntryFrom
<1>4. ASSUME NEW p \in Proc, pc'[p] = "newline"
      PROVE  (snap[p][req[p].thread].count + 1 <= Written(req[p].thread))'
  <2> DEFINE t == req[p].thread
  <2>0. ASSUME req'[p] = req[p] PROVE Written(req[p].thread)' = Cardinality(Lines(file'[t]))
    BY <2>0 DEF Written
  <2>1. CASE WriteLine(p)
    <3>1. t \in Thread /\ req[p].msg \in Msg
      BY <2>1, RequestInPhase DEF WriteLine, TInv
    <3>2. file'[t] = Append(file[t], req[p].msg) /\ file[t] \in Seq(Msg \cup {NL})
      BY <2>1, <3>1 DEF WriteLine, TInv, TypeOK
    <3>3. Cardinality(Lines(file'[t])) = Written(t) + 1 /\ Written(t) \in Nat
      <4>1. req[p].msg # NL /\ req[p].msg \in Msg \cup {NL}
        BY <3>1, MsgAssumption
      <4>2. /\ Cardinality(Lines(Append(file[t], req[p].msg))) = Cardinality(Lines(file[t])) + 1
            /\ Cardinality(Lines(file[t])) \in Nat
        BY <3>2, <4>1, LinesGrow
      <4> QED BY <3>2, <4>2 DEF Written
    <3>4. snap[p][t].count \in Nat /\ snap[p][t].count <= Written(t)
      BY <3>1 DEF CountInv, TInv, TypeOK, Snapshot, Entry
    <3> QED BY <2>0, <2>1, <3>1, <3>3, <3>4 DEF WriteLine
  <2>2. CASE ~WriteLine(p)
    <3>1. pc[p] = "newline" /\ req'[p] = req[p] /\ snap'[p] = snap[p]
      <4> USE <1>4, <2>2 DEF TInv, TypeOK
      <4>1. ASSUME NEW q \in Proc, AppendStep(q)
            PROVE  pc[p] = "newline" /\ req'[p] = req[p] /\ snap'[p] = snap[p]
        BY <4>1 DEF AppendStep, BeginAppend, DedupHit, OpenFile, OpenFails, WriteLine,
                    WriteNewline, Start, Leave, Goto, Revise
      <4>2. ASSUME NEW q \in Proc, ThreadStep(q)
            PROVE  pc[p] = "newline" /\ req'[p] = req[p] /\ snap'[p] = snap[p]
        BY <4>2 DEF ThreadStep, BeginCreate, MoveFile, BeginResume, BeginSetSession,
                    CreateFile, BeginArchive, Unarchive, Start, Goto, Revise
      <4>3. ASSUME NEW q \in Proc, PublishStep(q) \/ Crash(q)
            PROVE  pc[p] = "newline" /\ req'[p] = req[p] /\ snap'[p] = snap[p]
        BY <4>3 DEF PublishStep, TruncateTmp, WriteTmp, RenameTmp, RenameFails, Crash,
                    Leave, Goto
      <4>4. CASE Tick \/ UNCHANGED vars
        BY <4>4 DEF Tick, vars, local
      <4> QED BY <4>1, <4>2, <4>3, <4>4 DEF Next
    <3>2. t \in Thread
      BY <3>1, RequestInPhase DEF TInv
    <3>3. snap[p][t].count \in Nat /\ snap[p][t].count + 1 <= Written(t)
      BY <3>1, <3>2 DEF CountInv, TInv, TypeOK, Snapshot, Entry
    <3>4. Written(t) \in Nat /\ Cardinality(Lines(file'[t])) \in Nat
          /\ Written(t) <= Cardinality(Lines(file'[t]))
      <4>1. \A u \in Thread : Written(u)' = Cardinality(Lines(file'[u]))
        BY DEF Written
      <4> QED BY <1>1, <3>2, <4>1
    <3> QED BY <2>0, <3>1, <3>2, <3>3, <3>4
  <2> QED BY <2>1, <2>2
<1>5. \A t \in Thread : /\ index'.threads[t].count <= Written(t)'
                        /\ tmp'.threads[t].count <= Written(t)'
  BY <1>2 DEF Effect, PublishedFrom
<1> QED
  <2>1. \A p \in Proc : pc'[p] = "newline" =>
          (snap[p][req[p].thread].count + 1 <= Written(req[p].thread))'
    BY <1>4
  <2> QED BY <1>3, <1>5, <2>1 DEF CountInv

\* message_count never exceeds the messages in the file, however many stale
\* snapshots are published over newer ones (conversation.rs:270-272).
THEOREM CountNeverAhead == Spec => []CountBounded
<1>1. TInv /\ CountInv /\ [Next]_vars => CountInv'
  BY StepTyped, StepEffect, StepCounts
<1>2. Spec => [](TInv /\ CountInv)
  BY <1>1, InitTyped, StepTyped, InitCounts, PTL DEF Spec
<1>3. CountInv => CountBounded
  BY DEF CountInv, CountBounded, Written
<1> QED BY <1>2, <1>3, PTL

-----------------------------------------------------------------------------
(* Acknowledged messages.                                                  *)

InFile(t, m) == \E i \in DOMAIN file[t] : file[t][i] = m

AckInv ==
  /\ \A a \in acked : InFile(a[1], a[2])
  /\ \A p \in Proc :
       req[p].op = "append" /\ pc[p] \in {"newline", "trunc", "write", "rename"} =>
         InFile(req[p].thread, req[p].msg)

LEMMA InFileStays ==
  ASSUME TypeOK, FilesGrow, NEW t \in Thread, NEW m, InFile(t, m)
  PROVE  InFile(t, m)'
<1>1. file[t] \in Seq(Msg \cup {NL})
  BY DEF TypeOK
<1>2. CASE file'[t] = file[t]
  BY <1>2 DEF InFile
<1>3. ASSUME NEW x \in Msg \cup {NL}, file'[t] = Append(file[t], x) PROVE InFile(t, m)'
  BY <1>1, <1>3 DEF InFile
<1> QED BY <1>2, <1>3 DEF FilesGrow

LEMMA InitAcks == Init => AckInv
BY DEF Init, AckInv, Idle

LEMMA StepAcks == TInv /\ AckInv /\ [Next]_vars /\ Effect => AckInv'
<1> SUFFICES ASSUME TInv, AckInv, [Next]_vars, Effect PROVE AckInv'
  OBVIOUS
<1> USE DEF TInv
<1>1. \A t \in Thread : \A m : InFile(t, m) => InFile(t, m)'
  BY InFileStays DEF Effect
<1>2. \A a \in acked : InFile(a[1], a[2])'
  BY <1>1 DEF AckInv, TypeOK
\* A process past its write was so before, unless it has just written.
<1> DEFINE Past(p) == /\ req[p].op = "append"
                      /\ pc[p] \in {"newline", "trunc", "write", "rename"}
<1>3. ASSUME NEW q \in Proc, AppendStep(q) \/ ThreadStep(q) \/ PublishStep(q) \/ Crash(q),
             ~WriteLine(q), NEW p \in Proc, Past(p)'
      PROVE  Past(p) /\ req'[p] = req[p]
  <2> USE <1>3 DEF TypeOK
  <2>1. CASE AppendStep(q)
    BY <2>1 DEF AppendStep, BeginAppend, DedupHit, OpenFile, OpenFails,
                WriteNewline, Start, Leave, Goto, Idle
  <2>2. CASE ThreadStep(q)
    <3>1. CASE \E t \in Thread : BeginCreate(q, t) \/ BeginResume(q, t) \/ BeginSetSession(q, t)
      BY <3>1 DEF BeginCreate, BeginResume, BeginSetSession, Start, ThreadOp
    <3>2. CASE BeginArchive(q)
      BY <3>2 DEF BeginArchive, Start, ArchiveOp
    <3>3. CASE CreateFile(q) \/ Unarchive(q)
      BY <3>3, RequestInPhase DEF CreateFile, Unarchive, Goto
    <3>4. CASE \E t \in Thread : MoveFile(q, t)
      BY <3>4 DEF MoveFile, Goto, PhaseOK, ArchiveOp
    <3> QED BY <2>2, <3>1, <3>2, <3>3, <3>4 DEF ThreadStep
  <2>3. CASE PublishStep(q) \/ Crash(q)
    BY <2>3 DEF PublishStep, TruncateTmp, WriteTmp, RenameTmp, RenameFails, Crash,
                Leave, Goto, Idle
  <2> QED BY <2>1, <2>2, <2>3
<1>4. ASSUME NEW p \in Proc, Past(p)'
      PROVE  InFile(req[p].thread, req[p].msg)'
  <2>1. CASE \E q \in Proc : WriteLine(q)
    <3>1. PICK q \in Proc : WriteLine(q)
      BY <2>1
    <3>2. req[q].thread \in Thread /\ req[q].msg \in Msg /\ req' = req
      BY <3>1, RequestInPhase DEF WriteLine
    <3>3. CASE p = q
      <4>1. file'[req[p].thread] = Append(file[req[p].thread], req[p].msg)
        BY <3>1, <3>2, <3>3 DEF WriteLine, TypeOK
      <4>2. file[req[p].thread] \in Seq(Msg \cup {NL})
        BY <3>2, <3>3 DEF TypeOK
      <4>3. \E i \in DOMAIN file'[req[p].thread] : file'[req[p].thread][i] = req[p].msg
        <5> DEFINE f == file[req[p].thread]
                   n == Len(f) + 1
        <5>1. n \in DOMAIN Append(f, req[p].msg) /\ Append(f, req[p].msg)[n] = req[p].msg
          BY <4>2, <3>2, <3>3
        <5> QED BY <4>1, <5>1
      <4> QED BY <3>2, <4>3 DEF InFile
    <3>4. CASE p # q
      <4>1. Past(p)
        BY <1>4, <3>1, <3>2, <3>4 DEF WriteLine, Goto, TypeOK
      <4>2. InFile(req[p].thread, req[p].msg) /\ req[p].thread \in Thread
        BY <4>1, AppendRequest DEF AckInv, TypeOK
      <4> QED BY <1>1, <3>2, <4>2 DEF InFile
    <3> QED BY <3>3, <3>4
  <2>2. CASE \A q \in Proc : ~WriteLine(q)
    <3>1. Past(p) /\ req'[p] = req[p]
      BY <1>3, <1>4, <2>2 DEF Next, Tick, vars, local
    <3>2. InFile(req[p].thread, req[p].msg) /\ req[p].thread \in Thread
      BY <3>1, AppendRequest DEF AckInv, TypeOK
    <3> QED BY <1>1, <3>1, <3>2 DEF InFile
  <2> QED BY <2>1, <2>2
<1>5. ASSUME NEW a \in acked' \ acked PROVE InFile(a[1], a[2])'
  <2>1. ASSUME NEW p \in Proc, DedupHit(p) PROVE InFile(a[1], a[2])'
    <3>1. PICK i \in SameRun(req[p].thread, req[p].msg) :
            a = <<req[p].thread, file[req[p].thread][i]>>
      BY <1>5, <2>1 DEF DedupHit
    <3>2. req[p].thread \in Thread
      BY <2>1, RequestInPhase DEF DedupHit
    <3>3. InFile(a[1], a[2])
      BY <3>1 DEF InFile, SameRun, Kept, Intact
    <3> QED BY <1>1, <3>1, <3>2, <3>3
  <2>2. ASSUME NEW p \in Proc, RenameTmp(p) PROVE InFile(a[1], a[2])'
    <3>1. req[p].op = "append" /\ a = <<req[p].thread, req[p].msg>>
      BY <1>5, <2>2 DEF RenameTmp
    <3>2. Past(p) /\ req[p].thread \in Thread
      BY <2>2, <3>1, AppendRequest DEF RenameTmp, TypeOK
    <3>3. InFile(a[1], a[2])
      BY <3>1, <3>2 DEF AckInv
    <3> QED BY <1>1, <3>1, <3>2, <3>3
  <2>3. \E p \in Proc : DedupHit(p) \/ RenameTmp(p)
    BY <1>5 DEF Next, AppendStep, ThreadStep, PublishStep, BeginAppend, OpenFile, OpenFails,
         WriteLine, WriteNewline, BeginCreate, MoveFile, BeginResume, BeginSetSession,
         CreateFile, BeginArchive, Unarchive, TruncateTmp, WriteTmp, RenameFails, Crash,
         Tick, vars
  <2> QED BY <2>1, <2>2, <2>3
<1>6. \A a \in acked' : InFile(a[1], a[2])'
  BY <1>2, <1>5
<1>7. \A p \in Proc : Past(p)' => InFile(req[p].thread, req[p].msg)'
  BY <1>4
<1> QED BY <1>6, <1>7 DEF AckInv

\* A message append_message acknowledged is in its thread's file for good,
\* whatever moves or crashes follow (conversation.rs:266-274).
THEOREM AcksInFile == Spec => []AckedInFile
<1>1. TInv /\ AckInv /\ [Next]_vars => AckInv'
  BY StepEffect, StepAcks
<1>2. Spec => [](TInv /\ AckInv)
  BY <1>1, InitTyped, StepTyped, InitAcks, PTL DEF Spec
<1>3. AckInv => AckedInFile
  BY DEF AckInv, AckedInFile, InFile
<1> QED BY <1>2, <1>3, PTL

-----------------------------------------------------------------------------
(* What a reader sees of a file that grows.                                *)

\* One more chunk leaves the ended lines that are shown as they are, and the
\* line it may end is the last one.
LEMMA CommittedAppend ==
  ASSUME NEW f \in Seq(Msg \cup {NL}), NEW x \in Msg \cup {NL}
  PROVE  LET g == Append(f, x) IN
         /\ Committed(f) \subseteq Committed(g)
         /\ \A i \in Committed(f) : g[i] = f[i]
         /\ \A i \in Committed(f) : \A j \in Committed(g) \ Committed(f) : i < j
<1> DEFINE g == Append(f, x)
<1>1. /\ g \in Seq(Msg \cup {NL}) /\ Len(f) \in Nat /\ Len(g) = Len(f) + 1
      /\ \A i \in 1 .. Len(f) : g[i] = f[i]
  OBVIOUS
<1>2. /\ DOMAIN f = 1 .. Len(f) /\ DOMAIN g = 1 .. Len(g)
  BY <1>1
<1>3. \A i : i < Len(f) /\ i \in DOMAIN f => (i \in Intact(f) <=> i \in Intact(g))
  BY <1>1, <1>2 DEF Intact
<1>4. \A i \in DOMAIN f : i < Len(f) => (i \in Kept(f) <=> i \in Kept(g))
  <2> SUFFICES ASSUME NEW i \in DOMAIN f, i < Len(f) PROVE i \in Kept(f) <=> i \in Kept(g)
    OBVIOUS
  <2>1. i \in Intact(f) <=> i \in Intact(g)
    BY <1>3
  <2>2. RunAt(f, i) = RunAt(g, i)
    BY <1>1, <1>2 DEF RunAt
  <2>3. \A j : j < i => (j \in Intact(f) <=> j \in Intact(g))
    BY <1>1, <1>2, <1>3 DEF Intact
  <2>4. \A j \in Intact(f) : j < i => RunAt(f, j) = RunAt(g, j)
    BY <1>1, <1>2 DEF RunAt, Intact
  <2> QED BY <2>1, <2>2, <2>3, <2>4 DEF Kept
<1>5. Committed(f) = {i \in Committed(g) : i < Len(f)}
  <2>1. \A i \in Kept(f) : i \in DOMAIN f
    BY DEF Kept, Intact
  <2>2. \A i \in Kept(g) : i < Len(f) => i \in DOMAIN f
    BY <1>1, <1>2 DEF Kept, Intact
  <2>3. \A i \in DOMAIN f : i < Len(f) => i < Len(g)
    BY <1>1, <1>2
  <2> QED BY <1>4, <2>1, <2>2, <2>3 DEF Committed
<1>6. \A j \in Committed(g) : j \in Nat /\ (j < Len(f) \/ j = Len(f))
  BY <1>1, <1>2 DEF Committed, Kept, Intact
<1>7. \A i \in Committed(f) : i \in DOMAIN f
  BY DEF Committed, Kept, Intact
<1> QED BY <1>1, <1>2, <1>5, <1>6, <1>7

\* The lines shown to pollers only ever grow at their end
\* (conversation.rs:266-268 with 500-530).
THEOREM ReadersOnlySeeGrowth == Spec => CommittedGrows
<1>1. TInv /\ [Next]_vars =>
        [\A t \in Thread :
           /\ Committed(file[t]) \subseteq Committed(file'[t])
           /\ \A i \in Committed(file[t]) : file'[t][i] = file[t][i]
           /\ \A i \in Committed(file[t]) :
                \A j \in Committed(file'[t]) \ Committed(file[t]) : i < j]_vars
  <2> SUFFICES ASSUME TInv, [Next]_vars, NEW t \in Thread
               PROVE  /\ Committed(file[t]) \subseteq Committed(file'[t])
                      /\ \A i \in Committed(file[t]) : file'[t][i] = file[t][i]
                      /\ \A i \in Committed(file[t]) :
                           \A j \in Committed(file'[t]) \ Committed(file[t]) : i < j
    OBVIOUS
  <2>1. FilesGrow /\ file[t] \in Seq(Msg \cup {NL})
    BY StepEffect DEF Effect, TInv, TypeOK
  <2>2. CASE file'[t] = file[t]
    BY <2>2
  <2>3. CASE \E x \in Msg \cup {NL} : file'[t] = Append(file[t], x)
    BY <2>1, <2>3, CommittedAppend, ZenonT(40)
  <2> QED BY <2>1, <2>2, <2>3 DEF FilesGrow
<1>2. Spec => []TInv
  BY InitTyped, StepTyped, PTL DEF Spec
<1> QED BY <1>1, <1>2, PTL DEF Spec, CommittedGrows

\* Of the lines of one run, read_jsonl keeps one, the first.
LEMMA OneLineKept ==
  ASSUME NEW f \in Seq(Msg \cup {NL}), NEW i \in Intact(f), RunAt(f, i) # NoRun
  PROVE  \E k \in Kept(f) : RunAt(f, k) = RunAt(f, i)
<1> DEFINE r == RunAt(f, i)
           S == {k \in Intact(f) : RunAt(f, k) = r}
<1>1. S \subseteq Nat /\ S # {}
  BY DEF Intact
<1>2. PICK first \in S : \A k \in S : first <= k
  <2> DEFINE R == OpToRel(<, Nat)
  <2>1. R = {ss \in Nat \X Nat : ss[1] < ss[2]}
    BY DEF OpToRel
  <2>2. \A j, k \in Nat : j < k => <<j, k>> \in R
    BY <2>1
  <2> HIDE DEF R
  <2>3. IsWellFoundedOn(R, Nat)
    BY NatLessThanWellFounded DEF R
  <2>4. PICK first \in S : \A k \in S : ~ (<<k, first>> \in R)
    BY <1>1, <2>3, WFMin
  <2>5. \A k \in S : ~ (k < first)
    BY <1>1, <2>2, <2>4
  <2> QED BY <1>1, <2>5
<1> QED BY <1>1, <1>2 DEF Kept

-----------------------------------------------------------------------------
(* What an acknowledgement is worth.                                       *)

\* No line of the thread runs into another, and only a process between the two
\* writes of an append leaves the last one open.
Plain(t) ==
  /\ \A i \in DOMAIN file[t] : i > 1 /\ file[t][i] # NL => file[t][i - 1] = NL
  /\ file[t] # <<>> /\ file[t][Len(file[t])] # NL => \E p \in Proc : HalfWritten(p, t)

LinesApart == \A t \in Thread \ ragged : Plain(t)

\* The steps that write to a file.
LEMMA FileSteps ==
  ASSUME TInv, [Next]_vars
  PROVE  \/ UNCHANGED file
         \/ \E q \in Proc : WriteLine(q)
         \/ \E q \in Proc : WriteNewline(q)
BY DEF Next, AppendStep, ThreadStep, PublishStep, BeginAppend, DedupHit, OpenFile, OpenFails,
       BeginCreate, MoveFile, BeginResume, BeginSetSession, CreateFile, BeginArchive, Unarchive,
       TruncateTmp, WriteTmp, RenameTmp, RenameFails, Crash, Tick, vars, store

\* What a write puts at the end of a file.
LEMMA WriteEffect ==
  ASSUME TInv, NEW q \in Proc, WriteLine(q) \/ WriteNewline(q)
  PROVE  \E x \in Msg \cup {NL} :
           /\ req[q].thread \in Thread
           /\ WriteLine(q) => x = req[q].msg /\ req[q].op = "append" /\ pc'[q] = "newline"
           /\ ~WriteLine(q) => x = NL
           /\ file' = [file EXCEPT ![req[q].thread] = Append(@, x)]
<1>1. CASE WriteLine(q)
  <2>1. req[q].thread \in Thread /\ req[q].msg \in Msg /\ req[q].op = "append"
    BY <1>1, RequestInPhase DEF WriteLine, TInv
  <2> QED BY <1>1, <2>1 DEF WriteLine, Goto, TInv, TypeOK
<1>2. CASE ~WriteLine(q)
  <2>1. req[q].thread \in Thread
    BY <1>2, RequestInPhase DEF WriteNewline, TInv
  <2> QED BY <1>2, <2>1 DEF WriteNewline
<1> QED BY <1>1, <1>2

LEMMA InitApart == Init => LinesApart
BY DEF Init, LinesApart, Plain

\* Only its own second write, or its end, takes a process from between the two.
LEMMA HalfStays ==
  ASSUME TInv, [Next]_vars, NEW p \in Proc, NEW t \in Thread, HalfWritten(p, t),
         ~WriteNewline(p), t \notin ragged'
  PROVE  HalfWritten(p, t)'
<1> USE DEF TInv, TypeOK, HalfWritten
<1>0. pc'[p] # "idle"
  BY DEF Next, vars, Killed
<1>1. ASSUME NEW q \in Proc, AppendStep(q) PROVE HalfWritten(p, t)'
  BY <1>0, <1>1 DEF AppendStep, BeginAppend, DedupHit, OpenFile, OpenFails, WriteLine,
     WriteNewline, Start, Leave, Goto
<1>2. ASSUME NEW q \in Proc, ThreadStep(q) PROVE HalfWritten(p, t)'
  BY <1>2 DEF ThreadStep, BeginCreate, BeginResume, BeginSetSession, BeginArchive, CreateFile,
     Unarchive, MoveFile, Start, Goto
<1>3. ASSUME NEW q \in Proc, PublishStep(q) \/ Crash(q) PROVE HalfWritten(p, t)'
  BY <1>0, <1>3 DEF PublishStep, TruncateTmp, WriteTmp, RenameTmp, RenameFails, Crash,
     Leave, Goto
<1>4. CASE Tick \/ UNCHANGED vars
  BY <1>4 DEF Tick, vars, local
<1> QED BY <1>1, <1>2, <1>3, <1>4 DEF Next

LEMMA StepApart == TInv /\ LinesApart /\ [Next]_vars => LinesApart'
<1> SUFFICES ASSUME TInv, LinesApart, [Next]_vars, NEW t \in Thread, t \notin ragged'
             PROVE  Plain(t)'
  BY DEF LinesApart
<1> DEFINE f == file[t]
<1>1. Plain(t) /\ f \in Seq(Msg \cup {NL})
  BY DEF Next, vars, LinesApart, TInv, TypeOK
<1>2. ASSUME file'[t] = f, \A p \in Proc : ~WriteNewline(p) \/ req[p].thread # t PROVE Plain(t)'
  <2>1. \A p \in Proc : HalfWritten(p, t) => HalfWritten(p, t)'
    BY <1>2, HalfStays DEF HalfWritten
  <2> QED BY <1>1, <1>2, <2>1 DEF Plain
<1>3. ASSUME NEW q \in Proc, WriteLine(q), req[q].thread = t PROVE Plain(t)'
  <2>1. req[q].msg \in Msg /\ file'[t] = Append(f, req[q].msg)
    BY <1>3, RequestInPhase DEF WriteLine, TInv, TypeOK
  <2>2. HalfWritten(q, t)' /\ ~HalfWritten(q, t)
    BY <1>3 DEF WriteLine, HalfWritten, Goto, TInv, TypeOK
  <2>3. ASSUME NEW p \in Proc, HalfWritten(p, t) PROVE FALSE
    <3>1. ~WriteNewline(p)
      BY <1>3, <2>3, <2>2 DEF WriteLine, WriteNewline, HalfWritten, Goto, TInv, TypeOK
    <3>2. HalfWritten(p, t)'
      BY <2>3, <3>1, HalfStays
    <3>3. t \in Overlapped'
      BY <2>2, <2>3, <3>2 DEF Overlapped
    <3>4. CASE Next
      BY <3>3, <3>4 DEF Next
    <3>5. CASE UNCHANGED vars
      BY <2>2, <3>5 DEF vars, HalfWritten
    <3> QED BY <3>4, <3>5
  <2>4. f = <<>> \/ f[Len(f)] = NL
    BY <1>1, <2>3 DEF Plain
  <2> HIDE DEF f
  <2>5. \A i \in DOMAIN file'[t] : i > 1 /\ file'[t][i] # NL => file'[t][i - 1] = NL
    <3> SUFFICES ASSUME NEW i \in DOMAIN file'[t], i > 1, file'[t][i] # NL
                 PROVE  file'[t][i - 1] = NL
      OBVIOUS
    <3>1. CASE i \in DOMAIN f
      <4>1. f[i] # NL => f[i - 1] = NL
        BY <1>1, <3>1 DEF Plain, f
      <4> QED BY <1>1, <2>1, <3>1, <4>1
    <3>2. CASE i = Len(f) + 1
      BY <1>1, <2>1, <2>4, <3>2
    <3> QED BY <1>1, <2>1, <3>1, <3>2
  <2> QED BY <2>2, <2>5 DEF Plain
<1>4. ASSUME NEW q \in Proc, WriteNewline(q), req[q].thread = t PROVE Plain(t)'
  <2>1. file'[t] = Append(f, NL)
    BY <1>4 DEF WriteNewline, TInv, TypeOK
  <2> HIDE DEF f
  <2>2. \A i \in DOMAIN file'[t] : i > 1 /\ file'[t][i] # NL => file'[t][i - 1] = NL
    <3> SUFFICES ASSUME NEW i \in DOMAIN file'[t], i > 1, file'[t][i] # NL
                 PROVE  file'[t][i - 1] = NL
      OBVIOUS
    <3>1. i \in DOMAIN f
      BY <1>1, <2>1
    <3>2. f[i] # NL => f[i - 1] = NL
      BY <1>1, <3>1 DEF Plain, f
    <3> QED BY <1>1, <2>1, <3>1, <3>2
  <2>3. file'[t][Len(file'[t])] = NL
    BY <1>1, <2>1
  <2> QED BY <2>2, <2>3 DEF Plain
<1>5. CASE \E q \in Proc : WriteLine(q) \/ WriteNewline(q)
  <2>1. PICK q \in Proc : WriteLine(q) \/ WriteNewline(q)
    BY <1>5
  <2>2. PICK x \in Msg \cup {NL} :
          /\ req[q].thread \in Thread
          /\ file' = [file EXCEPT ![req[q].thread] = Append(@, x)]
    BY <2>1, WriteEffect
  <2>3. CASE req[q].thread # t
    <3>1. file'[t] = f
      BY <2>2, <2>3 DEF TInv, TypeOK
    <3>2. \A p \in Proc : WriteNewline(p) => p = q
      BY <2>1 DEF WriteLine, WriteNewline, Goto, TInv, TypeOK
    <3> QED BY <1>2, <2>3, <3>1, <3>2
  <2> QED BY <1>3, <1>4, <2>1, <2>3
<1>6. CASE ~ \E q \in Proc : WriteLine(q) \/ WriteNewline(q)
  BY <1>2, <1>6, FileSteps
<1> QED BY <1>5, <1>6

\* Of an acknowledged message reading the thread shows the line, or that of the
\* run it duplicates, however the check for the run, the archive and the index
\* raced; only an overlap of two appends between text and newline, or a kill
\* there, takes it away (conversation.rs:235-247, 266-274, 520-530).
THEOREM AcksAreShown == Spec => []AckedShown
<1>1. TInv /\ AckInv /\ LinesApart /\ [Next]_vars => AckInv' /\ LinesApart'
  BY StepEffect, StepAcks, StepApart
<1>2. Spec => [](TInv /\ AckInv /\ LinesApart)
  BY <1>1, InitTyped, StepTyped, InitAcks, InitApart, PTL DEF Spec
<1>3. TInv /\ AckInv /\ LinesApart => AckedShown
  <2> SUFFICES ASSUME TInv, AckInv, LinesApart, NEW a \in acked, a[1] \notin ragged
               PROVE  Shown(a)
    BY DEF AckedShown
  <2> DEFINE f == file[a[1]]
  <2>1. a[1] \in Thread /\ a[2] \in Msg /\ a[2] # NL
    BY MsgAssumption DEF TInv, TypeOK
  <2>2. f \in Seq(Msg \cup {NL}) /\ Plain(a[1])
    BY <2>1 DEF TInv, TypeOK, LinesApart
  <2>3. PICK i \in DOMAIN f : f[i] = a[2]
    BY DEF AckInv, InFile
  <2>4. \A k \in DOMAIN f : k > 1 /\ f[k] # NL => f[k - 1] = NL
    BY <2>2 DEF Plain
  <2> HIDE DEF f
  <2>5. i \in Intact(f)
    <3>1. i = 1 \/ f[i - 1] = NL
      BY <2>1, <2>2, <2>3, <2>4
    <3>2. i = Len(f) \/ f[i + 1] = NL
      <4> SUFFICES ASSUME i # Len(f), f[i + 1] # NL PROVE FALSE
        OBVIOUS
      <4>1. i + 1 \in DOMAIN f /\ i + 1 > 1 /\ (i + 1) - 1 = i
        BY <2>2, <2>3
      <4> QED BY <2>1, <2>3, <2>4, <4>1
    <3> QED BY <2>1, <2>3, <3>1, <3>2 DEF Intact
  <2>6. CASE RunOf[a[2]] = NoRun
    <3>1. i \in Kept(f)
      BY <2>3, <2>5, <2>6 DEF Kept, RunAt
    <3> QED BY <2>3, <3>1 DEF Shown, f
  <2>7. CASE RunOf[a[2]] # NoRun
    <3>1. PICK k \in Kept(f) : RunAt(f, k) = RunAt(f, i)
      BY <2>2, <2>3, <2>5, <2>7, OneLineKept DEF RunAt
    <3>2. RunAt(f, k) = RunOf[a[2]]
      BY <2>3, <3>1 DEF RunAt
    <3> QED BY <2>7, <3>1, <3>2 DEF Shown, f
  <2> QED BY <2>6, <2>7
<1> QED BY <1>2, <1>3, PTL

-----------------------------------------------------------------------------
(* The lines shown of a thread are a SharedLog.                            *)

\* A message has one author, who has not written it before the line is due; so
\* a file holds it once.
Writing(p) == pc[p] \in {"open", "line"}

OnceInFile == \A t \in Thread : \A i, j \in DOMAIN file[t] :
                file[t][i] = file[t][j] /\ file[t][i] # NL => i = j
NotYet     == \A p \in Proc : Writing(p) => ~InFile(req[p].thread, req[p].msg)
OneAuthor  == \A p, q \in Proc :
                req[p].op = "append" /\ req[q].op = "append" /\ req[p].msg = req[q].msg => p = q

FreshInv == OnceInFile /\ NotYet /\ OneAuthor

LEMMA InitFresh == Init => FreshInv
BY DEF Init, FreshInv, OnceInFile, NotYet, OneAuthor, Writing, Idle

LEMMA RequestSteps ==
  ASSUME TInv, [Next]_vars, NEW p \in Proc
  PROVE  \/ req'[p] = req[p] /\ (Writing(p)' => Writing(p))
         \/ req'[p].op # "append" /\ ~Writing(p)'
         \/ \E t \in Thread, m \in Msg : BeginAppend(p, t, m)
<1> USE DEF TInv, TypeOK, Writing
<1>1. ASSUME NEW q \in Proc, AppendStep(q), \A t \in Thread, m \in Msg : ~BeginAppend(q, t, m)
      PROVE  \/ req'[p] = req[p] /\ (Writing(p)' => Writing(p))
             \/ req'[p].op # "append" /\ ~Writing(p)'
  BY <1>1 DEF AppendStep, DedupHit, OpenFile, OpenFails, WriteLine, WriteNewline,
              Leave, Goto, Idle
<1>2. ASSUME NEW q \in Proc, NEW t \in Thread, NEW m \in Msg, BeginAppend(q, t, m)
      PROVE  \/ req'[p] = req[p] /\ (Writing(p)' => Writing(p))
             \/ BeginAppend(p, t, m)
  BY <1>2 DEF BeginAppend, Start
<1>3. ASSUME NEW q \in Proc, ThreadStep(q)
      PROVE  \/ req'[p] = req[p] /\ (Writing(p)' => Writing(p))
             \/ req'[p].op # "append" /\ ~Writing(p)'
  <2>1. CASE \E t \in Thread : BeginCreate(q, t) \/ BeginResume(q, t) \/ BeginSetSession(q, t)
    BY <2>1 DEF BeginCreate, BeginResume, BeginSetSession, Start, ThreadOp
  <2>2. CASE BeginArchive(q)
    BY <2>2 DEF BeginArchive, Start, ArchiveOp
  <2>3. CASE CreateFile(q) \/ Unarchive(q) \/ \E t \in Thread : MoveFile(q, t)
    BY <2>3 DEF CreateFile, Unarchive, MoveFile, Goto
  <2> QED BY <1>3, <2>1, <2>2, <2>3 DEF ThreadStep
<1>4. ASSUME NEW q \in Proc, PublishStep(q) \/ Crash(q)
      PROVE  \/ req'[p] = req[p] /\ (Writing(p)' => Writing(p))
             \/ req'[p].op # "append" /\ ~Writing(p)'
  BY <1>4 DEF PublishStep, TruncateTmp, WriteTmp, RenameTmp, RenameFails, Crash,
              Leave, Goto, Idle
<1>5. CASE Tick \/ UNCHANGED vars
  BY <1>5 DEF Tick, vars, local
<1> QED BY <1>1, <1>2, <1>3, <1>4, <1>5, Zenon DEF Next

LEMMA StepFresh == TInv /\ FreshInv /\ [Next]_vars => FreshInv'
<1> SUFFICES ASSUME TInv, FreshInv, [Next]_vars PROVE FreshInv'
  OBVIOUS
<1>1. OneAuthor'
  <2> SUFFICES ASSUME NEW p \in Proc, NEW q \in Proc, p # q, req'[p].op = "append",
                      req'[q].op = "append", req'[p].msg = req'[q].msg
               PROVE  FALSE
    BY DEF OneAuthor
  <2>1. ASSUME NEW a \in Proc, NEW b \in Proc, a # b, req'[b].op = "append",
               NEW t \in Thread, NEW m \in Msg, BeginAppend(a, t, m)
        PROVE  req'[a].msg # req'[b].msg
    <3>1. req'[a].msg = m /\ req'[b] = req[b]
      BY <2>1 DEF BeginAppend, Start, AppendOp, TInv, TypeOK
    <3> QED BY <2>1, <3>1 DEF BeginAppend, InUse
  <2>2. req'[p] = req[p] /\ req'[q] = req[q]
    BY <2>1, RequestSteps, Zenon
  <2> QED BY <2>2 DEF FreshInv, OneAuthor
<1>2. ASSUME NEW p \in Proc, Writing(p)' PROVE ~InFile(req[p].thread, req[p].msg)'
  <2>1. ASSUME NEW t \in Thread, NEW m \in Msg, BeginAppend(p, t, m)
        PROVE  ~InFile(req[p].thread, req[p].msg)'
    <3>1. req'[p].msg = m /\ req'[p].thread = t /\ file' = file
      BY <2>1 DEF BeginAppend, Start, AppendOp, TInv, TypeOK, store
    <3> QED BY <2>1, <3>1 DEF BeginAppend, InUse, InFile
  <2>2. ASSUME req'[p] = req[p], Writing(p) PROVE ~InFile(req[p].thread, req[p].msg)'
    <3> DEFINE t == req[p].thread
               m == req[p].msg
    <3>1. t \in Thread /\ m \in Msg /\ req[p].op = "append" /\ m # NL
      BY <2>2, RequestInPhase, MsgAssumption DEF Writing, TInv
    <3>2. ~ \E i \in DOMAIN file[t] : file[t][i] = m
      BY <2>2 DEF FreshInv, NotYet, InFile
    <3>3. ~ \E i \in DOMAIN file'[t] : file'[t][i] = m
      <4>1. CASE UNCHANGED file
        BY <3>2, <4>1
      <4>2. ASSUME NEW q \in Proc, WriteLine(q) \/ WriteNewline(q)
            PROVE  ~ \E i \in DOMAIN file'[t] : file'[t][i] = m
        <5>1. PICK x \in Msg \cup {NL} :
                /\ req[q].thread \in Thread
                /\ WriteLine(q) => x = req[q].msg /\ req[q].op = "append" /\ pc'[q] = "newline"
                /\ ~WriteLine(q) => x = NL
                /\ file' = [file EXCEPT ![req[q].thread] = Append(@, x)]
          BY <4>2, WriteEffect
        <5>2. x # m
          <6>1. CASE WriteLine(q)
            <7>1. q # p
              BY <1>2, <5>1, <6>1 DEF Writing
            <7> QED BY <3>1, <5>1, <6>1, <7>1 DEF FreshInv, OneAuthor
          <6>2. CASE ~WriteLine(q)
            BY <3>1, <5>1, <6>2
          <6> QED BY <6>1, <6>2
        <5>3. /\ file[t] \in Seq(Msg \cup {NL})
              /\ file'[t] = file[t] \/ file'[t] = Append(file[t], x)
          BY <3>1, <5>1 DEF TInv, TypeOK
        <5> HIDE DEF t, m
        <5> QED BY <3>2, <5>2, <5>3
      <4> QED BY <4>1, <4>2, FileSteps
    <3> QED BY <2>2, <3>3 DEF InFile
  <2> QED BY <1>2, <2>1, <2>2, RequestSteps, Zenon
<1>3. ASSUME NEW t \in Thread, NEW i \in DOMAIN file'[t], NEW j \in DOMAIN file'[t],
             file'[t][i] = file'[t][j], file'[t][i] # NL
      PROVE  i = j
  <2>1. CASE UNCHANGED file
    BY <1>3, <2>1 DEF FreshInv, OnceInFile
  <2>2. ASSUME NEW q \in Proc, WriteLine(q) \/ WriteNewline(q) PROVE i = j
    <3>1. PICK x \in Msg \cup {NL} :
            /\ req[q].thread \in Thread
            /\ WriteLine(q) => x = req[q].msg /\ req[q].op = "append" /\ pc'[q] = "newline"
            /\ ~WriteLine(q) => x = NL
            /\ file' = [file EXCEPT ![req[q].thread] = Append(@, x)]
      BY <2>2, WriteEffect
    <3>2. file[t] \in Seq(Msg \cup {NL}) /\ (file'[t] = file[t] \/ file'[t] = Append(file[t], x))
      BY <3>1 DEF TInv, TypeOK
    <3>3. \A k, l \in DOMAIN file[t] : file[t][k] = file[t][l] /\ file[t][k] # NL => k = l
      BY DEF FreshInv, OnceInFile
    <3>4. ASSUME file'[t] # file[t], x # NL PROVE ~ \E k \in DOMAIN file[t] : file[t][k] = x
      <4>1. WriteLine(q) /\ req[q].thread = t /\ x = req[q].msg
        BY <3>1, <3>4 DEF TInv, TypeOK
      <4> QED BY <4>1 DEF FreshInv, NotYet, InFile, Writing, WriteLine
    <3>5. CASE file'[t] = file[t]
      BY <1>3, <3>3, <3>5
    <3>6. CASE file'[t] = Append(file[t], x) /\ file'[t] # file[t]
      <4>1. /\ \/ i \in DOMAIN file[t] /\ file'[t][i] = file[t][i]
               \/ i = Len(file[t]) + 1 /\ file'[t][i] = x
            /\ \/ j \in DOMAIN file[t] /\ file'[t][j] = file[t][j]
               \/ j = Len(file[t]) + 1 /\ file'[t][j] = x
        BY <1>3, <3>2, <3>6, AllOfAppend
      <4> QED BY <1>3, <3>3, <3>4, <3>6, <4>1
    <3> QED BY <3>2, <3>5, <3>6
  <2> QED BY <2>1, <2>2, FileSteps
<1>4. NotYet'
  BY <1>2 DEF NotYet
<1>5. OnceInFile'
  BY <1>3 DEF OnceInFile
<1> QED BY <1>1, <1>4, <1>5 DEF FreshInv
\* A file that grows by one chunk shows the same lines, or one more: the line
\* a newline has just ended.
LEMMA ShownGrow ==
  ASSUME NEW f \in Seq(Msg \cup {NL}), NEW x \in Msg \cup {NL}
  PROVE  LET g == Append(f, x) IN
         \/ Picked(g, Committed(g)) = Picked(f, Committed(f))
         \/ \E n \in Kept(g) : /\ n \in DOMAIN f /\ f[n] \in Msg /\ g[n] = f[n] /\ n = Len(f)
                               /\ Picked(g, Committed(g)) = Append(Picked(f, Committed(f)), f[n])
<1> DEFINE g == Append(f, x)
           n == Len(f)
           V == Msg \cup {NL}
<1>1. /\ f \in Seq(V) /\ g \in Seq(V) /\ n \in Nat /\ Len(g) = n + 1
      /\ \A i \in 1 .. n : g[i] = f[i]
      /\ DOMAIN f = 1 .. n /\ DOMAIN g = 1 .. n + 1
  OBVIOUS
<1>2. Committed(f) \subseteq Committed(g)
  BY CommittedAppend
<1>3. /\ Committed(f) \in SUBSET DOMAIN f /\ Committed(f) \subseteq DOMAIN g
      /\ \A i \in Committed(f) : g[i] = f[i] /\ i < n
  BY <1>1 DEF Committed, Kept, Intact
<1>4. \A i \in Committed(g) : i \in Committed(f) \/ i = n
  <2> SUFFICES ASSUME NEW i \in Committed(g), i # n PROVE i \in Committed(f)
    OBVIOUS
  <2>1. i \in Kept(g) /\ i \in DOMAIN f /\ i < n
    BY <1>1 DEF Committed, Kept, Intact
  <2>2. \A j : j \in DOMAIN f /\ j < n => (j \in Intact(f) <=> j \in Intact(g))
    BY <1>1 DEF Intact
  <2>3. \A j \in DOMAIN f : RunAt(f, j) = RunAt(g, j)
    BY <1>1 DEF RunAt
  <2>4. \A j \in Intact(f) : j \in DOMAIN f
    BY DEF Intact
  <2>5. \A j \in DOMAIN f : j < i => j < n
    BY <1>1, <2>1
  <2>6. i \in Kept(f)
    BY <2>1, <2>2, <2>3, <2>4, <2>5 DEF Kept
  <2> QED BY <2>1, <2>6 DEF Committed
<1>5. CASE n \notin Committed(g)
  <2>1. Committed(g) = Committed(f)
    BY <1>2, <1>4, <1>5
  <2>2. /\ Picked(f, Committed(f)) = Picked(g, Committed(f))
    <3> HIDE DEF g
    <3>1. \A k \in 1 .. Cardinality(Committed(f)) : InOrder(Committed(f))[k] \in Committed(f)
      BY <1>1, <1>3, PickedIs
    <3>2. \A k \in 1 .. Cardinality(Committed(f)) :
            f[InOrder(Committed(f))[k]] = g[InOrder(Committed(f))[k]]
      BY <1>3, <3>1
    <3> QED BY <3>2, Zenon DEF Picked
  <2> QED BY <2>1, <2>2
<1>6. CASE n \in Committed(g)
  <2>1. Committed(g) = Committed(f) \cup {n}
    BY <1>2, <1>4, <1>6
  <2>2. n \in Kept(g) /\ n \in DOMAIN g /\ n \in DOMAIN f /\ g[n] = f[n] /\ f[n] \in Msg
    <3>1. n \in Kept(g)
      BY <1>6 DEF Committed
    <3>2. n \in DOMAIN g /\ g[n] # NL
      BY <3>1 DEF Kept, Intact
    <3>3. n \in DOMAIN f
      BY <1>1, <3>2
    <3>4. g[n] = f[n] /\ f[n] \in V
      BY <1>1, <3>3
    <3> QED BY <3>1, <3>2, <3>3, <3>4
  <2>3. Picked(g, Committed(f) \cup {n}) = Append(Picked(f, Committed(f)), g[n])
    <3> DEFINE S == Committed(f)
    <3>1. f \in Seq(V) /\ g \in Seq(V) /\ S \in SUBSET DOMAIN f /\ S \subseteq DOMAIN g
      BY <1>1, <1>3
    <3>2. (\A i \in S : g[i] = f[i]) /\ (\A i \in S : i < n)
      BY <1>3
    <3>3. n \in DOMAIN g
      BY <2>2
    <3> HIDE DEF g, n, V, S
    <3>4. Picked(g, S \cup {n}) = Append(Picked(f, S), g[n])
      BY <3>1, <3>2, <3>3, PickedGrows
    <3> QED BY <3>4 DEF S
  <2> QED BY <2>1, <2>2, <2>3
<1> QED BY <1>5, <1>6

LEMMA InitShown == Init => \A t \in Thread : Log(t)!Init
<1> SUFFICES ASSUME Init, NEW t \in Thread PROVE CommittedLog(t) = <<>>
  BY DEF Log!Init
<1>1. file[t] = <<>>
  BY DEF Init
<1>2. Committed(file[t]) = {}
  BY <1>1 DEF Committed, Kept, Intact
<1> QED BY <1>2, InOrderEmpty DEF CommittedLog

LEMMA StepShown ==
  ASSUME TInv, FreshInv, [Next]_vars, NEW t \in Thread
  PROVE  Log(t)!Next \/ UNCHANGED CommittedLog(t)
<1> DEFINE f == file[t]
           g == file'[t]
           l == Picked(f, Committed(f))
<1>1. f \in Seq(Msg \cup {NL}) /\ (g = f \/ \E x \in Msg \cup {NL} : g = Append(f, x))
  BY StepEffect DEF Effect, FilesGrow, TInv, TypeOK
<1>2. CommittedLog(t) = l /\ CommittedLog(t)' = Picked(g, Committed(g))
  BY DEF CommittedLog
<1>3. \/ Picked(g, Committed(g)) = l
      \/ \E n \in Kept(g) : /\ n \in DOMAIN f /\ f[n] \in Msg /\ g[n] = f[n] /\ n = Len(f)
                            /\ Picked(g, Committed(g)) = Append(l, f[n])
  <2>1. CASE g = f
    BY <2>1
  <2>2. ASSUME NEW x \in Msg \cup {NL}, g = Append(f, x)
        PROVE  \/ Picked(g, Committed(g)) = l
               \/ \E n \in Kept(g) : /\ n \in DOMAIN f /\ f[n] \in Msg /\ g[n] = f[n] /\ n = Len(f)
                                     /\ Picked(g, Committed(g)) = Append(l, f[n])
    <3> HIDE DEF f, g
    <3> QED BY <1>1, <2>2, ShownGrow
  <2> QED BY <1>1, <2>1, <2>2
<1>4. ASSUME NEW n \in Kept(g), n \in DOMAIN f, f[n] \in Msg, g[n] = f[n], n = Len(f),
             Picked(g, Committed(g)) = Append(l, f[n])
      PROVE  Log(t)!Next
  <2>1. \A k \in DOMAIN l : \E i \in Committed(f) : l[k] = f[i]
    <3>1. Committed(f) \in SUBSET DOMAIN f
      BY DEF Committed, Kept, Intact
    <3>2. /\ Len(l) = Cardinality(Committed(f)) /\ l \in Seq(Msg \cup {NL})
          /\ \A k \in 1 .. Cardinality(Committed(f)) :
               InOrder(Committed(f))[k] \in Committed(f) /\ l[k] = f[InOrder(Committed(f))[k]]
      BY <1>1, <3>1, PickedIs
    <3> HIDE DEF l, f
    <3> QED BY <3>2
  <2>2. \A i \in Committed(f) : i \in DOMAIN f /\ i < n
    BY <1>4 DEF Committed, Kept, Intact
  <2>3. \A i \in Committed(f) : i \in Intact(g) /\ RunAt(g, i) = RunOf[f[i]]
    <3>1. CASE g = f
      BY <3>1 DEF Committed, Kept, RunAt
    <3>2. ASSUME NEW x \in Msg \cup {NL}, g = Append(f, x)
          PROVE  \A i \in Committed(f) : i \in Intact(g) /\ RunAt(g, i) = RunOf[f[i]]
      <4>1. Committed(f) \subseteq Committed(g) /\ \A i \in Committed(f) : g[i] = f[i]
        <5> HIDE DEF f, g
        <5> QED BY <1>1, <3>2, CommittedAppend
      <4> QED BY <4>1 DEF Committed, Kept, RunAt
    <3> QED BY <1>1, <3>1, <3>2
  <2>4. ~ \E k \in DOMAIN l : l[k] = f[n]
    <3>1. \A i \in Committed(f) : f[i] # f[n]
      <4>1. f[n] # NL
        BY <1>4, MsgAssumption
      <4>2. \A i, j \in DOMAIN f : f[i] = f[j] /\ f[i] # NL => i = j
        BY DEF FreshInv, OnceInFile
      <4>3. \A i \in Committed(f) : i # n
        BY <1>1, <2>2
      <4> QED BY <1>4, <2>2, <4>1, <4>2, <4>3, Zenon
    <3> QED BY <2>1, <3>1, Zenon
  <2>5. RunOf[f[n]] = NoRun \/ ~ \E k \in DOMAIN l : RunOf[l[k]] = RunOf[f[n]]
    <3>1. RunAt(g, n) = RunOf[f[n]]
      BY <1>4 DEF RunAt
    <3>2. RunAt(g, n) = NoRun \/ \A i \in Committed(f) : RunAt(g, i) # RunAt(g, n)
      BY <1>4, <2>2, <2>3 DEF Kept
    <3> QED BY <2>1, <2>3, <3>1, <3>2
  <2>6. /\ CommittedLog(t)' = Append(CommittedLog(t), f[n])
        /\ ~ \E k \in DOMAIN CommittedLog(t) : CommittedLog(t)[k] = f[n]
        /\ \/ RunOf[f[n]] = NoRun
           \/ ~ \E k \in DOMAIN CommittedLog(t) : RunOf[CommittedLog(t)[k]] = RunOf[f[n]]
    <3> HIDE DEF f, g, l
    <3> QED BY <1>2, <1>4, <2>4, <2>5
  <2> HIDE DEF f, g, l
  <2> QED BY <1>4, <2>6 DEF Log!Next, Log!Add, Log!Has, Log!HasRun
<1> QED
  <2> HIDE DEF f, g, l
  <2> QED BY <1>2, <1>3, <1>4

\* Every step of the store adds one new message at the end of what a thread
\* shows, of a run it does not show yet, or leaves that alone
\* (conversation.rs:235-273 with 500-530).
THEOREM ThreadsAreLogs == Spec => RefinesSharedLog
<1>1. TInv /\ FreshInv /\ [Next]_vars =>
        [\A t \in Thread : Log(t)!Next \/ UNCHANGED CommittedLog(t)]_vars
  BY StepShown
<1>2. Spec => [](TInv /\ FreshInv)
  BY InitTyped, StepTyped, InitFresh, StepFresh, PTL DEF Spec
<1>3. Init => \A t \in Thread : Log(t)!Init
  BY InitShown
<1> QED BY <1>1, <1>2, <1>3, PTL DEF Spec, RefinesSharedLog

-----------------------------------------------------------------------------
(* Processes that take turns.  No operation takes a lock, so what the code *)
(* says of the index can only be true while at most one process is inside  *)
(* an operation; a process that is alone is a special case.                *)

Solo == \A p, q \in Proc : pc[p] # "idle" /\ pc[q] # "idle" => p = q

IdleInv == \A p \in Proc : pc[p] = "idle" => snap[p] = NoThreads /\ todo[p] = {}

\* A step that finds the other processes idle and leaves them so.
OthersIdle(p) ==
  \A q \in Proc \ {p} : /\ pc[q] = "idle" /\ pc'[q] = "idle"
                        /\ snap'[q] = NoThreads /\ todo'[q] = {}

ProcStep(p) == AppendStep(p) \/ ThreadStep(p) \/ PublishStep(p) \/ Crash(p)

LEMMA InitIdle == Init => IdleInv
BY DEF Init, IdleInv

\* A step is of one process, which is inside an operation before it or after it,
\* and which drops its snapshot when it leaves.
LEMMA OwnStep ==
  ASSUME TInv, NEW p \in Proc, ProcStep(p)
  PROVE  /\ \A q \in Proc \ {p} : pc'[q] = pc[q] /\ snap'[q] = snap[q] /\ todo'[q] = todo[q]
         /\ pc[p] # "idle" \/ pc'[p] # "idle"
         /\ pc'[p] = "idle" => snap'[p] = NoThreads /\ todo'[p] = {}
<1> USE DEF TInv, TypeOK
<1>1. CASE AppendStep(p)
  BY <1>1 DEF AppendStep, BeginAppend, DedupHit, OpenFile, OpenFails, WriteLine,
              WriteNewline, Start, Leave, Goto, Revise
<1>2. CASE ThreadStep(p)
  BY <1>2 DEF ThreadStep, BeginCreate, MoveFile, BeginResume, BeginSetSession, CreateFile,
              BeginArchive, Unarchive, Start, Goto, Revise
<1>3. CASE PublishStep(p) \/ Crash(p)
  BY <1>3 DEF PublishStep, TruncateTmp, WriteTmp, RenameTmp, RenameFails, Crash, Leave, Goto
<1> QED BY <1>1, <1>2, <1>3 DEF ProcStep

LEMMA StepIdle == TInv /\ IdleInv /\ [Next]_vars => IdleInv'
<1>1. ASSUME TInv, IdleInv, NEW p \in Proc, ProcStep(p) PROVE IdleInv'
  BY <1>1, OwnStep DEF IdleInv
<1>2. ASSUME IdleInv, Tick \/ UNCHANGED vars PROVE IdleInv'
  BY <1>2 DEF IdleInv, Tick, vars, local
<1> QED BY <1>1, <1>2 DEF Next, ProcStep

LEMMA TakesTurns ==
  ASSUME TInv, IdleInv, Solo, Solo', NEW p \in Proc, ProcStep(p)
  PROVE  OthersIdle(p)
BY OwnStep DEF IdleInv, Solo, OthersIdle

\* The copy it renames is the one it has written, whole; what a killed one left
\* in threads.tmp is truncated first.
LoneWrite ==
  /\ Parses(index)
  /\ \A p \in Proc : /\ pc[p] = "write" => fd[p] = "tmp" /\ tmp = Empty
                     /\ pc[p] = "rename" => tmp = Json(snap[p])

LEMMA InitLone == Init => LoneWrite
BY DEF Init, LoneWrite, Missing, Parses

LEMMA ReviseIs ==
  ASSUME TypeOK, NEW p \in Proc, NEW t \in Thread, NEW e, Revise(p, t, e)
  PROVE  snap'[p][t] = e /\ \A u \in Thread : u # t => snap'[p][u] = snap[p][u]
BY DEF TypeOK, Snapshot, Revise

LEMMA LeaveIs ==
  ASSUME TypeOK, NEW p \in Proc, Leave(p)
  PROVE  pc'[p] = "idle" /\ req'[p] = Idle /\ snap'[p] = NoThreads /\ todo'[p] = {}
BY DEF TypeOK, Leave

LEMMA StartIs ==
  ASSUME TypeOK, NEW p \in Proc, NEW r, NEW s, NEW next, Start(p, r, s, next)
  PROVE  pc[p] = "idle" /\ pc'[p] = next /\ req'[p] = r /\ snap'[p] = s
BY DEF TypeOK, Start

LEMMA GotoIs ==
  ASSUME TypeOK, NEW p \in Proc, NEW next, Goto(p, next)
  PROVE  pc'[p] = next
BY DEF TypeOK, Goto

\* What the calls of write_index do when nobody else writes.
LEMMA LonePublish ==
  ASSUME TInv, LoneWrite, NEW p \in Proc
  PROVE  /\ WriteTmp(p) => tmp' = Json(snap[p]) /\ UNCHANGED index
         /\ RenameTmp(p) => index' = Json(snap[p])
         /\ ~RenameFails(p)
<1>1. ASSUME WriteTmp(p) PROVE tmp' = Json(snap[p]) /\ UNCHANGED index
  <2>1. fd[p] = "tmp" /\ tmp = Empty
    BY <1>1 DEF LoneWrite, WriteTmp
  <2> QED BY <1>1, <2>1 DEF WriteTmp, Overwrite, Empty
<1>2. RenameTmp(p) => index' = Json(snap[p])
  BY DEF LoneWrite, RenameTmp
<1>3. ~RenameFails(p)
  BY DEF LoneWrite, RenameFails, Json
<1> QED BY <1>1, <1>2, <1>3

LEMMA StepLone ==
  ASSUME TInv, IdleInv, Solo, Solo', LoneWrite, [Next]_vars
  PROVE  LoneWrite'
<1> USE DEF TInv
<1>1. ASSUME NEW p \in Proc, OthersIdle(p), UNCHANGED <<index, tmp>>,
             pc'[p] \notin {"write", "rename"}
      PROVE  LoneWrite'
  BY <1>1 DEF OthersIdle, LoneWrite
<1>2. ASSUME NEW p \in Proc, OthersIdle(p), AppendStep(p)
      PROVE  UNCHANGED <<index, tmp>> /\ pc'[p] \notin {"write", "rename"}
  BY <1>2 DEF AppendStep, BeginAppend, DedupHit, OpenFile, OpenFails, WriteLine, WriteNewline,
              store, Start, Leave, Goto, TypeOK
<1>3. ASSUME NEW p \in Proc, OthersIdle(p), ThreadStep(p)
      PROVE  UNCHANGED <<index, tmp>> /\ pc'[p] \notin {"write", "rename"}
  BY <1>3 DEF ThreadStep, BeginCreate, MoveFile, BeginResume, BeginSetSession, CreateFile,
              BeginArchive, Unarchive, store, Start, Goto, TypeOK
<1>4. ASSUME NEW p \in Proc, OthersIdle(p), TruncateTmp(p) PROVE LoneWrite'
  BY <1>4 DEF TruncateTmp, Goto, OthersIdle, LoneWrite, TypeOK
<1>5. ASSUME NEW p \in Proc, OthersIdle(p), WriteTmp(p) PROVE LoneWrite'
  <2>1. tmp' = Json(snap[p]) /\ UNCHANGED index
    BY <1>5, LonePublish
  <2> QED BY <1>5, <2>1 DEF WriteTmp, Goto, OthersIdle, LoneWrite, TypeOK
<1>6. ASSUME NEW p \in Proc, OthersIdle(p), RenameTmp(p) PROVE LoneWrite'
  <2>1. index' = Json(snap[p]) /\ pc'[p] = "idle"
    BY <1>6, LonePublish, LeaveIs DEF RenameTmp
  <2> QED BY <1>6, <2>1 DEF OthersIdle, LoneWrite, Json, Parses
<1>7. ASSUME NEW p \in Proc, OthersIdle(p), RenameFails(p) \/ Crash(p)
      PROVE  UNCHANGED <<index, tmp>> /\ pc'[p] \notin {"write", "rename"}
  BY <1>7, LeaveIs DEF RenameFails, Crash, store
<1>8. CASE Tick \/ UNCHANGED vars
  BY <1>8 DEF Tick, vars, store, local, LoneWrite
<1> QED BY <1>1, <1>2, <1>3, <1>4, <1>5, <1>6, <1>7, <1>8, TakesTurns
       DEF Next, ProcStep, PublishStep

\* As long as the writers take turns the index is never torn, wherever one of
\* them is killed (conversation.rs:160-165).
THEOREM LoneIndexParses == Spec /\ []Solo => []IndexParses
<1>1. TInv /\ IdleInv /\ Solo /\ Solo' /\ LoneWrite /\ [Next]_vars => LoneWrite'
  BY StepLone
<1>2. Spec /\ []Solo => [](TInv /\ IdleInv /\ LoneWrite)
  BY <1>1, InitTyped, StepTyped, InitIdle, StepIdle, InitLone, PTL DEF Spec
<1>3. LoneWrite => IndexParses
  BY DEF LoneWrite, IndexParses
<1> QED BY <1>2, <1>3, PTL

\* A thread whose file was moved and whose entry does not say so is old: in the
\* index, and in a snapshot that is going to be published.
Repairable(th) ==
  \A t \in Thread : th[t].listed /\ ~th[t].archived /\ place[t] = "archived" =>
                      th[t].updated < clock

MoveInv ==
  /\ Repairable(index.threads)
  /\ \A p \in Proc : Repairable(snap[p]) /\ \A t \in todo[p] : Stale(index.threads[t])

LEMMA InitMoves == Init => MoveInv
BY DEF Init, MoveInv, Repairable, Missing, NoThreads, Unlisted

\* A step concerns the snapshot and the directories of the process that takes it.
LEMMA OthersMoves ==
  ASSUME NEW p \in Proc, OthersIdle(p), Repairable(index.threads)', Repairable(snap[p])',
         \A t \in todo'[p] : Stale(index.threads[t])'
  PROVE  MoveInv'
<1>1. Repairable(NoThreads)'
  BY DEF Repairable, NoThreads, Unlisted
<1>2. ASSUME NEW q \in Proc
      PROVE  Repairable(snap[q])' /\ \A t \in todo'[q] : Stale(index.threads[t])'
  <2>1. CASE q = p
    BY <2>1
  <2>2. CASE q # p
    <3>1. snap'[q] = NoThreads /\ todo'[q] = {}
      BY <2>2 DEF OthersIdle
    <3> QED BY <1>1, <3>1 DEF Repairable
  <2> QED BY <2>1, <2>2
<1> QED BY <1>2 DEF MoveInv

\* The request begins with what the index says of each thread.
LEMMA StartMoves ==
  ASSUME TInv, MoveInv, NEW p \in Proc, OthersIdle(p), NEW r, NEW s, NEW next, Start(p, r, s, next),
         \A t \in Thread : /\ s[t].listed = index.threads[t].listed
                           /\ s[t].archived = index.threads[t].archived
                           /\ s[t].updated = index.threads[t].updated,
         UNCHANGED <<index, place, clock>>,
         todo' = todo \/ \A t \in todo'[p] : Stale(index.threads[t])
  PROVE  MoveInv'
<1>1. snap'[p] = s
  BY StartIs DEF TInv
<1>2. Repairable(s)' /\ Repairable(index.threads)'
  BY DEF MoveInv, Repairable
<1>3. \A t \in todo'[p] : Stale(index.threads[t])'
  BY DEF MoveInv, Stale
<1> QED BY <1>1, <1>2, <1>3, OthersMoves DEF Repairable

LEMMA LeaveMoves ==
  ASSUME TInv, MoveInv, NEW p \in Proc, OthersIdle(p), Leave(p), UNCHANGED <<place, clock>>,
         Repairable(index.threads)'
  PROVE  MoveInv'
<1>1. snap'[p] = NoThreads /\ todo'[p] = {}
  BY LeaveIs DEF TInv
<1>2. Repairable(snap[p])'
  BY <1>1 DEF Repairable, NoThreads, Unlisted
<1> QED BY <1>1, <1>2, OthersMoves

\* An operation changes the entry of one thread, and perhaps moves its file.
LEMMA ReviseMoves ==
  ASSUME TInv, MoveInv, NEW p \in Proc, OthersIdle(p), NEW t \in Thread, NEW e, Revise(p, t, e),
         \A u \in Thread : u # t => place'[u] = place[u],
         e.listed /\ ~e.archived /\ place'[t] = "archived" => e.updated < clock,
         place'[t] = "archived" => place[t] = "archived" \/ Stale(index.threads[t]),
         UNCHANGED <<index, clock>>, todo'[p] \subseteq todo[p]
  PROVE  MoveInv'
<1>1. snap'[p][t] = e /\ \A u \in Thread : u # t => snap'[p][u] = snap[p][u]
  BY ReviseIs DEF TInv
<1>2. Repairable(index.threads)'
  BY DEF MoveInv, Repairable, Stale
<1>3. Repairable(snap[p])'
  BY <1>1 DEF MoveInv, Repairable
<1>4. \A u \in todo'[p] : Stale(index.threads[u])'
  BY DEF MoveInv, Stale
<1> QED BY <1>2, <1>3, <1>4, OthersMoves

LEMMA StepMoves ==
  ASSUME TInv, IdleInv, Solo, Solo', LoneWrite, MoveInv, [Next]_vars
  PROVE  MoveInv'
<1> USE DEF TInv
<1>0. ASSUME UNCHANGED <<index, place, snap, todo, clock>> PROVE MoveInv'
  BY <1>0 DEF MoveInv, Repairable, Stale
<1>1. ASSUME NEW p \in Proc, OthersIdle(p), NEW t \in Thread, NEW m \in Msg, BeginAppend(p, t, m)
      PROVE  MoveInv'
  BY <1>1, StartMoves DEF BeginAppend, store
<1>2. ASSUME NEW p \in Proc, OthersIdle(p),
             DedupHit(p) \/ OpenFails(p) \/ RenameFails(p) \/ Crash(p)
      PROVE  MoveInv'
  <2>1. Leave(p) /\ UNCHANGED <<index, place, clock>>
    BY <1>2 DEF DedupHit, OpenFails, RenameFails, Crash, store
  <2> QED BY <1>2, <2>1, LeaveMoves DEF MoveInv, Repairable
<1>3. ASSUME NEW p \in Proc, OthersIdle(p), OpenFile(p) PROVE MoveInv'
  <2> DEFINE t == req[p].thread
             e == [snap[p][t] EXCEPT !.updated = clock]
  <2>1. t \in Thread /\ snap[p][t] \in Entry
    BY <1>3, RequestInPhase DEF OpenFile, TypeOK, Snapshot
  <2>2. e.archived = snap[p][t].archived /\ Revise(p, t, e)
    BY <1>3, <2>1 DEF OpenFile, Entry
  <2>3. place[t] = "archived" => e.archived
    BY <1>3, <2>2 DEF OpenFile, FileThere, PathOf
  <2> HIDE DEF e
  <2> QED BY <1>3, <2>1, <2>2, <2>3, ReviseMoves DEF OpenFile, store
<1>4. ASSUME NEW p \in Proc, OthersIdle(p), WriteLine(p) \/ TruncateTmp(p) PROVE MoveInv'
  BY <1>0, <1>4 DEF WriteLine, TruncateTmp
<1>5. ASSUME NEW p \in Proc, OthersIdle(p), WriteNewline(p) PROVE MoveInv'
  <2> DEFINE t == req[p].thread
             e == [snap[p][t] EXCEPT !.count = @ + 1]
  <2>1. t \in Thread /\ snap[p][t] \in Entry
    BY <1>5, RequestInPhase DEF WriteNewline, TypeOK, Snapshot
  <2>2. /\ e.archived = snap[p][t].archived /\ e.listed = snap[p][t].listed
        /\ e.updated = snap[p][t].updated /\ Revise(p, t, e)
    BY <1>5, <2>1 DEF WriteNewline, Entry
  <2>3. e.listed /\ ~e.archived /\ place[t] = "archived" => e.updated < clock
    BY <2>1, <2>2 DEF MoveInv, Repairable
  <2> HIDE DEF e
  <2> QED BY <1>5, <2>1, <2>2, <2>3, ReviseMoves DEF WriteNewline
<1>6. ASSUME NEW p \in Proc, OthersIdle(p), NEW t \in Thread, BeginCreate(p, t) \/ BeginResume(p, t)
      PROVE  MoveInv'
  BY <1>6, StartMoves DEF BeginCreate, BeginResume, store
<1>7. ASSUME NEW p \in Proc, OthersIdle(p), CreateFile(p) PROVE MoveInv'
  <2>1. req[p].thread \in Thread /\ Revise(p, req[p].thread, NewEntry(clock))
    BY <1>7, RequestInPhase DEF CreateFile
  <2>2. /\ place'[req[p].thread] = "active"
        /\ \A u \in Thread : u # req[p].thread => place'[u] = place[u]
    BY <1>7, <2>1 DEF CreateFile, TypeOK
  <2> QED BY <1>7, <2>1, <2>2, ReviseMoves DEF CreateFile
<1>8. ASSUME NEW p \in Proc, OthersIdle(p), BeginArchive(p) PROVE MoveInv'
  <2>1. \A t \in todo'[p] : Stale(index.threads[t])
    BY <1>8 DEF BeginArchive, TypeOK
  <2> QED BY <1>8, <2>1, StartMoves DEF BeginArchive, store
<1>9. ASSUME NEW p \in Proc, OthersIdle(p), NEW t \in Thread, MoveFile(p, t) PROVE MoveInv'
  <2> DEFINE e == [snap[p][t] EXCEPT !.archived = TRUE]
  <2>1. e.archived /\ Revise(p, t, e)
    BY <1>9 DEF MoveFile, TypeOK, Snapshot, Entry
  <2>2. Stale(index.threads[t]) /\ todo'[p] \subseteq todo[p]
    BY <1>9 DEF MoveFile, MoveInv, TypeOK
  <2>3. \A u \in Thread : u # t => place'[u] = place[u]
    BY <1>9 DEF MoveFile, TypeOK
  <2> HIDE DEF e
  <2> QED BY <1>9, <2>1, <2>2, <2>3, ReviseMoves DEF MoveFile
<1>10. ASSUME NEW p \in Proc, OthersIdle(p), Unarchive(p) PROVE MoveInv'
  <2> DEFINE t == req[p].thread
             e == [snap[p][t] EXCEPT !.archived = FALSE]
  <2>1. t \in Thread /\ Revise(p, t, e)
    BY <1>10, RequestInPhase DEF Unarchive
  <2>2. place'[t] # "archived" /\ \A u \in Thread : u # t => place'[u] = place[u]
    BY <1>10, <2>1 DEF Unarchive, TypeOK
  <2> HIDE DEF e
  <2> QED BY <1>10, <2>1, <2>2, ReviseMoves DEF Unarchive
<1>11. ASSUME NEW p \in Proc, OthersIdle(p), NEW t \in Thread, BeginSetSession(p, t) PROVE MoveInv'
  <2> DEFINE s == [index.threads EXCEPT ![t].session = TRUE]
  <2>1. \A u \in Thread : /\ s[u].listed = index.threads[u].listed
                          /\ s[u].archived = index.threads[u].archived
                          /\ s[u].updated = index.threads[u].updated
    BY DEF TypeOK, Content, Snapshot, Entry
  <2> HIDE DEF s
  <2> QED BY <1>11, <2>1, StartMoves DEF BeginSetSession, store, s
<1>12. ASSUME NEW p \in Proc, OthersIdle(p), WriteTmp(p) PROVE MoveInv'
  <2>1. UNCHANGED index
    BY <1>12, LonePublish
  <2> QED BY <1>0, <1>12, <2>1 DEF WriteTmp
<1>13. ASSUME NEW p \in Proc, OthersIdle(p), RenameTmp(p) PROVE MoveInv'
  <2>1. index'.threads = snap[p] /\ UNCHANGED <<place, clock>> /\ Leave(p)
    BY <1>13, LonePublish DEF RenameTmp, Json
  <2>2. Repairable(index.threads)'
    BY <2>1 DEF MoveInv, Repairable
  <2> QED BY <1>13, <2>1, <2>2, LeaveMoves
<1>14. CASE Tick
  <2>1. \A th \in Snapshot : Repairable(th) => Repairable(th)'
    BY <1>14 DEF Tick, store, Repairable, TypeOK, Snapshot, Entry
  <2>2. \A e \in Entry : Stale(e) => Stale(e)'
    BY <1>14 DEF Tick, Stale, TypeOK, Entry
  <2>3. index.threads \in Snapshot /\ \A p \in Proc : snap[p] \in Snapshot
    BY DEF TypeOK, Content
  <2>4. \A p \in Proc : \A t \in todo[p] : index.threads[t] \in Entry
    BY <2>3 DEF TypeOK, Snapshot
  <2>5. UNCHANGED <<index, snap, todo>>
    BY <1>14 DEF Tick, store, local
  <2> QED BY <2>1, <2>2, <2>3, <2>4, <2>5 DEF MoveInv
<1>15. CASE UNCHANGED vars
  BY <1>0, <1>15 DEF vars
<1> QED BY <1>1, <1>2, <1>3, <1>4, <1>5, <1>6, <1>7, <1>8, <1>9, <1>10, <1>11, <1>12, <1>13,
          <1>14, <1>15, TakesTurns DEF Next, ProcStep, AppendStep, ThreadStep, PublishStep

\* A move that was cut off before the index was written is one the next
\* auto_archive repairs, of whichever process: the entry is still old enough
\* for it (conversation.rs:305-327).
THEOREM CutMovesRepaired == Spec /\ []Solo => []MoveRepairable
<1>1. TInv /\ IdleInv /\ Solo /\ Solo' /\ LoneWrite /\ MoveInv /\ [Next]_vars =>
        LoneWrite' /\ MoveInv'
  BY StepLone, StepMoves
<1>2. Spec /\ []Solo => [](TInv /\ IdleInv /\ LoneWrite /\ MoveInv)
  BY <1>1, InitTyped, StepTyped, InitIdle, StepIdle, InitLone, InitMoves, PTL DEF Spec
<1>3. MoveInv => MoveRepairable
  BY DEF MoveInv, Repairable, MoveRepairable
<1> QED BY <1>2, <1>3, PTL
\* A file in which every line is there for its readers, and the one due.
Tidy(f)  == Kept(f) = Lines(f)
Ended(f) == f = <<>> \/ f[Len(f)] = NL

LEMMA KeptAreLines == \A f : Kept(f) \subseteq Lines(f)
BY DEF Kept, Intact, Lines

LEMMA TidyLine ==
  ASSUME NEW f \in Seq(Msg \cup {NL}), NEW x \in Msg, Tidy(f), Ended(f),
         \A i \in Kept(f) : RunOf[x] # NoRun => RunAt(f, i) # RunOf[x]
  PROVE  Tidy(Append(f, x))
<1> DEFINE g == Append(f, x)
           n == Len(f)
<1>1. /\ n \in Nat /\ Len(g) = n + 1 /\ DOMAIN f = 1 .. n /\ DOMAIN g = 1 .. n + 1
      /\ \A i \in 1 .. n : g[i] = f[i]
      /\ g[n + 1] = x /\ x # NL
  BY MsgAssumption
<1>2. \A i \in Lines(f) : i \in Kept(f) /\ i \in Intact(f) /\ i \in 1 .. n /\ i < n
  <2>1. \A i \in Lines(f) : i \in Kept(f) /\ i \in Intact(f)
    BY DEF Tidy, Kept
  <2>2. \A i \in Lines(f) : i \in 1 .. n /\ f[i] # NL
    BY <1>1 DEF Lines
  <2>3. \A i \in 1 .. n : f # <<>>
    BY <1>1
  <2> QED BY <1>1, <2>1, <2>2, <2>3 DEF Ended
<1>3. \A i \in Lines(g) : i \in Lines(f) \/ i = n + 1
  BY <1>1 DEF Lines
<1>4. \A i \in Lines(g) : i \in Intact(g)
  <2>1. ASSUME NEW i \in Lines(f) PROVE i \in Intact(g)
    BY <1>1, <1>2, <2>1 DEF Intact
  <2>2. n + 1 \in Intact(g)
    <3>1. n = 0 \/ g[n] = NL
      <4>1. CASE f = <<>>
        BY <4>1
      <4>2. CASE f[n] = NL /\ n # 0
        <5>1. n \in 1 .. n
          BY <1>1, <4>2
        <5> QED BY <1>1, <4>2, <5>1
      <4> QED BY <4>1, <4>2 DEF Ended
    <3>2. n + 1 = 1 \/ g[(n + 1) - 1] = NL
      <4> HIDE DEF g
      <4> QED BY <1>1, <3>1
    <3>3. n + 1 \in DOMAIN g /\ g[n + 1] # NL
      BY <1>1
    <3> HIDE DEF g, n
    <3> QED BY <1>1, <3>2, <3>3 DEF Intact
  <2> QED BY <1>3, <2>1, <2>2
<1>5. \A i \in Intact(g) : i \in Lines(g)
  BY DEF Intact, Lines
<1>6. ASSUME NEW i \in Lines(f) PROVE i \in Kept(g)
  <2>1. i \in Intact(g) /\ i \in Kept(f) /\ i \in 1 .. n
    BY <1>1, <1>2, <1>4 DEF Lines
  <2>2. \A j \in Intact(g) : j < i => j \in Intact(f) /\ j \in 1 .. n
    BY <1>1, <1>2, <1>3, <1>5, <2>1
  <2>3. \A j \in 1 .. n : RunAt(g, j) = RunAt(f, j)
    BY <1>1 DEF RunAt
  <2> QED BY <2>1, <2>2, <2>3 DEF Kept
<1>7. n + 1 \in Kept(g)
  <2>1. n + 1 \in Intact(g) /\ RunAt(g, n + 1) = RunOf[x]
    BY <1>1, <1>4 DEF Lines, RunAt
  <2>2. \A j \in Intact(g) : j < n + 1 => j \in Kept(f) /\ RunAt(g, j) = RunAt(f, j)
    BY <1>1, <1>2, <1>3, <1>5 DEF RunAt
  <2> QED BY <2>1, <2>2 DEF Kept
<1>8. Lines(g) \subseteq Kept(g)
  BY <1>3, <1>6, <1>7
<1> QED BY <1>8, KeptAreLines DEF Tidy

LEMMA TidyNewline ==
  ASSUME NEW f \in Seq(Msg \cup {NL}), Tidy(f)
  PROVE  /\ Tidy(Append(f, NL)) /\ Ended(Append(f, NL))
         /\ Lines(Append(f, NL)) = Lines(f)
<1> DEFINE g == Append(f, NL)
           n == Len(f)
<1>1. /\ n \in Nat /\ Len(g) = n + 1 /\ DOMAIN f = 1 .. n /\ DOMAIN g = 1 .. n + 1
      /\ \A i \in 1 .. n : g[i] = f[i]
      /\ g[n + 1] = NL /\ g # <<>>
  OBVIOUS
<1>2. Lines(g) = Lines(f)
  BY <1>1 DEF Lines
<1>3. \A i \in Lines(f) : i \in Kept(f) /\ i \in Intact(f) /\ i \in 1 .. n
  BY <1>1 DEF Tidy, Kept, Lines
<1>4. \A i \in Lines(f) : i \in Intact(g)
  BY <1>1, <1>3 DEF Intact
<1>5. \A j \in Intact(g) : j \in Lines(f) /\ j \in Intact(f) /\ RunAt(g, j) = RunAt(f, j)
  <2>1. \A j \in Intact(g) : j \in Lines(g)
    BY DEF Intact, Lines
  <2> QED BY <1>1, <1>2, <1>3, <2>1 DEF RunAt
<1>6. \A i \in Lines(f) : i \in Kept(g)
  BY <1>3, <1>4, <1>5 DEF Kept
<1> QED BY <1>1, <1>2, <1>6, KeptAreLines DEF Tidy, Ended

\* What a snapshot says of a thread, but for n lines that it does not count yet.
Exact(th, t, n) ==
  /\ th[t].listed <=> place[t] # "none"
  /\ th[t].listed => place[t] = PathOf(th[t])
  /\ th[t].count + n = Cardinality(Lines(file[t]))

Due(p, t) == IF pc[p] = "newline" /\ req[p].thread = t THEN 1 ELSE 0

FilesTidy ==
  \A t \in Thread : /\ Tidy(file[t])
                    /\ Ended(file[t]) \/ \E p \in Proc : pc[p] = "newline" /\ req[p].thread = t
                    /\ place[t] = "none" => file[t] = <<>>

RequestSafe ==
  \A p \in Proc : /\ pc[p] \in {"line", "newline"} => place[req[p].thread] # "none"
                  /\ pc[p] = "line" => SameRun(req[p].thread, req[p].msg) = {}
                  /\ pc[p] = "create" => place[req[p].thread] = "none"

IndexExact ==
  (\A p \in Proc : pc[p] \in {"idle", "open"}) =>
    \A t \in Thread : Exact(index.threads, t, 0)

SnapExact ==
  \A p \in Proc : pc[p] # "idle" => \A t \in Thread : Exact(snap[p], t, Due(p, t))

ExactInv == FilesTidy /\ RequestSafe /\ IndexExact /\ SnapExact

LEMMA InitExact == Init => ExactInv
<1> SUFFICES ASSUME Init PROVE ExactInv
  OBVIOUS
<1>1. \A t \in Thread : file[t] = <<>> /\ place[t] = "none"
  BY DEF Init
<1>2. Lines(<<>>) = {} /\ Kept(<<>>) = {}
  BY DEF Lines, Kept, Intact
<1>3. FilesTidy
  BY <1>1, <1>2 DEF FilesTidy, Tidy, Ended
<1>4. \A t \in Thread : Exact(index.threads, t, 0)
  <2>1. \A t \in Thread : index.threads[t].listed = FALSE /\ index.threads[t].count = 0
    BY DEF Init, Missing, NoThreads, Unlisted
  <2>2. Cardinality(Lines(<<>>)) = 0
    BY <1>2, FS_EmptySet
  <2> QED BY <1>1, <2>1, <2>2 DEF Exact
<1> QED BY <1>3, <1>4 DEF Init, ExactInv, RequestSafe, IndexExact, SnapExact
\* Files in which nobody is between a line and its newline stay tidy.
LEMMA TidyStays ==
  ASSUME ExactInv, NEW p \in Proc, OthersIdle(p), pc[p] # "newline", UNCHANGED file,
         \A t \in Thread : place'[t] = "none" => place[t] = "none"
  PROVE  FilesTidy'
<1>1. \A t \in Thread : Tidy(file[t]) /\ Ended(file[t]) /\ (place[t] = "none" => file[t] = <<>>)
  BY DEF ExactInv, FilesTidy, OthersIdle
<1> QED BY <1>1 DEF FilesTidy

\* The operation begins with a snapshot that agrees with the files.
LEMMA StartExact ==
  ASSUME TInv, ExactInv, NEW p \in Proc, OthersIdle(p), NEW r, NEW s,
         NEW next \in {"open", "create", "move", "unarchive", "trunc"}, Start(p, r, s, next),
         \A t \in Thread : /\ s[t].listed = index.threads[t].listed
                           /\ s[t].archived = index.threads[t].archived
                           /\ s[t].count = index.threads[t].count,
         next = "create" => place[r.thread] = "none",
         UNCHANGED <<index, place, file>>
  PROVE  ExactInv'
<1>1. pc[p] = "idle" /\ pc'[p] = next /\ req'[p] = r /\ snap'[p] = s
  BY StartIs DEF TInv
<1>2. \A t \in Thread : Exact(index.threads, t, 0)
  BY <1>1 DEF ExactInv, IndexExact, OthersIdle
<1>3. \A t \in Thread : Exact(index.threads, t, 0)' /\ Exact(s, t, 0)'
  BY <1>2 DEF Exact, PathOf
<1>4. IndexExact'
  BY <1>3 DEF IndexExact
<1>5. SnapExact'
  <2>1. \A t \in Thread : Due(p, t)' = 0
    BY <1>1 DEF Due
  <2>2. ASSUME NEW t \in Thread PROVE Exact(snap[p], t, Due(p, t))'
    BY <1>1, <1>3, <2>1 DEF Exact
  <2> QED BY <2>2 DEF SnapExact, OthersIdle
<1>6. FilesTidy'
  BY <1>1, TidyStays
<1>7. RequestSafe'
  BY <1>1 DEF RequestSafe, OthersIdle
<1> QED BY <1>4, <1>5, <1>6, <1>7 DEF ExactInv

\* It ends with the index as it was, or with its own snapshot.
LEMMA LeaveExact ==
  ASSUME TInv, ExactInv, NEW p \in Proc, OthersIdle(p), Leave(p), pc[p] # "newline",
         UNCHANGED <<place, file>>,
         \/ pc[p] = "open" /\ UNCHANGED index
         \/ pc[p] = "rename" /\ index'.threads = snap[p]
  PROVE  ExactInv'
<1>1. \A q \in Proc : pc'[q] = "idle"
  BY LeaveIs DEF TInv, OthersIdle
<1>2. \A t \in Thread : Exact(index'.threads, t, 0)
  <2>1. CASE pc[p] = "open" /\ UNCHANGED index
    BY <2>1 DEF ExactInv, IndexExact, OthersIdle
  <2>2. CASE pc[p] = "rename" /\ index'.threads = snap[p]
    <3>1. \A t \in Thread : Due(p, t) = 0
      BY <2>2 DEF Due
    <3>2. \A t \in Thread : Exact(snap[p], t, Due(p, t))
      BY <2>2 DEF ExactInv, SnapExact
    <3> QED BY <2>2, <3>1, <3>2
  <2> QED BY <2>1, <2>2
<1>3. \A t \in Thread : Exact(index.threads, t, 0)'
  BY <1>2 DEF Exact
<1>4. FilesTidy'
  BY TidyStays
<1> QED BY <1>1, <1>3, <1>4 DEF ExactInv, IndexExact, SnapExact, RequestSafe

\* It changes the entry of one thread, with the place of its file.
LEMMA ReviseExact ==
  ASSUME TInv, ExactInv, NEW p \in Proc, OthersIdle(p), NEW t \in Thread, NEW e, Revise(p, t, e),
         NEW next \in {"line", "move", "trunc"}, Goto(p, next),
         pc[p] \notin {"idle", "newline"}, UNCHANGED <<index, file, req>>,
         \A u \in Thread : u # t => place'[u] = place[u],
         place'[t] = "none" => place[t] = "none",
         e.listed <=> place'[t] # "none",
         e.listed => place'[t] = PathOf(e),
         e.count = snap[p][t].count,
         next = "line" => /\ place'[req[p].thread] # "none"
                          /\ SameRun(req[p].thread, req[p].msg) = {}
  PROVE  ExactInv'
<1>1. /\ snap'[p][t] = e /\ \A u \in Thread : u # t => snap'[p][u] = snap[p][u]
      /\ pc'[p] = next
  BY ReviseIs, GotoIs DEF TInv
<1>2. \A u \in Thread : Exact(snap[p], u, 0)
  <2>1. \A u \in Thread : Due(p, u) = 0
    BY DEF Due
  <2>2. \A u \in Thread : Exact(snap[p], u, Due(p, u))
    BY DEF ExactInv, SnapExact
  <2> QED BY <2>1, <2>2
<1>3. ASSUME NEW u \in Thread PROVE Exact(snap[p], u, 0)'
  <2>1. CASE u = t
    BY <1>1, <1>2, <2>1 DEF Exact
  <2>2. CASE u # t
    BY <1>1, <1>2, <2>2 DEF Exact, PathOf
  <2> QED BY <2>1, <2>2
<1>4. SnapExact'
  <2>1. \A u \in Thread : Due(p, u)' = 0
    BY <1>1 DEF Due
  <2>2. ASSUME NEW u \in Thread PROVE Exact(snap[p], u, Due(p, u))'
    BY <1>3, <2>1
  <2> QED BY <2>2 DEF SnapExact, OthersIdle
<1>5. IndexExact'
  BY <1>1 DEF IndexExact
<1>6. FilesTidy'
  BY TidyStays
<1>7. RequestSafe'
  <2>1. ASSUME NEW q \in Proc
        PROVE  /\ pc'[q] \in {"line", "newline"} => place'[req'[q].thread] # "none"
               /\ pc'[q] = "line" => SameRun(req[q].thread, req[q].msg)' = {}
               /\ pc'[q] # "create"
    <3>1. CASE q # p
      BY <3>1 DEF OthersIdle
    <3>2. CASE q = p
      <4>1. SameRun(req[p].thread, req[p].msg)' = SameRun(req[p].thread, req[p].msg)
        BY DEF SameRun, RunAt, Kept
      <4> QED BY <1>1, <3>2, <4>1
    <3> QED BY <3>1, <3>2
  <2> QED BY <2>1 DEF RequestSafe
<1> QED BY <1>4, <1>5, <1>6, <1>7 DEF ExactInv

LEMMA StepExact ==
  ASSUME TInv, IdleInv, Solo, Solo', LoneWrite, ExactInv, [Next]_vars, UNCHANGED crashes
  PROVE  ExactInv'
<1> USE DEF TInv
<1>0. ASSUME UNCHANGED <<index, place, file, pc, req, snap>> PROVE ExactInv'
  BY <1>0 DEF ExactInv, FilesTidy, RequestSafe, IndexExact, SnapExact, Exact, Due, SameRun,
              RunAt, Kept
<1>1. ASSUME NEW p \in Proc, OthersIdle(p), NEW t \in Thread, NEW m \in Msg, BeginAppend(p, t, m)
      PROVE  ExactInv'
  BY <1>1, StartExact DEF BeginAppend, store
<1>2. ASSUME NEW p \in Proc, OthersIdle(p), DedupHit(p) \/ OpenFails(p) PROVE ExactInv'
  BY <1>2, LeaveExact DEF DedupHit, OpenFails, store
<1>3. ASSUME NEW p \in Proc, OthersIdle(p), OpenFile(p) PROVE ExactInv'
  <2> DEFINE t == req[p].thread
             e == [snap[p][t] EXCEPT !.updated = clock]
  <2>1. t \in Thread /\ snap[p][t] \in Entry
    BY <1>3, RequestInPhase DEF OpenFile, TypeOK, Snapshot
  <2>2. /\ e.archived = snap[p][t].archived /\ e.listed = snap[p][t].listed
        /\ e.count = snap[p][t].count /\ Revise(p, t, e) /\ Goto(p, "line")
    BY <1>3, <2>1 DEF OpenFile, Entry
  <2>3. Exact(snap[p], t, Due(p, t))
    BY <1>3, <2>1 DEF OpenFile, ExactInv, SnapExact
  <2>4. place[t] = PathOf(snap[p][t]) /\ place[t] # "none" /\ PathOf(e) = PathOf(snap[p][t])
    BY <1>3, <2>2 DEF OpenFile, FileThere, PathOf
  <2>5. (e.listed <=> place[t] # "none") /\ (e.listed => place[t] = PathOf(e))
    BY <2>2, <2>3, <2>4, Zenon DEF Exact
  <2>6. UNCHANGED <<index, place, file, req>> /\ SameRun(t, req[p].msg) = {} /\ pc[p] = "open"
    BY <1>3 DEF OpenFile, store
  <2> HIDE DEF e
  <2> QED BY <1>3, <2>1, <2>2, <2>4, <2>5, <2>6, ReviseExact
<1>4. ASSUME NEW p \in Proc, OthersIdle(p), WriteLine(p) PROVE ExactInv'
  <2> DEFINE t == req[p].thread
             m == req[p].msg
  <2>1. t \in Thread /\ m \in Msg /\ m # NL
    BY <1>4, RequestInPhase, MsgAssumption DEF WriteLine
  <2>2. /\ file'[t] = Append(file[t], m) /\ \A u \in Thread : u # t => file'[u] = file[u]
        /\ file[t] \in Seq(Msg \cup {NL}) /\ pc'[p] = "newline"
        /\ UNCHANGED <<index, place, req, snap>> /\ pc[p] = "line"
    BY <1>4, <2>1 DEF WriteLine, Goto, TypeOK
  <2>3. place[t] # "none" /\ SameRun(t, m) = {}
    BY <2>2 DEF ExactInv, RequestSafe
  <2>4. \A u \in Thread : Tidy(file[u]) /\ Ended(file[u]) /\ (place[u] = "none" => file[u] = <<>>)
    BY <1>4, <2>2 DEF ExactInv, FilesTidy, OthersIdle
  <2>5. Tidy(file'[t])
    <3>1. \A i \in Kept(file[t]) : RunOf[m] # NoRun => RunAt(file[t], i) # RunOf[m]
      BY <2>3 DEF SameRun
    <3> HIDE DEF t, m
    <3> QED BY <2>1, <2>2, <2>4, <3>1, TidyLine
  <2>6. FilesTidy'
    <3>1. ASSUME NEW u \in Thread
          PROVE  /\ Tidy(file'[u]) /\ (place'[u] = "none" => file'[u] = <<>>)
                 /\ Ended(file'[u]) \/ \E q \in Proc : pc'[q] = "newline" /\ req'[q].thread = u
      BY <2>2, <2>3, <2>4, <2>5
    <3> QED BY <3>1 DEF FilesTidy
  <2>7. RequestSafe' /\ IndexExact'
    BY <1>4, <2>2, <2>3 DEF RequestSafe, IndexExact, OthersIdle
  <2>8. SnapExact'
    <3>1. ASSUME NEW u \in Thread PROVE Exact(snap[p], u, Due(p, u))'
      <4>1. Exact(snap[p], u, 0) /\ snap[p][u].count \in Nat
        BY <2>2 DEF ExactInv, SnapExact, Due, TypeOK, Snapshot, Entry
      <4>2. CASE u = t
        <5>1. Due(p, u)' = 1
          BY <2>2, <4>2 DEF Due
        <5>2. /\ Cardinality(Lines(file'[u])) = Cardinality(Lines(file[u])) + 1
              /\ Cardinality(Lines(file[u])) \in Nat
          <6>1. m \in Msg \cup {NL}
            BY <2>1
          <6> HIDE DEF t, m
          <6> QED BY <2>1, <2>2, <4>2, <6>1, LinesGrow
        <5>3. snap[p][u].count + 1 = Cardinality(Lines(file'[u]))
          BY <4>1, <5>2 DEF Exact
        <5>4. snap'[p] = snap[p] /\ place' = place
          BY <2>2
        <5> QED BY <4>1, <5>1, <5>3, <5>4 DEF Exact
      <4>3. CASE u # t
        <5>1. Due(p, u)' = 0
          BY <2>2, <4>3 DEF Due
        <5> QED BY <2>2, <4>1, <4>3, <5>1 DEF Exact
      <4> QED BY <4>2, <4>3
    <3> QED BY <1>4, <3>1 DEF SnapExact, OthersIdle
  <2> QED BY <2>6, <2>7, <2>8 DEF ExactInv
<1>5. ASSUME NEW p \in Proc, OthersIdle(p), WriteNewline(p) PROVE ExactInv'
  <2> DEFINE t == req[p].thread
             e == [snap[p][t] EXCEPT !.count = @ + 1]
  <2>1. t \in Thread /\ snap[p][t] \in Entry
    BY <1>5, RequestInPhase DEF WriteNewline, TypeOK, Snapshot
  <2>2. /\ file'[t] = Append(file[t], NL) /\ \A u \in Thread : u # t => file'[u] = file[u]
        /\ file[t] \in Seq(Msg \cup {NL}) /\ pc'[p] = "trunc"
        /\ UNCHANGED <<index, place, req>> /\ pc[p] = "newline"
    BY <1>5, <2>1 DEF WriteNewline, Goto, TypeOK
  <2>3. /\ e.archived = snap[p][t].archived /\ e.listed = snap[p][t].listed
        /\ e.count = snap[p][t].count + 1 /\ snap[p][t].count \in Nat
        /\ Revise(p, t, e)
    BY <1>5, <2>1 DEF WriteNewline, Entry
  <2>4. snap'[p][t] = e /\ \A u \in Thread : u # t => snap'[p][u] = snap[p][u]
    <3> HIDE DEF t, e
    <3> QED BY <2>1, <2>3, ReviseIs
  <2>5. place[t] # "none"
    BY <2>2 DEF ExactInv, RequestSafe
  <2>6. \A u \in Thread : /\ Tidy(file[u]) /\ (place[u] = "none" => file[u] = <<>>)
                          /\ u # t => Ended(file[u])
    BY <1>5, <2>2 DEF ExactInv, FilesTidy, OthersIdle
  <2>7. Tidy(file'[t]) /\ Ended(file'[t]) /\ Lines(file'[t]) = Lines(file[t])
    <3> HIDE DEF t
    <3> QED BY <2>1, <2>2, <2>6, TidyNewline
  <2>8. FilesTidy'
    <3>1. ASSUME NEW u \in Thread
          PROVE  /\ Tidy(file'[u]) /\ (place'[u] = "none" => file'[u] = <<>>)
                 /\ Ended(file'[u])
      BY <2>2, <2>5, <2>6, <2>7
    <3> QED BY <3>1 DEF FilesTidy
  <2>9. RequestSafe' /\ IndexExact'
    BY <1>5, <2>2 DEF RequestSafe, IndexExact, OthersIdle
  <2>10. SnapExact'
    <3>1. ASSUME NEW u \in Thread PROVE Exact(snap[p], u, Due(p, u))'
      <4>1. Exact(snap[p], u, Due(p, u)) /\ Due(p, u)' = 0
        BY <2>2 DEF ExactInv, SnapExact, Due
      <4>2. CASE u = t
        <5>1. Due(p, u) = 1
          BY <2>2, <4>2 DEF Due
        <5>2. snap[p][u].count + 1 = Cardinality(Lines(file'[u]))
          BY <2>7, <4>1, <4>2, <5>1 DEF Exact
        <5>3. /\ snap'[p][u].listed = snap[p][u].listed
              /\ snap'[p][u].archived = snap[p][u].archived
              /\ snap'[p][u].count = snap[p][u].count + 1 /\ snap[p][u].count \in Nat
          BY <2>3, <2>4, <4>2
        <5>4. snap'[p][u].count + 0 = Cardinality(Lines(file'[u]))
          BY <5>2, <5>3
        <5> QED BY <2>2, <4>1, <5>3, <5>4 DEF Exact, PathOf
      <4>3. CASE u # t
        <5>1. Due(p, u) = 0
          BY <4>3 DEF Due
        <5> QED BY <2>2, <2>4, <4>1, <4>3, <5>1 DEF Exact, PathOf
      <4> QED BY <4>2, <4>3
    <3> QED BY <1>5, <3>1 DEF SnapExact, OthersIdle
  <2> QED BY <2>8, <2>9, <2>10 DEF ExactInv
<1>6. ASSUME NEW p \in Proc, OthersIdle(p), NEW t \in Thread, BeginCreate(p, t) \/ BeginResume(p, t)
      PROVE  ExactInv'
  BY <1>6, StartExact DEF BeginCreate, BeginResume, ThreadOp, store
<1>7. ASSUME NEW p \in Proc, OthersIdle(p), BeginArchive(p) PROVE ExactInv'
  BY <1>7, StartExact DEF BeginArchive, store
<1>8. ASSUME NEW p \in Proc, OthersIdle(p), NEW t \in Thread, BeginSetSession(p, t) PROVE ExactInv'
  <2> DEFINE s == [index.threads EXCEPT ![t].session = TRUE]
  <2>1. \A u \in Thread : /\ s[u].listed = index.threads[u].listed
                          /\ s[u].archived = index.threads[u].archived
                          /\ s[u].count = index.threads[u].count
    BY DEF TypeOK, Content, Snapshot, Entry
  <2> HIDE DEF s
  <2> QED BY <1>8, <2>1, StartExact DEF BeginSetSession, store, s
<1>9. ASSUME NEW p \in Proc, OthersIdle(p), CreateFile(p) PROVE ExactInv'
  <2> DEFINE t == req[p].thread
             e == NewEntry(clock)
  <2>1. t \in Thread /\ pc[p] = "create" /\ place[t] = "none"
    BY <1>9, RequestInPhase DEF CreateFile, ExactInv, RequestSafe
  <2>2. /\ e.listed /\ ~e.archived /\ e.count = 0 /\ Revise(p, t, e) /\ PathOf(e) = "active"
        /\ place'[t] = "active" /\ \A u \in Thread : u # t => place'[u] = place[u]
        /\ UNCHANGED <<index, file, req>> /\ Goto(p, "trunc")
    BY <1>9, <2>1 DEF CreateFile, NewEntry, Unlisted, TypeOK, PathOf
  <2>3. snap[p][t].count = 0
    <3>1. file[t] = <<>> /\ Exact(snap[p], t, Due(p, t)) /\ Due(p, t) = 0
      BY <2>1 DEF ExactInv, FilesTidy, SnapExact, Due
    <3>2. Cardinality(Lines(<<>>)) = 0
      BY FS_EmptySet DEF Lines
    <3>3. snap[p][t].count \in Nat
      BY <2>1 DEF TypeOK, Snapshot, Entry
    <3> QED BY <3>1, <3>2, <3>3 DEF Exact
  <2> HIDE DEF e
  <2> QED BY <1>9, <2>1, <2>2, <2>3, ReviseExact
<1>10. ASSUME NEW p \in Proc, OthersIdle(p), NEW t \in Thread, MoveFile(p, t) PROVE ExactInv'
  <2> DEFINE e == [snap[p][t] EXCEPT !.archived = TRUE]
             next == IF todo[p] = {t} THEN "trunc" ELSE "move"
  <2>1. /\ e.archived /\ e.listed = snap[p][t].listed /\ e.count = snap[p][t].count
        /\ PathOf(e) = "archived" /\ Revise(p, t, e) /\ Goto(p, next)
        /\ next \in {"move", "trunc"} /\ UNCHANGED <<index, file, req>> /\ pc[p] = "move"
    BY <1>10 DEF MoveFile, TypeOK, Snapshot, Entry, PathOf
  <2>2. /\ place'[t] = IF place[t] = "active" THEN "archived" ELSE place[t]
        /\ \A u \in Thread : u # t => place'[u] = place[u]
        /\ place[t] \in {"none", "active", "archived"}
    BY <1>10 DEF MoveFile, TypeOK
  <2>3. snap[p][t].listed <=> place[t] # "none"
    BY <2>1 DEF ExactInv, SnapExact, Exact
  <2>4. (e.listed <=> place'[t] # "none") /\ (e.listed => place'[t] = PathOf(e))
        /\ (place'[t] = "none" => place[t] = "none")
    BY <2>1, <2>2, <2>3
  <2> HIDE DEF e, next
  <2> QED BY <1>10, <2>1, <2>2, <2>4, ReviseExact
<1>11. ASSUME NEW p \in Proc, OthersIdle(p), Unarchive(p) PROVE ExactInv'
  <2> DEFINE t == req[p].thread
             e == [snap[p][t] EXCEPT !.archived = FALSE]
  <2>1. t \in Thread /\ pc[p] = "unarchive"
    BY <1>11, RequestInPhase DEF Unarchive
  <2>2. /\ ~e.archived /\ e.listed = snap[p][t].listed /\ e.count = snap[p][t].count
        /\ PathOf(e) = "active" /\ Revise(p, t, e) /\ Goto(p, "trunc")
        /\ UNCHANGED <<index, file, req>>
    BY <1>11, <2>1 DEF Unarchive, TypeOK, Snapshot, Entry, PathOf
  <2>3. /\ place'[t] = IF place[t] = "archived" THEN "active" ELSE place[t]
        /\ \A u \in Thread : u # t => place'[u] = place[u]
        /\ place[t] \in {"none", "active", "archived"}
    BY <1>11, <2>1 DEF Unarchive, TypeOK
  <2>4. snap[p][t].listed <=> place[t] # "none"
    BY <2>1 DEF ExactInv, SnapExact, Exact
  <2> HIDE DEF e, t
  <2>5. (e.listed <=> place'[t] # "none") /\ (e.listed => place'[t] = PathOf(e))
        /\ (place'[t] = "none" => place[t] = "none")
    BY <2>2, <2>3, <2>4
  <2> QED BY <1>11, <2>1, <2>2, <2>3, <2>5, ReviseExact
<1>12. ASSUME NEW p \in Proc, OthersIdle(p), TruncateTmp(p) \/ WriteTmp(p) PROVE ExactInv'
  <2>1. /\ pc[p] \in {"trunc", "write"} /\ pc'[p] \in {"write", "rename"}
        /\ UNCHANGED <<place, file, req, snap>>
    BY <1>12 DEF TruncateTmp, WriteTmp, Goto, TypeOK
  <2>2. FilesTidy'
    BY <1>12, <2>1, TidyStays
  <2>3. \A t \in Thread : Exact(snap[p], t, 0)
    BY <2>1 DEF ExactInv, SnapExact, Due
  <2>4. ASSUME NEW t \in Thread PROVE Exact(snap[p], t, Due(p, t))'
    <3>1. Due(p, t)' = 0
      BY <2>1 DEF Due
    <3> QED BY <2>1, <2>3, <3>1 DEF Exact
  <2>5. SnapExact' /\ IndexExact' /\ RequestSafe'
    BY <1>12, <2>1, <2>4 DEF SnapExact, IndexExact, RequestSafe, OthersIdle
  <2> QED BY <2>2, <2>5 DEF ExactInv
<1>13. ASSUME NEW p \in Proc, OthersIdle(p), RenameTmp(p) PROVE ExactInv'
  <2>1. index'.threads = snap[p]
    BY <1>13, LonePublish DEF Json
  <2> QED BY <1>13, <2>1, LeaveExact DEF RenameTmp
<1>14. ASSUME NEW p \in Proc, RenameFails(p) \/ Crash(p) PROVE FALSE
  <2>1. ~Crash(p)
    BY DEF Crash, TypeOK
  <2> QED BY <1>14, <2>1, LonePublish
<1>15. CASE Tick \/ UNCHANGED vars
  BY <1>0, <1>15 DEF Tick, vars, store, local
<1> QED BY <1>1, <1>2, <1>3, <1>4, <1>5, <1>6, <1>7, <1>8, <1>9, <1>10, <1>11, <1>12, <1>13,
          <1>14, <1>15, TakesTurns DEF Next, ProcStep, AppendStep, ThreadStep, PublishStep

\* The thread that create_thread returned has its file already.
CreateInv ==
  /\ \A t \in created : place[t] # "none"
  /\ \A p \in Proc : req[p].op = "create" /\ pc[p] # "create" => place[req[p].thread] # "none"

LEMMA InitCreates == Init => CreateInv
BY DEF Init, CreateInv, Idle
LEMMA StepCreates == TInv /\ CreateInv /\ [Next]_vars /\ Effect => CreateInv'
<1> SUFFICES ASSUME TInv, CreateInv, [Next]_vars, Effect PROVE CreateInv'
  OBVIOUS
<1>1. \A t \in Thread : place[t] # "none" => place'[t] # "none"
  BY DEF Effect, FilesStay
<1>2. ASSUME NEW p \in Proc, req'[p].op = "create", pc'[p] # "create"
      PROVE  (req'[p] = req[p] /\ pc[p] # "create") \/ CreateFile(p)
  <2> USE <1>2 DEF TInv, TypeOK
  <2>1. ASSUME NEW q \in Proc, AppendStep(q) PROVE req'[p] = req[p] /\ pc[p] # "create"
    BY <2>1 DEF AppendStep, BeginAppend, DedupHit, OpenFile, OpenFails, WriteLine,
                WriteNewline, Start, Leave, Goto, Idle, AppendOp
  <2>2. ASSUME NEW q \in Proc, ThreadStep(q)
        PROVE  (req'[p] = req[p] /\ pc[p] # "create") \/ CreateFile(p)
    <3>1. CASE \E t \in Thread : BeginCreate(q, t) \/ BeginResume(q, t) \/ BeginSetSession(q, t)
      BY <3>1 DEF BeginCreate, BeginResume, BeginSetSession, Start, ThreadOp
    <3>2. CASE BeginArchive(q)
      BY <3>2 DEF BeginArchive, Start, ArchiveOp
    <3>3. CASE CreateFile(q) \/ Unarchive(q) \/ \E t \in Thread : MoveFile(q, t)
      BY <3>3 DEF CreateFile, Unarchive, MoveFile, Goto
    <3> QED BY <2>2, <3>1, <3>2, <3>3 DEF ThreadStep
  <2>3. ASSUME NEW q \in Proc, PublishStep(q) \/ Crash(q)
        PROVE  req'[p] = req[p] /\ pc[p] # "create"
    BY <2>3 DEF PublishStep, TruncateTmp, WriteTmp, RenameTmp, RenameFails, Crash,
                Leave, Goto, Idle
  <2>4. CASE Tick \/ UNCHANGED vars
    BY <2>4 DEF Tick, vars, local
  <2> QED BY <2>1, <2>2, <2>3, <2>4 DEF Next
<1>3. ASSUME NEW p \in Proc, req'[p].op = "create", pc'[p] # "create"
      PROVE  place'[req'[p].thread] # "none"
  <2>1. CASE req'[p] = req[p] /\ pc[p] # "create"
    <3>1. req[p].thread \in Thread /\ place[req[p].thread] # "none"
      BY <1>3, <2>1, CreateRequest DEF CreateInv, TInv, TypeOK
    <3> QED BY <1>1, <2>1, <3>1
  <2>2. CASE CreateFile(p)
    <3>1. req[p].thread \in Thread
      BY <2>2, RequestInPhase DEF CreateFile, TInv
    <3> QED BY <2>2, <3>1 DEF CreateFile, TInv, TypeOK
  <2> QED BY <1>2, <1>3, <2>1, <2>2
<1>4. ASSUME NEW t \in created' PROVE place'[t] # "none"
  <2>1. CASE t \in created
    BY <1>1, <2>1 DEF CreateInv, TInv, TypeOK
  <2>2. CASE t \notin created
    <3>1. PICK p \in Proc : RenameTmp(p)
      BY <1>4, <2>2 DEF Next, AppendStep, ThreadStep, PublishStep, BeginAppend, DedupHit,
           OpenFile, OpenFails, WriteLine, WriteNewline, BeginCreate, MoveFile, BeginResume,
           BeginSetSession, CreateFile, BeginArchive, Unarchive, TruncateTmp, WriteTmp,
           RenameFails, Crash, Tick, vars
    <3>2. req[p].op = "create" /\ t = req[p].thread /\ pc[p] = "rename"
      BY <1>4, <2>2, <3>1 DEF RenameTmp
    <3>3. t \in Thread /\ place[t] # "none"
      BY <3>2, CreateRequest DEF CreateInv, TInv, TypeOK
    <3> QED BY <1>1, <3>3
  <2> QED BY <2>1, <2>2
<1>5. \A t \in created' : place'[t] # "none"
  BY <1>4
<1>6. \A p \in Proc : req'[p].op = "create" /\ pc'[p] # "create" => place'[req'[p].thread] # "none"
  BY <1>3
<1> QED BY <1>5, <1>6 DEF CreateInv

\* Between the operations of processes that take turns and were never killed,
\* index and files agree: on which threads there are, where their files are and
\* how many messages a reader finds, every acknowledged one among them
\* (conversation.rs:160-372).
THEOREM LoneStoreExact == Spec /\ []Solo => []ExactWhenQuiet
<1> DEFINE Inv == /\ TInv /\ IdleInv /\ AckInv /\ CreateInv /\ LoneWrite
                  /\ crashes = 0 => ExactInv
<1>1. Init => Inv
  BY InitTyped, InitIdle, InitAcks, InitCreates, InitLone, InitExact
<1>2. Inv /\ Solo /\ Solo' /\ [Next]_vars => Inv'
  <2> SUFFICES ASSUME Inv, Solo, Solo', [Next]_vars PROVE Inv'
    OBVIOUS
  <2>1. TInv' /\ IdleInv' /\ AckInv' /\ CreateInv' /\ LoneWrite'
    BY StepTyped, StepIdle, StepEffect, StepAcks, StepCreates, StepLone
  <2>2. ASSUME crashes' = 0 PROVE ExactInv'
    <3>1. crashes' = crashes \/ crashes' = crashes + 1
      BY ZenonT(40) DEF Next, AppendStep, ThreadStep, PublishStep, BeginAppend, DedupHit,
           OpenFile, OpenFails, WriteLine, WriteNewline, BeginCreate, MoveFile, BeginResume,
           BeginSetSession, CreateFile, BeginArchive, Unarchive, TruncateTmp, WriteTmp,
           RenameTmp, RenameFails, Crash, Tick, vars
    <3>2. crashes = 0 /\ UNCHANGED crashes
      BY <2>2, <3>1 DEF TInv, TypeOK
    <3> QED BY <3>2, StepExact
  <2> QED BY <2>1, <2>2
<1>3. Inv => ExactWhenQuiet
  <2> SUFFICES ASSUME Inv, crashes = 0, \A p \in Proc : pc[p] = "idle"
               PROVE  /\ (\A a \in acked : Shown(a)) /\ CreatedListed
                      /\ \A t \in Thread :
                           /\ index.threads[t].listed <=> place[t] # "none"
                           /\ index.threads[t].listed => place[t] = PathOf(index.threads[t])
                           /\ index.threads[t].count = Cardinality(Kept(file[t]))
    BY DEF ExactWhenQuiet
  <2>1. \A t \in Thread : Exact(index.threads, t, 0) /\ Kept(file[t]) = Lines(file[t])
    BY DEF ExactInv, IndexExact, FilesTidy, Tidy
  <2>2. \A a \in acked : Shown(a)
    <3> SUFFICES ASSUME NEW a \in acked PROVE \E i \in Kept(file[a[1]]) : file[a[1]][i] = a[2]
      BY DEF Shown
    <3>1. a[1] \in Thread /\ a[2] \in Msg /\ a[2] # NL
      BY MsgAssumption DEF TInv, TypeOK
    <3>2. PICK i \in DOMAIN file[a[1]] : file[a[1]][i] = a[2]
      BY DEF AckInv, InFile
    <3>3. i \in Lines(file[a[1]])
      BY <3>1, <3>2 DEF Lines
    <3> QED BY <2>1, <3>1, <3>2, <3>3
  <2>3. CreatedListed
    <3>1. \A t \in created : t \in Thread /\ place[t] # "none"
      BY DEF CreateInv, TInv, TypeOK
    <3> QED BY <2>1, <3>1 DEF CreatedListed, Exact
  <2>4. ASSUME NEW t \in Thread
        PROVE  /\ index.threads[t].listed <=> place[t] # "none"
               /\ index.threads[t].listed => place[t] = PathOf(index.threads[t])
               /\ index.threads[t].count = Cardinality(Kept(file[t]))
    <3>1. index.threads[t].count \in Nat
      BY DEF TInv, TypeOK, Content, Snapshot, Entry
    <3>2. index.threads[t].count + 0 = Cardinality(Kept(file[t]))
      BY <2>1 DEF Exact
    <3>3. index.threads[t].count = Cardinality(Kept(file[t]))
      BY <3>1, <3>2
    <3> QED BY <2>1, <3>3, Zenon DEF Exact
  <2> QED BY <2>2, <2>3, <2>4
<1>4. Spec /\ []Solo => []Inv
  BY <1>1, <1>2, PTL DEF Spec
<1> QED BY <1>3, <1>4, PTL
=============================================================================
