---------------------------- MODULE BridgeProofs -----------------------------
(***************************************************************************)
(* For any set of threads and any number of asks: the types; and, of the   *)
(* threads in which no two appends merged, that a command which reported a *)
(* reply left its message and, after it, one line of that run, and that    *)
(* the watcher does not answer its own echo.                               *)
(*                                                                         *)
(* All three rest on one fact of a step: a log is extended by at most one  *)
(* line, and never by a reply it holds, or its thread is spoiled from then *)
(* on.                                                                     *)
(***************************************************************************)
EXTENDS Bridge, SequenceTheorems, TLAPS

\* m is l with more lines.
Longer(l, m) == /\ m \in Seq(Line) /\ Len(l) <= Len(m)
                /\ \A i \in 1 .. Len(l) : m[i] = l[i]

\* What a step may do to the log of thread u.
Grown(u) ==
  /\ Longer(log[u], log'[u])
  /\ Len(log'[u]) <= Len(log[u]) + 1
  /\ \A i \in Len(log[u]) + 1 .. Len(log'[u]) :
       /\ log'[u][i].ask <= Len(run')
       /\ \A a \in Nat : OfRun(log'[u][i], a) => ~HasReply(log[u], a)

\* What a step may do to the threads: one that two appends spoiled may shrink.
Growing == /\ \A u \in Thread \ spoiled' : Grown(u)
           /\ spoiled \subseteq spoiled'

TInv == /\ TypeOK
        /\ sask <= Len(run) /\ wask <= Len(run)
        /\ spc \in {"connect", "chat", "reply"} => sask # 0
        /\ task \in {"connect", "chat", "close", "answer"} => wask # 0

-----------------------------------------------------------------------------
(* Appending.                                                              *)

LEMMA SaidTyped ==
  /\ \A who \in Who, a \in Nat :
       /\ Said(who, a) \in Line /\ Said(who, a).ask = a
       /\ \A b \in Nat : OfRun(Said(who, a), b) <=> who \in ByAgent /\ a = b
  /\ \A a \in Nat : Reply(a) = Said("agent", a) /\ Piece(a) = Said("ws", a)
  /\ "tui" \in Who /\ "cli" \in Who /\ "agent" \in Who /\ "ws" \in Who
  /\ "tui" \notin ByAgent /\ "cli" \notin ByAgent
BY DEF Said, Reply, Piece, Line, Who, OfRun, ByAgent

LEMMA Addition ==
  ASSUME NEW l \in Seq(Line), NEW who \in Who, NEW a \in Nat
  PROVE  /\ Longer(l, Added(l, Said(who, a)))
         /\ Len(Added(l, Said(who, a))) <= Len(l) + 1
         /\ \A i \in Len(l) + 1 .. Len(Added(l, Said(who, a))) :
              /\ Added(l, Said(who, a))[i] = Said(who, a)
              /\ i = Len(l) + 1
              /\ who \in ByAgent => ~HasReply(l, a)
         /\ who \in ByAgent => HasReply(Added(l, Said(who, a)), a)
         /\ who \notin ByAgent => Added(l, Said(who, a)) = Append(l, Said(who, a))
<1> DEFINE line == Said(who, a)
<1>1. line \in Line /\ line.who = who /\ line.ask = a
  BY DEF Said, Line, Who
<1>2. CASE who \in ByAgent /\ HasReply(l, a)
  <2>1. Added(l, line) = l
    BY <1>1, <1>2 DEF Added, OnFile
  <2> QED BY <2>1, <1>2 DEF Longer
<1>3. CASE ~(who \in ByAgent /\ HasReply(l, a))
  <2>1. Added(l, line) = Append(l, line)
    BY <1>1, <1>3 DEF Added, OnFile
  <2>2. /\ Append(l, line) \in Seq(Line)
        /\ Len(Append(l, line)) = Len(l) + 1
        /\ \A i \in 1 .. Len(l) : Append(l, line)[i] = l[i]
        /\ Append(l, line)[Len(l) + 1] = line
    BY <1>1
  <2>3. who \in ByAgent => HasReply(Append(l, line), a)
    BY <1>1, <2>2 DEF HasReply, OfRun
  <2> HIDE DEF line
  <2> QED BY <1>3, <2>1, <2>2, <2>3 DEF Longer, line
<1> QED BY <1>2, <1>3

LEMMA Same ==
  ASSUME LogTypeOK, UNCHANGED file
  PROVE  log' \in [Thread -> Seq(Line)] /\ spoiled' \subseteq index /\ Growing
BY DEF LogTypeOK, Growing, Grown, Longer, file

\* What two appends that merge leave of a log.
LEMMA Cut ==
  ASSUME NEW l \in Seq(Line), NEW n \in 0 .. Len(l)
  PROVE  SubSeq(l, 1, n) \in Seq(Line)
OBVIOUS

LEMMA Kept ==
  ASSUME LogTypeOK, NEW t \in Thread, NEW who \in Who, NEW a \in Nat,
         a <= Len(run'), KeepFails(t, Said(who, a))
  PROVE  log' \in [Thread -> Seq(Line)] /\ spoiled' \subseteq index /\ Growing
<1>1. CASE UNCHANGED file
  BY <1>1, Same
<1>2. CASE t \in index /\ Merges(t, Said(who, a))
  <2>1. PICK n \in 0 .. Len(log[t]) : log' = [log EXCEPT ![t] = SubSeq(@, 1, n)]
    BY <1>2 DEF Merges
  <2>2. SubSeq(log[t], 1, n) \in Seq(Line)
    BY Cut DEF LogTypeOK
  <2>3. log' \in [Thread -> Seq(Line)] /\ \A u \in Thread : u # t => log'[u] = log[u]
    BY <2>1, <2>2 DEF LogTypeOK
  <2>4. spoiled' = spoiled \cup {t} /\ spoiled \subseteq index
    BY <1>2 DEF Merges, LogTypeOK
  <2>5. ASSUME NEW u \in Thread \ spoiled'
        PROVE  Grown(u)
    <3>1. log'[u] = log[u] /\ log[u] \in Seq(Line)
      BY <2>3, <2>4 DEF LogTypeOK
    <3> QED BY <3>1 DEF Grown, Longer
  <2> QED BY <1>2, <2>3, <2>4, <2>5 DEF Growing
<1>3. CASE t \in index /\ log' = [log EXCEPT ![t] = Added(@, Said(who, a))] /\ UNCHANGED spoiled
  <2> DEFINE new == Added(log[t], Said(who, a))
  <2>1. log[t] \in Seq(Line) /\ log' = [log EXCEPT ![t] = new]
    BY <1>3 DEF LogTypeOK
  <2>2. new \in Seq(Line)
    BY <2>1, Addition DEF Longer
  <2>3. log' \in [Thread -> Seq(Line)]
    BY <2>1, <2>2 DEF LogTypeOK
  <2>4. ASSUME NEW u \in Thread
        PROVE  Grown(u)
    <3>1. CASE u # t
      <4>1. log'[u] = log[u] /\ log[u] \in Seq(Line)
        BY <2>1, <3>1 DEF LogTypeOK
      <4> QED BY <4>1 DEF Grown, Longer
    <3>2. CASE u = t
      <4>1. log'[u] = new
        BY <2>1, <3>2 DEF LogTypeOK
      <4>2. /\ Longer(log[u], new) /\ Len(new) <= Len(log[u]) + 1
            /\ \A i \in Len(log[u]) + 1 .. Len(new) :
                 new[i] = Said(who, a) /\ (who \in ByAgent => ~HasReply(log[u], a))
        BY <2>1, <3>2, Addition
      <4> HIDE DEF new
      <4> QED BY <4>1, <4>2, SaidTyped DEF Grown
    <3> QED BY <3>1, <3>2
  <2> QED BY <1>3, <2>3, <2>4 DEF Growing, LogTypeOK
<1> QED BY <1>1, <1>2, <1>3 DEF KeepFails, Keep

-----------------------------------------------------------------------------
(* Types, and the one fact of a step.                                      *)

LEMMA AskTyped ==
  ASSUME LogTypeOK, NEW st \in RunState, Ask(st)
  PROVE  /\ run' \in Seq(RunState) /\ Len(run') = Len(run) + 1
         /\ NextAsk = Len(run) + 1 /\ NextAsk \in Nat
BY DEF LogTypeOK, Ask, NextAsk

LEMMA SetRunTyped ==
  ASSUME LogTypeOK, NEW a \in 1 .. Len(run), NEW st \in RunState, SetRun(a, st)
  PROVE  run' \in Seq(RunState) /\ Len(run') = Len(run)
<1>1. run \in Seq(RunState) /\ run' = [run EXCEPT ![a] = st]
  BY DEF LogTypeOK, SetRun
<1> QED BY <1>1, ExceptSeq

Typed == LogTypeOK' /\ Growing /\ Len(run) <= Len(run')

LEMMA OthersStep ==
  ASSUME TInv, Others
  PROVE  Typed
<1> USE DEF TInv, TypeOK
<1>0. LogTypeOK /\ Len(run) \in Nat
  BY DEF LogTypeOK
<1>1. ASSUME NEW t \in Thread, NewThread(t)
      PROVE  Typed
  BY <1>0, <1>1, Same DEF NewThread, LogTypeOK, file, Typed
<1>2. ASSUME NEW t \in Thread, TuiSends(t)
      PROVE  Typed
  <2>1. Ask("running") /\ KeepFails(t, Said("tui", NextAsk)) /\ UNCHANGED index
    BY <1>2 DEF TuiSends
  <2>2. run' \in Seq(RunState) /\ Len(run') = Len(run) + 1 /\ NextAsk \in Nat
        /\ NextAsk <= Len(run')
    BY <1>0, <2>1, AskTyped DEF RunState
  <2>3. log' \in [Thread -> Seq(Line)] /\ spoiled' \subseteq index /\ Growing
    BY <1>0, <2>1, <2>2, Kept, SaidTyped
  <2> QED BY <1>0, <2>1, <2>2, <2>3 DEF LogTypeOK, Typed
<1>3. ASSUME NEW a \in 1 .. MaxAsks, Ends(a)
      PROVE  Typed
  <2>1. a \in 1 .. Len(run) /\ SetRun(a, "ended") /\ "ended" \in RunState
    BY <1>0, <1>3 DEF Ends, RunState, LogTypeOK
  <2>2. run' \in Seq(RunState) /\ Len(run') = Len(run)
    BY <1>0, <2>1, SetRunTyped
  <2> QED BY <1>0, <1>3, <2>2, Same DEF Ends, LogTypeOK, file, Typed
<1>4. ASSUME NEW a \in 1 .. MaxAsks, NEW t \in Thread, Hears(a, t)
      PROVE  Typed
  <2>1. a \in Nat /\ a <= Len(run') /\ run' = run
    BY <1>0, <1>4, AsksAssumption DEF Hears, LogTypeOK
  <2>2. KeepFails(t, Said("agent", a)) /\ UNCHANGED index
    BY <1>4 DEF Hears, KeepFails, Reply
  <2>3. log' \in [Thread -> Seq(Line)] /\ spoiled' \subseteq index /\ Growing
    BY <1>0, <2>1, <2>2, Kept, SaidTyped
  <2> QED BY <1>0, <2>1, <2>2, <2>3 DEF LogTypeOK, Typed
<1>5. ASSUME NEW a \in 1 .. MaxAsks, NEW t \in Thread, Overhears(a, t)
      PROVE  Typed
  <2>1. a \in Nat /\ a <= Len(run') /\ run' = run
    BY <1>0, <1>5, AsksAssumption DEF Overhears, LogTypeOK
  <2>2. KeepFails(t, Said("ws", a)) /\ UNCHANGED index
    BY <1>5 DEF Overhears, KeepFails, Piece
  <2>3. log' \in [Thread -> Seq(Line)] /\ spoiled' \subseteq index /\ Growing
    BY <1>0, <2>1, <2>2, Kept, SaidTyped
  <2> QED BY <1>0, <2>1, <2>2, <2>3 DEF LogTypeOK, Typed
<1> QED BY <1>1, <1>2, <1>3, <1>4, <1>5, ViewedAssumption DEF Others

\* The command keeps its types.
SendKeeps == /\ Typed /\ SendTypeOK'
             /\ sask' <= Len(run')
             /\ spc' \in {"connect", "chat", "reply"} => sask' # 0

LEMMA SendStepTyped ==
  ASSUME TInv, SendStep
  PROVE  SendKeeps
<1> USE DEF TInv, TypeOK
<1>0. /\ LogTypeOK /\ SendTypeOK /\ Len(run) \in Nat
      /\ spc \in {"connect", "chat", "reply"} => sask \in 1 .. Len(run)
  BY DEF LogTypeOK, SendTypeOK
<1>1. ASSUME NEW t \in Thread, SendResolves(t)
      PROVE  SendKeeps
  BY <1>0, <1>1, Same DEF SendResolves, LogTypeOK, file, SendTypeOK, Typed, SendKeeps
<1>2. CASE SendPersists
  <2>1. /\ Ask("none") /\ KeepFails(sthread, Said("cli", NextAsk)) /\ UNCHANGED index
        /\ sthread \in Thread
    BY <1>0, <1>2 DEF SendPersists, KeepFails, SendTypeOK
  <2>2. /\ run' \in Seq(RunState) /\ Len(run') = Len(run) + 1
        /\ NextAsk \in Nat /\ NextAsk <= Len(run') /\ NextAsk # 0
    BY <1>0, <2>1, AskTyped DEF RunState
  <2>3. log' \in [Thread -> Seq(Line)] /\ spoiled' \subseteq index /\ Growing
    BY <1>0, <2>1, <2>2, Kept, SaidTyped
  <2>4. Typed
    BY <1>0, <2>1, <2>2, <2>3 DEF LogTypeOK, Typed
  <2>5. SendTypeOK' /\ sask' <= Len(run')
        /\ (spc' \in {"connect", "chat", "reply"} => sask' # 0)
    BY <1>0, <1>2, <2>2 DEF SendPersists, SendTypeOK, Over
  <2> QED BY <2>4, <2>5 DEF SendKeeps
<1>3. CASE SendAsks
  <2>1. sask \in 1 .. Len(run) /\ SetRun(sask, "running") /\ "running" \in RunState
    BY <1>0, <1>3 DEF SendAsks, RunState
  <2>2. run' \in Seq(RunState) /\ Len(run') = Len(run)
    BY <1>0, <2>1, SetRunTyped
  <2>3. Typed
    BY <1>0, <1>3, <2>2, Same DEF SendAsks, LogTypeOK, file, Typed
  <2> QED BY <1>0, <1>3, <2>2, <2>3 DEF SendAsks, SendTypeOK, SendKeeps
<1>4. CASE SendHears \/ SendFails
  <2>1. UNCHANGED shared /\ (sask' = sask \/ sask' = 0)
    BY <1>4 DEF SendHears, SendFails, Over
  <2>2. Typed
    BY <1>0, <2>1, Same DEF shared, file, LogTypeOK, Typed
  <2> QED BY <1>0, <1>4, <2>1, <2>2 DEF SendHears, SendFails, Over, SendTypeOK, SendKeeps, shared
<1>5. CASE SendReplies
  <2>1. /\ sask \in 1 .. Len(run) /\ sthread \in Thread /\ run' = run /\ index' = index
        /\ KeepFails(sthread, Said("agent", sask))
    BY <1>0, <1>5 DEF SendReplies, SendTypeOK, KeepFails, Reply
  <2>2. log' \in [Thread -> Seq(Line)] /\ spoiled' \subseteq index /\ Growing
    BY <1>0, <2>1, Kept, SaidTyped
  <2>3. Typed
    BY <1>0, <2>1, <2>2 DEF LogTypeOK, Typed
  <2>4. sask' = 0 /\ spc' = "idle" /\ sthread' = sthread /\ ok' \subseteq Thread \X Nat
    BY <1>0, <1>5, <2>1 DEF SendReplies, Over, SendTypeOK
  <2> QED BY <1>0, <2>1, <2>3, <2>4 DEF SendTypeOK, SendKeeps
<1> QED BY <1>1, <1>2, <1>3, <1>4, <1>5 DEF SendStep

\* The watcher keeps its types; the thread it watches never shrinks.
WatchKeeps == /\ Typed /\ WatchTypeOK'
              /\ wask' <= Len(run')
              /\ task' \in {"connect", "chat", "close", "answer"} => wask' # 0

LEMMA MoreSeen ==
  ASSUME TInv, Typed
  PROVE  /\ Len(Messages) \in Nat /\ Len(Messages') \in Nat
         /\ Watched \notin spoiled' => /\ Watched \notin spoiled
                                      /\ Len(Messages) <= Len(Messages')
                                      /\ seen <= Len(Messages')
         /\ seen \in Nat
<1>1. Messages \in Seq(Line) /\ Messages' \in Seq(Line) /\ seen \in Nat
  BY WatchedAssumption DEF TInv, TypeOK, LogTypeOK, WatchTypeOK, Typed, Messages
<1>2. Len(Messages) \in Nat /\ Len(Messages') \in Nat
  BY <1>1
<1>3. ASSUME Watched \notin spoiled'
      PROVE  Watched \notin spoiled /\ Len(Messages) <= Len(Messages') /\ seen <= Len(Messages)
  BY <1>3, WatchedAssumption
     DEF TInv, TypeOK, WatchTypeOK, Typed, Growing, Grown, Longer, Messages
<1> QED BY <1>1, <1>2, <1>3

LEMMA WatchStepTyped ==
  ASSUME TInv, WatchStep
  PROVE  WatchKeeps
<1> USE DEF TInv, TypeOK
<1>0. /\ LogTypeOK /\ WatchTypeOK /\ Len(run) \in Nat
      /\ task \in {"connect", "chat", "close", "answer"} => wask \in 1 .. Len(run)
  BY DEF LogTypeOK, WatchTypeOK
<1>a. UNCHANGED shared => Typed /\ UNCHANGED <<Messages, spoiled, run>>
  BY <1>0, Same DEF shared, file, LogTypeOK, Typed, Messages
<1>b. Len(Messages) \in Nat
  BY <1>0, WatchedAssumption DEF LogTypeOK, Messages
<1>1. CASE Start \/ Poll \/ CoolDown \/ Stop
  <2>1. UNCHANGED shared
    BY <1>1 DEF Start, Poll, CoolDown, Stop
  <2>2. CASE Start
    <3>1. seen' \in Nat /\ (Watched \notin spoiled' => seen' <= Len(Messages'))
      BY <1>0, <1>a, <1>b, <2>1, <2>2 DEF Start, WatchTypeOK
    <3>2. /\ on' \in BOOLEAN /\ inFlight' \in BOOLEAN /\ cooling' \in BOOLEAN
          /\ blind' \in BOOLEAN /\ (inFlight' <=> task' # "none")
      BY <1>0, <2>2 DEF Start, WatchTypeOK
    <3> QED BY <1>0, <1>a, <2>1, <2>2, <3>1, <3>2 DEF Start, WatchTypeOK, WatchKeeps
  <2>3. CASE Poll
    <3>1. CASE Foreign # {} /\ ~cooling /\ ~inFlight
      <4>1. seen' \in Nat /\ (Watched \notin spoiled' => seen' <= Len(Messages'))
        BY <1>0, <1>a, <1>b, <2>1, <2>3, <3>1 DEF Poll, WatchTypeOK
      <4>2. /\ on' \in BOOLEAN /\ inFlight' \in BOOLEAN /\ cooling' \in BOOLEAN
            /\ blind' \in BOOLEAN /\ (inFlight' <=> task' # "none")
        BY <1>0, <2>3, <3>1 DEF Poll, WatchTypeOK
      <4> QED BY <1>0, <1>a, <2>1, <2>3, <3>1, <4>1, <4>2
              DEF Poll, WatchTypeOK, WatchKeeps, Waiting
    <3>2. CASE ~(Foreign # {} /\ ~cooling /\ ~inFlight)
      <4>1. seen' \in Nat /\ (Watched \notin spoiled' => seen' <= Len(Messages'))
        BY <1>0, <1>a, <1>b, <2>1, <2>3, <3>2 DEF Poll, WatchTypeOK
      <4>2. /\ on' \in BOOLEAN /\ inFlight' \in BOOLEAN /\ cooling' \in BOOLEAN
            /\ blind' \in BOOLEAN /\ (inFlight' <=> task' # "none")
        BY <1>0, <2>3, <3>2 DEF Poll, WatchTypeOK
      <4> QED BY <1>0, <1>a, <2>1, <2>3, <3>2, <4>1, <4>2
              DEF Poll, WatchTypeOK, WatchKeeps, Waiting
    <3> QED BY <3>1, <3>2
  <2>4. CASE CoolDown
    BY <1>0, <1>a, <2>1, <2>4 DEF CoolDown, WatchTypeOK, WatchKeeps
  <2>5. CASE Stop
    <3>1. /\ on' \in BOOLEAN /\ inFlight' \in BOOLEAN /\ cooling' \in BOOLEAN
          /\ blind' \in BOOLEAN /\ (inFlight' <=> task' # "none")
      BY <1>0, <2>5 DEF Stop, WatchTypeOK
    <3> QED BY <1>0, <1>a, <2>1, <2>5, <3>1 DEF Stop, WatchTypeOK, WatchKeeps, Waiting
  <2> QED BY <1>1, <2>2, <2>3, <2>4, <2>5
<1>2. CASE ClaudeEnds \/ WatchHears \/ WatchCloses \/ WatchLinkFails \/ WatchChatFails
  <2>1. UNCHANGED shared
    BY <1>2 DEF ClaudeEnds, WatchHears, WatchCloses, WatchLinkFails, WatchChatFails
  <2> QED BY <1>0, <1>2, <1>a, <2>1
          DEF ClaudeEnds, WatchHears, WatchCloses, WatchLinkFails, WatchChatFails, WatchTypeOK,
              WatchKeeps, Waiting
<1>3. CASE ClaudeSays
  <2>1. /\ Ask("none") /\ KeepFails(Watched, Said("cli", NextAsk)) /\ UNCHANGED index
        /\ wask' = NextAsk
    BY <1>3 DEF ClaudeSays
  <2>2. /\ run' \in Seq(RunState) /\ Len(run') = Len(run) + 1
        /\ NextAsk \in Nat /\ NextAsk <= Len(run') /\ NextAsk # 0
    BY <1>0, <2>1, AskTyped DEF RunState
  <2>3. log' \in [Thread -> Seq(Line)] /\ spoiled' \subseteq index /\ Growing
    BY <1>0, <2>1, <2>2, Kept, WatchedAssumption, SaidTyped
  <2>4. Typed
    BY <1>0, <2>1, <2>2, <2>3 DEF LogTypeOK, Typed
  <2> QED BY <1>0, <1>3, <2>1, <2>2, <2>4, MoreSeen DEF ClaudeSays, WatchTypeOK, WatchKeeps, Waiting
<1>4. CASE WatchAsks
  <2>1. wask \in 1 .. Len(run) /\ SetRun(wask, "running") /\ "running" \in RunState
    BY <1>0, <1>4 DEF WatchAsks, RunState
  <2>2. run' \in Seq(RunState) /\ Len(run') = Len(run)
    BY <1>0, <2>1, SetRunTyped
  <2>3. Typed
    BY <1>0, <1>4, <2>2, Same DEF WatchAsks, LogTypeOK, file, Typed
  <2> QED BY <1>0, <1>4, <2>2, <2>3, MoreSeen DEF WatchAsks, WatchTypeOK, WatchKeeps, Waiting
<1>5. CASE Answer
  <2>1. /\ wask \in 1 .. Len(run) /\ run' = run /\ index' = index
        /\ KeepFails(Watched, Said("agent", wask))
    BY <1>0, <1>5 DEF Answer, Reply
  <2>2. log' \in [Thread -> Seq(Line)] /\ spoiled' \subseteq index /\ Growing
    BY <1>0, <2>1, Kept, WatchedAssumption, SaidTyped
  <2>3. Typed
    BY <1>0, <2>1, <2>2 DEF LogTypeOK, Typed
  <2>4. answered' \subseteq Nat
    BY <1>0, <1>5, <2>1 DEF Answer, WatchTypeOK
  <2> QED BY <1>0, <1>5, <2>1, <2>3, <2>4, MoreSeen DEF Answer, WatchTypeOK, WatchKeeps, Waiting
<1>6. CASE Absorb
  <2>1. UNCHANGED shared
    BY <1>6 DEF Absorb
  <2>2. seen' \in Nat /\ (Watched \notin spoiled' => seen' <= Len(Messages'))
    BY <1>0, <1>6, <1>a, <1>b, <2>1 DEF Absorb, WatchTypeOK
  <2>3. /\ on' \in BOOLEAN /\ inFlight' \in BOOLEAN /\ cooling' \in BOOLEAN
        /\ blind' \in BOOLEAN /\ (inFlight' <=> task' # "none")
    BY <1>0, <1>6 DEF Absorb, WatchTypeOK
  <2> QED BY <1>0, <1>6, <1>a, <2>1, <2>2, <2>3 DEF Absorb, WatchTypeOK, WatchKeeps, Waiting
<1> QED BY <1>1, <1>2, <1>3, <1>4, <1>5, <1>6 DEF WatchStep

LEMMA Step ==
  ASSUME TInv, Next
  PROVE  TInv' /\ Typed
<1>1. CASE Others /\ UNCHANGED <<send, watch>>
  <2>1. Typed
    BY <1>1, OthersStep
  <2>2. WatchTypeOK' /\ SendTypeOK'
    BY <1>1, <2>1, MoreSeen DEF TInv, TypeOK, WatchTypeOK, SendTypeOK, send, watch
  <2>3. Len(run) \in Nat /\ Len(run') \in Nat /\ sask \in Nat /\ wask \in Nat
    BY <2>1 DEF Typed, TInv, TypeOK, LogTypeOK, SendTypeOK, WatchTypeOK
  <2> QED BY <1>1, <2>1, <2>2, <2>3 DEF TInv, TypeOK, Typed, send, watch
<1>2. CASE Sending
  <2>1. SendKeeps
    BY <1>2, SendStepTyped DEF Sending
  <2>2. WatchTypeOK' /\ UNCHANGED watch
    BY <1>2, <2>1, MoreSeen DEF SendKeeps, Sending, TInv, TypeOK, WatchTypeOK, watch
  <2>3. Len(run) \in Nat /\ Len(run') \in Nat /\ wask \in Nat
    BY <2>1 DEF SendKeeps, Typed, TInv, TypeOK, LogTypeOK, WatchTypeOK
  <2> QED BY <2>1, <2>2, <2>3 DEF SendKeeps, TInv, TypeOK, Typed, watch
<1>3. CASE Watching(WatchStep)
  <2>1. WatchKeeps
    BY <1>3, WatchStepTyped DEF Watching
  <2>2. SendTypeOK' /\ UNCHANGED send
    BY <1>3 DEF Watching, TInv, TypeOK, SendTypeOK, send
  <2>3. Len(run) \in Nat /\ Len(run') \in Nat /\ sask \in Nat
    BY <2>1 DEF WatchKeeps, Typed, TInv, TypeOK, LogTypeOK, SendTypeOK
  <2> QED BY <2>1, <2>2, <2>3 DEF WatchKeeps, TInv, TypeOK, Typed, send
<1> QED BY <1>1, <1>2, <1>3 DEF Next

LEMMA Initial == Init => TInv
<1> SUFFICES ASSUME Init
             PROVE  TInv
  OBVIOUS
<1>1. LogTypeOK /\ Len(run) = 0 /\ Len(Messages) = 0
  BY WatchedAssumption DEF Init, LogInit, LogTypeOK, Messages
<1>2. SendTypeOK
  BY DEF Init, SendInit, SendTypeOK
<1>3. WatchTypeOK
  <2>1. seen \in Nat /\ seen <= Len(Messages)
    BY <1>1 DEF Init, WatchInit
  <2>2. /\ on \in BOOLEAN /\ inFlight \in BOOLEAN /\ cooling \in BOOLEAN
        /\ blind \in BOOLEAN /\ (inFlight <=> task # "none")
    BY DEF Init, WatchInit
  <2> QED BY <2>1, <2>2 DEF Init, WatchInit, WatchTypeOK, Waiting
<1> QED BY <1>1, <1>2, <1>3 DEF Init, SendInit, WatchInit, TInv, TypeOK

LEMMA TypedStutter == TInv /\ UNCHANGED vars => TInv'
BY DEF TInv, TypeOK, LogTypeOK, SendTypeOK, WatchTypeOK, Messages, vars, shared, file, send,
       watch

\* Every reachable state has its types: above all, the watcher never counts as
\* seen more than is in the thread, unless appends to it merged, and its flag is
\* up exactly while its task is under way (watch.rs:78-265).
THEOREM Types == Spec => []TypeOK
<1>1. Init => TInv
  BY Initial
<1>2. TInv /\ [Next]_vars => TInv'
  BY Step, TypedStutter
<1>3. TInv => TypeOK
  BY DEF TInv
<1> QED BY <1>1, <1>2, <1>3, PTL DEF Spec

-----------------------------------------------------------------------------
(* A reported reply is on file, after its message and once.                *)

\* In l, the message of ask a comes before any reply to it.
Precedes(l, a) ==
  \E i \in 1 .. Len(l) : l[i] = Said("cli", a) /\ \A j \in 1 .. Len(l) : OfRun(l[j], a) => i < j

Once(l, a) == \A i, j \in 1 .. Len(l) : OfRun(l[i], a) /\ OfRun(l[j], a) => i = j

\* Of the threads that are not spoiled.
FInv ==
  /\ \A t \in Thread \ spoiled :
       /\ \A i \in 1 .. Len(log[t]) : log[t][i].ask <= Len(run)
       /\ \A a \in Nat : Once(log[t], a)
  /\ spc \in {"connect", "chat", "reply"} /\ sthread \notin spoiled => Precedes(log[sthread], sask)
  /\ \A e \in ok : e[1] \notin spoiled => Precedes(log[e[1]], e[2]) /\ HasReply(log[e[1]], e[2])

LEMMA Indexes ==
  ASSUME NEW u \in Thread, LogTypeOK, LogTypeOK'
  PROVE  /\ log[u] \in Seq(Line) /\ log'[u] \in Seq(Line)
         /\ Len(log[u]) \in Nat /\ Len(log'[u]) \in Nat
         /\ DOMAIN log[u] = 1 .. Len(log[u]) /\ DOMAIN log'[u] = 1 .. Len(log'[u])
BY DEF LogTypeOK

LEMMA PrecedesStays ==
  ASSUME NEW u \in Thread, NEW a \in Nat, LogTypeOK, LogTypeOK', Grown(u), Precedes(log[u], a)
  PROVE  Precedes(log'[u], a)
<1>1. PICK i \in 1 .. Len(log[u]) :
        log[u][i] = Said("cli", a) /\ \A j \in 1 .. Len(log[u]) : OfRun(log[u][j], a) => i < j
  BY DEF Precedes
<1>2. i \in 1 .. Len(log'[u]) /\ log'[u][i] = Said("cli", a)
  BY <1>1, Indexes DEF Grown, Longer
<1>3. ASSUME NEW j \in 1 .. Len(log'[u]), OfRun(log'[u][j], a)
      PROVE  i < j
  BY <1>1, <1>3, Indexes, SMTT(20) DEF Grown, Longer
<1> QED BY <1>2, <1>3 DEF Precedes

LEMMA ReplyStays ==
  ASSUME NEW u \in Thread, NEW a, LogTypeOK, LogTypeOK', Grown(u), HasReply(log[u], a)
  PROVE  HasReply(log'[u], a)
BY Indexes DEF HasReply, Grown, Longer

LEMMA OnceStays ==
  ASSUME NEW u \in Thread, NEW a \in Nat, LogTypeOK, LogTypeOK', Grown(u), Once(log[u], a)
  PROVE  Once(log'[u], a)
<1> SUFFICES ASSUME NEW i \in 1 .. Len(log'[u]), NEW j \in 1 .. Len(log'[u]),
                    OfRun(log'[u][i], a), OfRun(log'[u][j], a), i < j
             PROVE  FALSE
  BY Indexes DEF Once
<1>1. i \in 1 .. Len(log[u])
  BY Indexes DEF Grown
<1>2. OfRun(log[u][i], a)
  BY <1>1 DEF Grown, Longer
<1>3. HasReply(log[u], a)
  BY <1>1, <1>2, Indexes DEF HasReply
<1>4. CASE j \in 1 .. Len(log[u])
  <2>1. OfRun(log[u][j], a)
    BY <1>4 DEF Grown, Longer
  <2> QED BY <1>1, <1>2, <1>4, <2>1, Indexes DEF Once
<1>5. CASE j \notin 1 .. Len(log[u])
  BY <1>3, <1>5, Indexes DEF Grown
<1> QED BY <1>4, <1>5

\* What every step keeps, whoever takes it.
LEMMA FileStep ==
  ASSUME TInv, TInv', Typed, FInv
  PROVE  /\ \A t \in Thread \ spoiled' :
              /\ \A i \in 1 .. Len(log'[t]) : log'[t][i].ask <= Len(run')
              /\ \A a \in Nat : Once(log'[t], a)
         /\ \A e \in ok : e[1] \notin spoiled' =>
              Precedes(log'[e[1]], e[2]) /\ HasReply(log'[e[1]], e[2])
         /\ spc \in {"connect", "chat", "reply"} /\ sthread \notin spoiled' =>
              Precedes(log'[sthread], sask)
<1>0. LogTypeOK /\ LogTypeOK' /\ SendTypeOK
  BY DEF TInv, TypeOK
<1>g. \A u \in Thread \ spoiled' : Grown(u) /\ u \notin spoiled
  BY DEF Typed, Growing
<1>1. ASSUME NEW t \in Thread \ spoiled', NEW i \in 1 .. Len(log'[t])
      PROVE  log'[t][i].ask <= Len(run')
  <2>1. CASE i \in 1 .. Len(log[t])
    <3>1. log'[t][i] = log[t][i] /\ log[t][i].ask <= Len(run) /\ log[t][i].ask \in Nat
      <4>1. log[t][i] \in Line
        BY <1>0, <2>1, Indexes
      <4>2. log'[t][i] = log[t][i]
        BY <1>g, <2>1 DEF Grown, Longer
      <4> QED BY <1>g, <2>1, <4>1, <4>2 DEF FInv, Line
    <3>2. Len(run) \in Nat /\ Len(run') \in Nat /\ Len(run) <= Len(run')
      BY <1>0 DEF LogTypeOK, Typed
    <3> QED BY <3>1, <3>2
  <2>2. CASE i \notin 1 .. Len(log[t])
    BY <1>0, <1>g, <2>2, Indexes DEF Grown
  <2> QED BY <2>1, <2>2
<1>2. \A t \in Thread \ spoiled' : \A a \in Nat : Once(log'[t], a)
  BY <1>0, <1>g, OnceStays DEF FInv
<1>3. ASSUME NEW e \in ok, e[1] \notin spoiled'
      PROVE  Precedes(log'[e[1]], e[2]) /\ HasReply(log'[e[1]], e[2])
  <2>1. e[1] \in Thread /\ e[2] \in Nat
    BY <1>0 DEF SendTypeOK
  <2> QED BY <1>0, <1>3, <1>g, <2>1, PrecedesStays, ReplyStays DEF FInv
<1>4. ASSUME spc \in {"connect", "chat", "reply"}, sthread \notin spoiled'
      PROVE  Precedes(log'[sthread], sask)
  BY <1>0, <1>4, <1>g, PrecedesStays DEF FInv, SendTypeOK
<1> QED BY <1>1, <1>2, <1>3, <1>4

LEMMA FileKept ==
  ASSUME TInv, TInv', FInv, Next
  PROVE  FInv'
<1>0. LogTypeOK /\ LogTypeOK' /\ SendTypeOK /\ Typed
  BY Step DEF TInv, TypeOK
<1>1. CASE UNCHANGED send
  BY <1>0, <1>1, FileStep DEF FInv, send
<1>2. CASE SendStep
  <2>1. ASSUME NEW t \in Thread, SendResolves(t)
        PROVE  FInv'
    BY <1>0, <2>1, FileStep DEF FInv, SendResolves
  <2>2. CASE SendPersists
    <3>1. CASE spc' = "idle"
      BY <1>0, <2>2, <3>1, FileStep DEF FInv, SendPersists
    <3>2. CASE spc' # "idle" /\ sthread \in spoiled'
      <4>1. sthread' = sthread /\ ok' = ok
        BY <2>2, <3>2 DEF SendPersists, Over
      <4> QED BY <1>0, <3>2, <4>1, FileStep DEF FInv
    <3>3. CASE spc' # "idle" /\ sthread \notin spoiled'
      <4> DEFINE a == NextAsk
                 l == log[sthread]
      <4>1. /\ Keep(sthread, Said("cli", a)) /\ sask' = a /\ sthread' = sthread
            /\ spc' = "connect" /\ ok' = ok
        BY <2>2, <3>3 DEF SendPersists, Over
      <4>2. a \in Nat /\ a > Len(run) /\ sthread \in Thread /\ l \in Seq(Line)
        BY <1>0, Indexes DEF LogTypeOK, NextAsk, SendTypeOK
      <4>3. Added(l, Said("cli", a)) = Append(l, Said("cli", a))
        <5>1. "cli" \in Who /\ "cli" \notin ByAgent
          BY DEF Who, ByAgent
        <5> HIDE DEF a, l
        <5> QED BY <4>2, <5>1, Addition
      <4>n. log' = [log EXCEPT ![sthread] = Added(@, Said("cli", a))] /\ sthread \notin spoiled
        BY <3>3, <4>1 DEF Keep, Merges
      <4>4. log'[sthread] = Append(l, Said("cli", a))
        BY <1>0, <4>2, <4>3, <4>n DEF LogTypeOK
      <4>5. \A j \in 1 .. Len(l) : ~OfRun(l[j], a)
        <5>1. ASSUME NEW j \in 1 .. Len(l), OfRun(l[j], a)
              PROVE  FALSE
          <6>1. l[j].ask <= Len(run)
            BY <4>2, <4>n DEF FInv
          <6>2. l[j].ask = a
            BY <5>1 DEF OfRun
          <6>3. a > Len(run) /\ Len(run) \in Nat /\ a \in Nat
            BY <1>0, <4>2 DEF LogTypeOK
          <6> QED BY <6>1, <6>2, <6>3
        <5> QED BY <5>1
      <4>6. ~OfRun(Said("cli", a), a) /\ Said("cli", a) \in Line
        BY <4>2, SaidTyped
      <4> HIDE DEF a, l
      <4>7. Precedes(Append(l, Said("cli", a)), a)
        <5>1. /\ Len(Append(l, Said("cli", a))) = Len(l) + 1
              /\ Append(l, Said("cli", a))[Len(l) + 1] = Said("cli", a)
              /\ \A j \in 1 .. Len(l) : Append(l, Said("cli", a))[j] = l[j]
              /\ Len(l) \in Nat
          BY <4>2, <4>6
        <5> QED BY <4>5, <4>6, <5>1 DEF Precedes
      <4>8. Precedes(log'[sthread'], sask')
        BY <4>1, <4>4, <4>7
      <4> QED BY <1>0, <4>1, <4>8, FileStep DEF FInv
    <3> QED BY <3>1, <3>2, <3>3
  <2>3. CASE SendAsks \/ SendHears \/ SendFails
    BY <1>0, <2>3, FileStep DEF FInv, SendAsks, SendHears, SendFails, Over
  <2>4. CASE SendReplies
    <3>1. CASE ok' = ok
      BY <1>0, <2>4, <3>1, FileStep DEF FInv, SendReplies, Over
    <3>2. CASE ok' # ok /\ sthread \in spoiled'
      <4>1. ok' = ok \cup {<<sthread, sask>>} /\ spc' = "idle"
        BY <2>4, <3>2 DEF SendReplies, Over
      <4> QED BY <1>0, <3>2, <4>1, FileStep DEF FInv
    <3>3. CASE ok' # ok /\ sthread \notin spoiled'
      <4>1. Keep(sthread, Said("agent", sask)) /\ ok' = ok \cup {<<sthread, sask>>}
            /\ spc' = "idle" /\ sthread \in Thread /\ sask \in Nat
        BY <1>0, <2>4, <3>3 DEF SendReplies, Over, SendTypeOK, Reply
      <4>n. log' = [log EXCEPT ![sthread] = Added(@, Said("agent", sask))]
        BY <3>3, <4>1 DEF Keep, Merges
      <4>2. log'[sthread] = Added(log[sthread], Said("agent", sask))
            /\ log[sthread] \in Seq(Line)
        BY <1>0, <4>1, <4>n DEF LogTypeOK
      <4>3. HasReply(log'[sthread], sask)
        BY <4>1, <4>2, Addition, SaidTyped DEF ByAgent
      <4>4. Precedes(log'[sthread], sask)
        BY <1>0, <2>4, <3>3, FileStep DEF SendReplies
      <4>5. \A e \in ok' : e[1] \notin spoiled' =>
              Precedes(log'[e[1]], e[2]) /\ HasReply(log'[e[1]], e[2])
        BY <1>0, <4>1, <4>3, <4>4, FileStep
      <4> QED BY <1>0, <4>1, <4>5, FileStep DEF FInv
    <3> QED BY <3>1, <3>2, <3>3
  <2> QED BY <1>2, <2>1, <2>2, <2>3, <2>4 DEF SendStep
<1> QED BY <1>1, <1>2 DEF Next, Sending, Watching, send

LEMMA SentOnFile ==
  ASSUME TInv, FInv
  PROVE  SentIsOnFile
<1> SUFFICES ASSUME NEW e \in ok, e[1] \notin spoiled
             PROVE  \E i, j \in DOMAIN log[e[1]] :
                      /\ i < j /\ log[e[1]][i] = Said("cli", e[2])
                      /\ OfRun(log[e[1]][j], e[2])
                      /\ \A k \in DOMAIN log[e[1]] : OfRun(log[e[1]][k], e[2]) => k = j
  BY DEF SentIsOnFile
<1>1. e[1] \in Thread /\ e[2] \in Nat /\ DOMAIN log[e[1]] = 1 .. Len(log[e[1]])
  BY DEF TInv, TypeOK, SendTypeOK, LogTypeOK
<1>2. PICK j \in DOMAIN log[e[1]] : OfRun(log[e[1]][j], e[2])
  BY DEF FInv, HasReply
<1>3. PICK i \in DOMAIN log[e[1]] : log[e[1]][i] = Said("cli", e[2]) /\ i < j
  BY <1>1, <1>2 DEF FInv, Precedes
<1>4. \A k \in DOMAIN log[e[1]] : OfRun(log[e[1]][k], e[2]) => k = j
  BY <1>1, <1>2 DEF FInv, Once
<1> QED BY <1>2, <1>3, <1>4

\* When `conversation send` has reported a reply, its message is in the thread,
\* and after it one line of that run, whoever else persists it too; unless two
\* appends to that thread came at the same time and merged into a line that
\* cannot be read (main.rs:596-650, conversation.rs:232-268).
THEOREM ReportedIsOnFile == Spec => []SentIsOnFile
<1>1. Init => TInv /\ FInv
  <2>1. Init => FInv
    BY DEF Init, LogInit, SendInit, FInv, Once
  <2> QED BY <2>1, Initial
<1>2. (TInv /\ FInv) /\ [Next]_vars => (TInv /\ FInv)'
  <2>1. TInv /\ FInv /\ UNCHANGED vars => FInv'
    BY DEF FInv, vars, shared, file, send
  <2> QED BY <2>1, Step, TypedStutter, FileKept
<1>3. TInv /\ FInv => SentIsOnFile
  BY SentOnFile
<1> QED BY <1>1, <1>2, <1>3, PTL DEF Spec

-----------------------------------------------------------------------------
(* No echo.                                                                *)

\* As long as the thread is not spoiled, there is no reply it saw to beyond what
\* the watcher has looked at, but the one it is about to absorb.
EInv ==
  Watched \notin spoiled =>
    /\ \A a \in answered : HasReply(Messages, a)
    /\ on /\ ~blind =>
         \A i \in seen + 1 .. Len(Messages) : \A a \in answered :
           OfRun(Messages[i], a) => task = "absorb" /\ wask = a

LEMMA AnsweredStay ==
  ASSUME TInv, TInv', Typed, EInv, Watched \notin spoiled'
  PROVE  /\ \A a \in answered : HasReply(Messages', a)
         /\ \A i \in Len(Messages) + 1 .. Len(Messages') : \A a \in answered :
              ~OfRun(Messages'[i], a)
         /\ \A i \in 1 .. Len(Messages) : Messages'[i] = Messages[i]
         /\ Len(Messages) \in Nat /\ Len(Messages') \in Nat /\ seen \in Nat
         /\ seen <= Len(Messages) /\ Len(Messages) <= Len(Messages')
         /\ Watched \notin spoiled
<1>0. /\ LogTypeOK /\ LogTypeOK' /\ Watched \in Thread /\ Grown(Watched)
      /\ answered \subseteq Nat /\ Watched \notin spoiled
  BY WatchedAssumption DEF TInv, TypeOK, Typed, Growing, WatchTypeOK
<1>1. \A a \in answered : HasReply(Messages', a)
  BY <1>0, ReplyStays DEF EInv, Messages
<1>2. \A i \in Len(Messages) + 1 .. Len(Messages') : \A a \in answered :
        ~OfRun(Messages'[i], a)
  BY <1>0 DEF EInv, Messages, Grown
<1>3. \A i \in 1 .. Len(Messages) : Messages'[i] = Messages[i]
  BY <1>0 DEF Messages, Grown, Longer
<1>4. seen \in Nat /\ seen <= Len(Messages)
  BY <1>0 DEF TInv, TypeOK, WatchTypeOK
<1>5. Len(Messages) \in Nat /\ Len(Messages') \in Nat /\ Len(Messages) <= Len(Messages')
  BY MoreSeen
<1> QED BY <1>0, <1>1, <1>2, <1>3, <1>4, <1>5

LEMMA EchoStep ==
  ASSUME TInv, TInv', EInv, Next
  PROVE  EInv'
<1>0. Typed
  BY Step
<1> SUFFICES ASSUME Watched \notin spoiled' PROVE EInv'
  BY DEF EInv
<1> USE AnsweredStay
<1>1. CASE UNCHANGED watch
  BY <1>0, <1>1 DEF EInv, watch
<1>2. CASE Start \/ Poll \/ Absorb
  <2>1. answered' = answered /\ Messages' = Messages
    BY <1>2 DEF Start, Poll, Absorb, shared, file, Messages
  <2>2. blind' \/ seen' = Len(Messages)
    BY <1>2 DEF Start, Poll, Absorb
  <2> QED BY <1>0, <2>1, <2>2 DEF EInv
<1>3. CASE CoolDown
  BY <1>0, <1>3 DEF EInv, CoolDown
<1>4. CASE Stop
  BY <1>0, <1>4 DEF EInv, Stop
<1>5. CASE ClaudeEnds \/ ClaudeSays \/ WatchAsks \/ WatchHears \/ WatchCloses
           \/ WatchLinkFails \/ WatchChatFails
  <2>1. /\ UNCHANGED <<on, seen, blind, answered>> /\ task # "absorb"
    BY <1>5 DEF ClaudeEnds, ClaudeSays, WatchAsks, WatchHears, WatchCloses, WatchLinkFails,
           WatchChatFails
  <2> QED BY <1>0, <2>1 DEF EInv
<1>6. CASE Answer
  <2>1. /\ UNCHANGED <<on, seen, blind, wask>> /\ task = "answer" /\ task' = "absorb"
        /\ answered' = IF HasReply(Messages', wask) THEN answered \cup {wask} ELSE answered
    BY <1>6 DEF Answer, Messages
  <2>2. \A a \in answered' : HasReply(Messages', a)
    BY <1>0, <2>1
  <2>3. \A a \in answered' : a \in answered \/ a = wask
    BY <2>1
  <2> QED BY <1>0, <2>1, <2>2, <2>3 DEF EInv
<1> QED BY <1>1, <1>2, <1>3, <1>4, <1>5, <1>6 DEF Next, Sending, Watching, WatchStep

LEMMA NoEchoStep ==
  ASSUME TInv, EInv, Next, Triggers, ~blind, Watched \notin spoiled
  PROVE  \A i \in seen + 1 .. Len(Messages) : \A a \in answered : ~OfRun(Messages[i], a)
<1>1. Poll
  BY DEF Next, Sending, Watching, WatchStep, Triggers, watch, Start, CoolDown, Stop, ClaudeEnds,
         ClaudeSays, WatchAsks, WatchHears, WatchCloses, WatchLinkFails, WatchChatFails, Answer,
         Absorb
<1>2. on /\ task # "absorb"
  BY <1>1 DEF Poll, Waiting
<1> QED BY <1>2 DEF EInv

\* However the replies to the watcher's asks reach the thread, and whoever
\* persists them first, none of those it saw to makes it run claude again, as
\* long as no two appends to the thread merged (watch.rs:232-239).
THEOREM NoEchoes == Spec => NoEcho
<1>1. Init => TInv /\ EInv
  <2>1. Init => EInv
    BY DEF Init, WatchInit, EInv
  <2> QED BY <2>1, Initial
<1>2. (TInv /\ EInv) /\ [Next]_vars => (TInv /\ EInv)'
  <2>1. TInv /\ EInv /\ UNCHANGED vars => EInv'
    BY DEF EInv, vars, shared, file, watch, Messages
  <2> QED BY <2>1, Step, TypedStutter, EchoStep
<1>3. (TInv /\ EInv) /\ [Next]_vars =>
        [Triggers /\ ~blind /\ Watched \notin spoiled =>
           \A i \in seen + 1 .. Len(Messages) : \A a \in answered : ~OfRun(Messages[i], a)]_watch
  <2>1. UNCHANGED vars => UNCHANGED watch
    BY DEF vars
  <2> QED BY <2>1, NoEchoStep
<1> QED BY <1>1, <1>2, <1>3, PTL DEF Spec, NoEcho

=============================================================================
