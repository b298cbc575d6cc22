------------------------------ MODULE TuiProofs ------------------------------
(***************************************************************************)
(* The viewer, for any runs, messages and capacities: its types, that the  *)
(* display is the thread as long as nobody else writes to it and no append *)
(* fails, that a reply is displayed once, and that the viewer makes a      *)
(* reply that comes alone whole, by what is on its way in the two channels. *)
(***************************************************************************)
EXTENDS Tui, ListProofs

\* The cursor is what makes DisplayIsThread inductive: without it a poll could
\* show the own lines a second time.
IInv == /\ \E S : log \in Seq(S)
        /\ trouble \in Nat
        /\ trouble = 0 => shown = log /\ loaded = Len(log)

LEMMA LogGrows ==
  ASSUME NEW s, \E S : s \in Seq(S), NEW x
  PROVE  (\E S : Append(s, x) \in Seq(S)) /\ Len(Append(s, x)) = Len(s) + 1
<1>1. PICK S : s \in Seq(S)
  OBVIOUS
<1> DEFINE T == S \cup {x}
<1>2. s \in Seq(T)
  BY <1>1
<1>3. Append(s, x) \in Seq(T) /\ Len(Append(s, x)) = Len(s) + 1
  BY <1>2
<1> QED BY <1>3

\* A step that counts as trouble.
LEMMA TroubledKeeps ==
  ASSUME IInv, NEW line, log' = log \/ log' = Append(log, line), trouble' = trouble + 1
  PROVE  IInv'
<1>1. \E S : log' \in Seq(S)
  <2>1. CASE log' = log
    BY <2>1 DEF IInv
  <2>2. CASE log' = Append(log, line)
    BY <2>2, LogGrows, Zenon DEF IInv
  <2> QED BY <2>1, <2>2
<1>2. trouble' \in Nat /\ trouble' # 0
  BY DEF IInv
<1> QED BY <1>1, <1>2 DEF IInv

\* Showing a line and persisting it, unless the thread has its run already.
LEMMA OwnLineKeeps ==
  ASSUME IInv, NEW line, WriteOwn(line), shown' = Append(shown, line),
         line.run = NoRun \/ ~Among(shown, line.run)
  PROVE  IInv'
<1>1. CASE Write(line) /\ loaded' = loaded + 1 /\ UNCHANGED trouble
  <2>1. CASE line.run # NoRun /\ Among(log, line.run)
    BY <1>1, <2>1 DEF IInv, Write
  <2>2. CASE ~(line.run # NoRun /\ Among(log, line.run))
    <3>1. log' = Append(log, line)
      BY <1>1, <2>2 DEF Write
    <3> QED BY <1>1, <3>1, LogGrows DEF IInv
  <2> QED BY <2>1, <2>2
<1>2. CASE trouble' = trouble + 1
  <2>1. log' = log \/ log' = Append(log, line)
    BY DEF WriteOwn, Write, Merged
  <2> QED BY <1>2, <2>1, TroubledKeeps
<1> QED BY <1>1, <1>2 DEF WriteOwn

\* Polling finds nothing new in a thread that only the viewer writes to.
LEMMA ReloadKeeps ==
  ASSUME IInv, Reload, log' = log
  PROVE  IInv'
<1>1. CASE trouble' = trouble + 1
  BY <1>1, TroubledKeeps
<1>2. CASE Len(log) > loaded /\ UNCHANGED trouble
  <2>1. Len(log) \in Nat
    BY DEF IInv
  <2> QED BY <1>2, <2>1 DEF IInv
<1>3. CASE UNCHANGED <<shown, loaded, trouble>>
  BY <1>3 DEF IInv
<1> QED BY <1>1, <1>2, <1>3 DEF Reload

LEMMA StepKeeps == IInv /\ [Next]_vars => IInv'
<1> SUFFICES ASSUME IInv, [Next]_vars PROVE IInv'
  OBVIOUS
<1>1. ASSUME UNCHANGED <<log, shown, loaded, trouble>> PROVE IInv'
  BY <1>1 DEF IInv
<1> USE DEF loopVars, fileVars, tuiVars, gatewayVars
<1>2. CASE Connect \/ SendQueued
  BY <1>1, <1>2 DEF Connect, SendQueued
<1>3. CASE RecvDelta \/ RecvEnd \/ RecvRes \/ IgnoreFrame \/ RecvClosed
  BY <1>1, <1>3 DEF RecvDelta, RecvEnd, RecvRes, IgnoreFrame, RecvClosed, Take, TaskMoves
<1>4. CASE HandleStatus \/ HandleDelta
  BY <1>1, <1>4 DEF HandleStatus, HandleDelta
<1>5. CASE HandleDone
  <2> DEFINE e    == Head(events)
             line == AgentLine(e.run, TurnText(e))
  <2>1. CASE Among(shown, e.run)
    BY <1>1, <1>5, <2>1 DEF HandleDone
  <2>2. CASE ~Among(shown, e.run)
    <3>1. WriteOwn(line) /\ shown' = Append(shown, line) /\ line.run = e.run
      BY <1>5, <2>2 DEF HandleDone, AgentLine
    <3> QED BY <2>2, <3>1, OwnLineKeeps
  <2> QED BY <2>1, <2>2
<1>6. CASE Begin \/ EventsDone \/ WakeUp \/ KeysDone \/ FileDone \/ Quit
  BY <1>1, <1>6 DEF Begin, EventsDone, WakeUp, KeysDone, FileDone, Quit, Goto
<1>7. CASE PollFile \/ PollTick
  <2>1. Reload /\ log' = log
    BY <1>7 DEF PollFile, PollTick
  <2> QED BY <2>1, ReloadKeeps
<1>8. ASSUME NEW q \in Own, EnterMessage(q) PROVE IInv'
  <2>1. /\ WriteOwn(OperatorLine(q)) /\ shown' = Append(shown, OperatorLine(q))
        /\ OperatorLine(q).run = NoRun
    BY <1>8 DEF EnterMessage, OperatorLine
  <2> QED BY <2>1, OwnLineKeeps
<1>9. ASSUME NEW line, PeerWrites(line) PROVE IInv'
  <2>1. (log' = log \/ log' = Append(log, line)) /\ trouble' = trouble + 1
    BY <1>9 DEF PeerWrites, Write
  <2> QED BY <2>1, TroubledKeeps
<1>10. CASE GatewayNext /\ UNCHANGED tuiVars
  BY <1>1, <1>10
<1>11. CASE UNCHANGED vars
  BY <1>1, <1>11 DEF vars
<1> QED BY <1>2, <1>3, <1>4, <1>5, <1>6, <1>7, <1>8, <1>9, <1>10, <1>11
        DEF Next, TaskStep, TakeFrame, Turn, PeerStep, Connected

\* While nothing disturbs the thread, the display is the thread, in order and
\* without a line shown twice (tui/mod.rs:417, 529-531, 333-353).
THEOREM DisplayStaysThread == Spec => []DisplayIsThread
<1>1. Init => IInv
  <2> SUFFICES ASSUME Init PROVE IInv
    OBVIOUS
  <2>1. log = <<>> /\ shown = <<>> /\ loaded = 0 /\ trouble = 0
    BY DEF Init
  <2>2. log \in Seq({})
    BY <2>1
  <2> QED BY <2>1, <2>2 DEF IInv
<1>2. IInv => DisplayIsThread
  BY DEF IInv, DisplayIsThread
<1> QED BY <1>1, <1>2, StepKeeps, PTL DEF Spec

-----------------------------------------------------------------------------
(* Types.                                                                  *)

\* What the gateway sends, and what the task makes of it, names runs and pieces.
GoodFrame(f) == /\ f \in Frame
                /\ f.type \in {"delta", "end"} \/ f.text => f.run \in Run
                /\ f.type = "delta" => f.seq \in 1 .. ReplyLen
GoodEvent(e) == /\ e \in Event
                /\ e.kind \in {"delta", "done"} => e.run \in Run
                /\ e.kind = "delta" => e.seq \in 1 .. ReplyLen
FlightOK == /\ \A i \in DOMAIN wire : GoodFrame(wire[i])
            /\ \A i \in DOMAIN events : GoodEvent(events[i])

\* A queued message was typed, once, and was not asked yet.
QueueOK == /\ \A i \in DOMAIN queue : queue[i] \in typed /\ res[queue[i]] = "none"
           /\ \A i, j \in DOMAIN queue : queue[i] = queue[j] => i = j
           /\ \A q \in Own \ typed : res[q] = "none"

TypeInv == TypeOK /\ FlightOK /\ QueueOK

\* What the gateway does: it drops the connection or pushes one frame.
PushesPiece(f) == \E r \in Run :
  /\ sent[r] < ReplyLen /\ f = DeltaFrame(r, sent[r] + 1)
  /\ sent' = [sent EXCEPT ![r] = @ + 1] /\ UNCHANGED <<res, ended>>
PushesEnd(f) == \E r \in Run :
  /\ sent[r] = ReplyLen /\ f = EndFrame(r)
  /\ ended' = ended \cup {r} /\ UNCHANGED <<res, sent>>
PushesRes(f) == \E r \in Own, type \in {"accepted", "refused", "completed"}, x \in BOOLEAN :
  /\ f = ResFrame(type, r, x) /\ res[r] \in {"asked", "accepted"}
  /\ \E answer \in {"accepted", "refused", "completed"} :
       res' = [res EXCEPT ![r] = answer] /\ (x => answer = "completed")
  /\ UNCHANGED <<sent, ended>>
PushesNoise(f) == f = NoiseFrame /\ UNCHANGED <<res, sent, ended>>

Pushes(f) == /\ wire' = Append(wire, f) /\ open' = open
             /\ PushesPiece(f) \/ PushesEnd(f) \/ PushesRes(f) \/ PushesNoise(f)

LEMMA GatewayMoves ==
  ASSUME GatewayNext
  PROVE  /\ cumulative' = cumulative /\ noise' \in {noise, noise + 1}
         /\ Drop \/ \E f : Pushes(f)
<1>1. ASSUME NEW r \in Own, NEW x \in BOOLEAN,
             Accept(r) \/ AcceptWithText(r) \/ Refuse(r) \/ Complete(r, x)
      PROVE  /\ cumulative' = cumulative /\ noise' = noise
             /\ \E f : Pushes(f)
  <2>1. CASE Accept(r)
    BY <2>1 DEF Accept, Push, Pushes, PushesRes
  <2>2. CASE AcceptWithText(r)
    BY <2>2 DEF AcceptWithText, Push, Pushes, PushesRes
  <2>3. CASE Refuse(r)
    BY <2>3 DEF Refuse, Push, Pushes, PushesRes
  <2>4. CASE Complete(r, x)
    BY <2>4 DEF Complete, Push, Pushes, PushesRes
  <2> QED BY <1>1, <2>1, <2>2, <2>3, <2>4
<1>2. ASSUME NEW r \in Run, Emit(r) \/ End(r)
      PROVE  /\ cumulative' = cumulative /\ noise' = noise
             /\ \E f : Pushes(f)
  BY <1>2 DEF Emit, End, Push, Pushes, PushesPiece, PushesEnd
<1>3. CASE Noise
  BY <1>3 DEF Noise, Push, Pushes, PushesNoise
<1>4. CASE Drop
  BY <1>4 DEF Drop
<1>5. \/ \E r \in Own, x \in BOOLEAN :
           Accept(r) \/ AcceptWithText(r) \/ Refuse(r) \/ Complete(r, x)
      \/ \E r \in Run : Emit(r) \/ End(r)
      \/ Noise \/ Drop
  BY DEF GatewayNext
<1> QED BY <1>1, <1>2, <1>3, <1>4, <1>5

LEMMA PushedGood ==
  ASSUME TypeInv, NEW f, Pushes(f)
  PROVE  /\ GoodFrame(f) /\ wire' \in Seq(Frame) /\ \A i \in DOMAIN wire' : GoodFrame(wire'[i])
         /\ res' \in [Own -> {"none", "asked", "accepted", "refused", "completed"}]
         /\ sent' \in [Run -> 0 .. ReplyLen] /\ ended' \in SUBSET Run
         /\ \A q \in Own : res[q] = "none" => res'[q] = "none"
<1> USE RunAssumption, BoundAssumption
<1>1. CASE PushesPiece(f)
  <2>1. PICK r \in Run : /\ sent[r] < ReplyLen /\ f = DeltaFrame(r, sent[r] + 1)
                         /\ sent' = [sent EXCEPT ![r] = @ + 1] /\ UNCHANGED <<res, ended>>
    BY <1>1 DEF PushesPiece
  <2>2. sent \in [Run -> 0 .. ReplyLen] /\ sent[r] + 1 \in 1 .. ReplyLen
    BY <2>1 DEF TypeInv, TypeOK
  <2>3. GoodFrame(f)
    BY <2>1, <2>2 DEF GoodFrame, DeltaFrame, Frame, TypeInv, TypeOK
  <2>4. sent' \in [Run -> 0 .. ReplyLen]
    BY <2>1, <2>2
  <2> QED BY <2>1, <2>3, <2>4, AllOfAppend, SMTT(20)
          DEF Pushes, TypeInv, TypeOK, FlightOK, GoodFrame
<1>2. CASE PushesEnd(f)
  <2>1. GoodFrame(f)
    BY <1>2 DEF PushesEnd, GoodFrame, EndFrame, Frame, TypeInv, TypeOK
  <2> QED BY <1>2, <2>1, AllOfAppend
          DEF PushesEnd, Pushes, TypeInv, TypeOK, FlightOK, GoodFrame
<1>3. CASE PushesRes(f)
  <2>1. PICK r \in Own, type \in {"accepted", "refused", "completed"}, x \in BOOLEAN :
          /\ f = ResFrame(type, r, x) /\ res[r] \in {"asked", "accepted"}
          /\ \E answer \in {"accepted", "refused", "completed"} :
               res' = [res EXCEPT ![r] = answer]
          /\ UNCHANGED <<sent, ended>>
    BY <1>3 DEF PushesRes
  <2>2. GoodFrame(f)
    BY <2>1 DEF GoodFrame, ResFrame, Frame
  <2>3. /\ res' \in [Own -> {"none", "asked", "accepted", "refused", "completed"}]
        /\ \A q \in Own : res[q] = "none" => res'[q] = "none"
    BY <2>1 DEF TypeInv, TypeOK
  <2> QED BY <2>1, <2>2, <2>3, AllOfAppend DEF Pushes, TypeInv, TypeOK, FlightOK, GoodFrame
<1>4. CASE PushesNoise(f)
  <2>1. GoodFrame(f)
    BY <1>4 DEF PushesNoise, GoodFrame, NoiseFrame, Frame
  <2> QED BY <1>4, <2>1, AllOfAppend
          DEF PushesNoise, Pushes, TypeInv, TypeOK, FlightOK, GoodFrame
<1> QED BY <1>1, <1>2, <1>3, <1>4 DEF Pushes

LEMMA GatewayTyped ==
  ASSUME TypeInv, GatewayNext, UNCHANGED tuiVars
  PROVE  TypeInv'
<1> USE DEF tuiVars
<1>1. noise' \in Nat /\ cumulative' \in BOOLEAN
  BY GatewayMoves DEF TypeInv, TypeOK
<1>2. CASE Drop
  BY <1>1, <1>2 DEF Drop, TypeInv, TypeOK, FlightOK, QueueOK
<1>3. ASSUME NEW f, Pushes(f) PROVE TypeInv'
  <2>1. /\ wire' \in Seq(Frame) /\ \A i \in DOMAIN wire' : GoodFrame(wire'[i])
        /\ res' \in [Own -> {"none", "asked", "accepted", "refused", "completed"}]
        /\ sent' \in [Run -> 0 .. ReplyLen] /\ ended' \in SUBSET Run
        /\ \A q \in Own : res[q] = "none" => res'[q] = "none"
    BY <1>3, PushedGood
  <2>2. open' = open
    BY <1>3 DEF Pushes
  <2>3. TypeOK'
    BY <1>1, <2>1, <2>2 DEF TypeInv, TypeOK
  <2>4. FlightOK'
    BY <2>1 DEF TypeInv, FlightOK
  <2>5. \A i \in DOMAIN queue : queue[i] \in Own
    BY DEF TypeInv, TypeOK
  <2>6. QueueOK'
    BY <2>1, <2>5 DEF TypeInv, QueueOK
  <2> QED BY <2>3, <2>4, <2>6 DEF TypeInv
<1> QED BY <1>2, <1>3, GatewayMoves

\* An event told to the loop, and a frame taken from the wire.
LEMMA ToldGood ==
  ASSUME TypeInv, NEW e, GoodEvent(e), Tell(e)
  PROVE  /\ events' \in Seq(Event) /\ Len(events') <= EventCap
         /\ \A i \in DOMAIN events' : GoodEvent(events'[i])
<1>1. /\ events \in Seq(Event) /\ e \in Event /\ Len(events) < EventCap
      /\ events' = Append(events, e) /\ EventCap \in Nat
  BY ChannelAssumption DEF TypeInv, TypeOK, GoodEvent, Tell
<1>2. Len(events') <= EventCap
  BY <1>1
<1> QED BY <1>1, <1>2, AllOfAppend DEF TypeInv, FlightOK

LEMMA StatusGood == \A kind \in {"connected", "down"} : GoodEvent(StatusEvent(kind))
BY DEF GoodEvent, StatusEvent, Event

LEMMA TakenGood ==
  ASSUME TypeInv, NEW type, Take(type)
  PROVE  /\ GoodFrame(Got) /\ Got.type = type /\ wire' \in Seq(Frame)
         /\ \A i \in DOMAIN wire' : GoodFrame(wire'[i])
         /\ type = "delta" => GoodEvent(DeltaEvent(Got.run, Got.seq))
         /\ type = "end" \/ Got.text => GoodEvent(DoneEvent(Got.run, Got.text))
<1>1. wire \in Seq(Frame) /\ wire # <<>> /\ wire' = Tail(wire) /\ Got = Head(wire) /\ Got.type = type
  BY DEF Take, Got, TypeInv, TypeOK
<1>2. GoodFrame(Got) /\ wire' \in Seq(Frame) /\ \A i \in DOMAIN wire' : GoodFrame(wire'[i])
  BY <1>1, AllOfTail DEF TypeInv, FlightOK
<1>3. Got.seq \in Nat /\ Got.text \in BOOLEAN
  BY <1>2 DEF GoodFrame, Frame
<1>4. type = "delta" => GoodEvent(DeltaEvent(Got.run, Got.seq))
  BY <1>1, <1>2, <1>3 DEF GoodFrame, GoodEvent, DeltaEvent, Event
<1>5. type = "end" \/ Got.text => GoodEvent(DoneEvent(Got.run, Got.text))
  BY <1>1, <1>2, <1>3 DEF GoodFrame, GoodEvent, DoneEvent, Event
<1> QED BY <1>1, <1>2, <1>4, <1>5

LEMMA TaskTyped == ASSUME TypeInv, TaskStep PROVE TypeInv'
<1> USE DEF loopVars, fileVars, gatewayVars
<1>1. ASSUME NEW e, GoodEvent(e), Tell(e)
      PROVE  /\ events' \in Seq(Event) /\ Len(events') <= EventCap
             /\ \A i \in DOMAIN events' : GoodEvent(events'[i])
  BY <1>1, ToldGood
<1>2. CASE Connect
  <2>1. task' \in {"running", "exited"} /\ \E e : GoodEvent(e) /\ Tell(e)
    BY <1>2, StatusGood DEF Connect
  <2> QED BY <1>1, <1>2, <2>1 DEF Connect, TypeInv, TypeOK, FlightOK, QueueOK
<1>3. ASSUME NEW type, Take(type), (\E e : GoodEvent(e) /\ Tell(e)) \/ UNCHANGED events
      PROVE  TypeInv'
  <2>1. /\ wire' \in Seq(Frame) /\ \A i \in DOMAIN wire' : GoodFrame(wire'[i])
        /\ UNCHANGED <<open, res, sent, ended, cumulative, noise, task, loopVars, fileVars>>
    BY <1>3, TakenGood DEF Take, TaskMoves
  <2>2. /\ events' \in Seq(Event) /\ Len(events') <= EventCap
        /\ \A i \in DOMAIN events' : GoodEvent(events'[i])
    BY <1>1, <1>3 DEF TypeInv, TypeOK, FlightOK
  <2> QED BY <2>1, <2>2 DEF TypeInv, TypeOK, FlightOK, QueueOK
<1>4. CASE RecvDelta \/ RecvEnd
  BY <1>3, <1>4, TakenGood DEF RecvDelta, RecvEnd
<1>5. CASE RecvRes
  <2>1. PICK type \in {"accepted", "completed"} : Take(type)
    BY <1>5 DEF RecvRes
  <2>2. (\E e : GoodEvent(e) /\ Tell(e)) \/ UNCHANGED events
    <3>1. CASE Got.text
      <4>1. Got.text = TRUE
        BY <2>1, <3>1, TakenGood DEF GoodFrame, Frame
      <4>2. GoodEvent(DoneEvent(Got.run, TRUE))
        BY <2>1, <4>1, TakenGood
      <4> QED BY <1>5, <3>1, <4>2 DEF RecvRes
    <3>2. CASE ~Got.text
      BY <1>5, <3>2 DEF RecvRes
    <3> QED BY <3>1, <3>2
  <2> QED BY <1>3, <2>1, <2>2
<1>6. CASE IgnoreFrame
  BY <1>3, <1>6 DEF IgnoreFrame
<1>7. CASE RecvClosed
  BY <1>1, <1>7, StatusGood DEF RecvClosed, TaskMoves, TypeInv, TypeOK, FlightOK, QueueOK
<1>8. CASE SendQueued
  <2>1. /\ queue \in Seq(Own) /\ queue # <<>> /\ queue' = Tail(queue)
        /\ UNCHANGED <<wire, open, sent, ended, cumulative, noise, mode, watching, status, typed,
                       shown, stream, loaded, fileVars>>
    BY <1>8 DEF SendQueued, TypeInv, TypeOK
  <2>2. PICK q : q = Head(queue)
    OBVIOUS
  <2>3. /\ queue' \in Seq(Own) /\ Len(queue') <= QueueCap
        /\ q = queue[1] /\ 1 \in DOMAIN queue /\ q \in Own
        /\ \A i \in DOMAIN queue' : i \in Nat /\ i >= 1 /\ i + 1 \in DOMAIN queue
                                    /\ queue'[i] = queue[i + 1]
    BY <2>1, <2>2, ChannelAssumption DEF TypeInv, TypeOK
  <2>4. /\ q \in typed /\ \A i \in DOMAIN queue' : queue'[i] \in typed /\ queue'[i] # q
                                                  /\ res[queue'[i]] = "none"
        /\ \A i, j \in DOMAIN queue' : queue'[i] = queue'[j] => i = j
    <3>1. \A i, j \in DOMAIN queue : queue[i] = queue[j] => i = j
      BY DEF TypeInv, QueueOK
    <3>2. \A i \in DOMAIN queue : queue[i] \in typed /\ res[queue[i]] = "none"
      BY DEF TypeInv, QueueOK
    <3>3. \A i, j \in DOMAIN queue' : queue'[i] = queue'[j] => i = j
      BY <2>3, <3>1
    <3>4. \A i \in DOMAIN queue' : i + 1 # 1
      BY <2>3
    <3>5. \A i \in DOMAIN queue' : queue'[i] # q
      BY <2>3, <3>1, <3>4
    <3> QED BY <2>3, <3>2, <3>3, <3>5
  <2>5. /\ res' \in [Own -> {"none", "asked", "accepted", "refused", "completed"}]
        /\ \A x \in Own : x # q => res'[x] = res[x]
    BY <1>8, <2>2, <2>3 DEF SendQueued, TypeInv, TypeOK
  <2>6. /\ events' \in Seq(Event) /\ Len(events') <= EventCap
        /\ \A i \in DOMAIN events' : GoodEvent(events'[i])
    BY <1>1, <1>8, StatusGood DEF SendQueued, TypeInv, TypeOK, FlightOK
  <2>7. task' \in {task, "exited"}
    BY <1>8 DEF SendQueued
  <2>8. QueueOK'
    <3>1. typed \subseteq Own /\ \A x \in Own \ typed : res'[x] = "none"
      BY <2>4, <2>5 DEF TypeInv, TypeOK, QueueOK
    <3>2. \A i \in DOMAIN queue' : queue'[i] \in typed /\ res'[queue'[i]] = "none"
      BY <2>4, <2>5, <3>1
    <3>3. typed' = typed
      BY <2>1
    <3> QED BY <2>4, <3>1, <3>2, <3>3 DEF QueueOK
  <2>9. TypeOK'
    BY <2>1, <2>3, <2>5, <2>6, <2>7 DEF TypeInv, TypeOK
  <2> QED BY <2>1, <2>6, <2>8, <2>9 DEF TypeInv, FlightOK
<1> QED BY <1>2, <1>4, <1>5, <1>6, <1>7, <1>8 DEF TaskStep, TakeFrame

LEMMA OneOf == ASSUME NEW S, NEW x \in S PROVE <<x>> \in Seq(S)
  OBVIOUS

LEMMA LinesTyped ==
  /\ UserLine \in Line /\ \A q \in Own : OperatorLine(q) \in Line
  /\ \A r \in Run : Whole(r) \in Seq(Piece)
  /\ \A r \in Run : <<<<r, 1>>>> \in Seq(Piece)
  /\ \A r \in Run, tx \in Seq(Piece) : AgentLine(r, tx) \in Line /\ PeerLine(r, tx) \in Line
<1>1. \A r \in Run : Whole(r) \in [1 .. ReplyLen -> Piece] /\ ReplyLen \in Nat
  BY BoundAssumption DEF Whole, Piece
<1>2. \A r \in Run : Whole(r) \in Seq(Piece)
  <2>1. \A n \in Nat : \A f \in [1 .. n -> Piece] : f \in Seq(Piece)
    OBVIOUS
  <2> QED BY <1>1, <2>1
<1>3. <<>> \in Seq(Piece)
  OBVIOUS
<1>4. \A r \in Run : <<<<r, 1>>>> \in Seq(Piece)
  <2>1. \A r \in Run : <<r, 1>> \in Piece
    BY BoundAssumption DEF Piece
  <2> QED BY <2>1, OneOf
<1>5. \A r \in Run, tx \in Seq(Piece) : AgentLine(r, tx) \in Line /\ PeerLine(r, tx) \in Line
  BY DEF AgentLine, PeerLine, Line
<1> QED BY <1>2, <1>3, <1>4, <1>5 DEF UserLine, OperatorLine, Line

\* Writing a line and reading the file keep the types of the thread.
FileTyped == /\ log \in Seq(Line) /\ loaded \in Nat /\ changed \in BOOLEAN
             /\ trouble \in 0 .. MaxTrouble /\ watching \in BOOLEAN

LEMMA WriteTyped ==
  ASSUME FileTyped, NEW line \in Line, Write(line)
  PROVE  log' \in Seq(Line) /\ changed' \in BOOLEAN
BY DEF FileTyped, Write

LEMMA WriteOwnTyped ==
  ASSUME FileTyped, NEW line \in Line, WriteOwn(line)
  PROVE  /\ log' \in Seq(Line) /\ changed' \in BOOLEAN
         /\ loaded' \in Nat /\ trouble' \in 0 .. MaxTrouble
<1>1. log' \in Seq(Line) /\ changed' \in BOOLEAN
  BY WriteTyped DEF WriteOwn, Merged, FileTyped
<1>2. loaded' \in Nat
  BY DEF WriteOwn, FileTyped
<1>3. trouble' \in 0 .. MaxTrouble
  BY TroubleAssumption DEF WriteOwn, FileTyped
<1> QED BY <1>1, <1>2, <1>3

\* The lines a poll adds are lines of the thread, each of them once, and no
\* run that was displayed is among them.
LEMMA NewLinesAre ==
  ASSUME log \in Seq(Line), loaded \in Nat
  PROVE  /\ NewLines \in Seq(Line)
         /\ \E at \in [DOMAIN NewLines -> DOMAIN log] :
              /\ \A k \in DOMAIN NewLines :
                   /\ NewLines[k] = log[at[k]]
                   /\ NewLines[k].run = NoRun \/ ~Among(shown, NewLines[k].run)
              /\ \A j, k \in DOMAIN NewLines : at[j] = at[k] => j = k
<1> DEFINE S == {i \in loaded + 1 .. Len(log) : log[i].run = NoRun \/ ~Among(shown, log[i].run)}
           at == InOrder(S)
           n  == Cardinality(S)
<1>1. /\ Len(log) \in Nat /\ DOMAIN log = 1 .. Len(log) /\ S \in SUBSET DOMAIN log
      /\ \A i \in S : log[i].run = NoRun \/ ~Among(shown, log[i].run)
  OBVIOUS
<1>2. NewLines = Picked(log, S)
  BY DEF NewLines
<1> HIDE DEF S
<1>3. /\ S \in SUBSET Nat /\ n \in Nat /\ NewLines \in Seq(Line) /\ Len(NewLines) = n
      /\ \A k \in 1 .. n : at[k] \in S /\ NewLines[k] = log[at[k]]
      /\ \A j, k \in 1 .. n : j < k => at[j] < at[k]
  BY <1>1, <1>2, PickedIs
<1>4. DOMAIN NewLines = 1 .. n
  BY <1>3
<1>5. at \in [1 .. n -> S]
  BY <1>3 DEF InOrder
<1>6. ASSUME NEW j \in 1 .. n, NEW k \in 1 .. n, at[j] = at[k] PROVE j = k
  <2>1. at[j] \in S /\ at[k] \in S
    BY <1>3
  <2> HIDE DEF at, n
  <2>2. at[j] \in Nat /\ at[k] \in Nat
    BY <1>3, <2>1
  <2>n. n \in Nat
    BY <1>3
  <2>i. j \in Nat /\ k \in Nat
    BY <2>n
  <2>3. ~(j < k) /\ ~(k < j)
    BY <1>3, <1>6, <2>2, <2>i
  <2> QED BY <2>2, <2>i, <2>3
<1>7. at \in [DOMAIN NewLines -> DOMAIN log]
  BY <1>1, <1>4, <1>5
<1>8. ASSUME NEW k \in DOMAIN NewLines
      PROVE  /\ NewLines[k] = log[at[k]]
             /\ NewLines[k].run = NoRun \/ ~Among(shown, NewLines[k].run)
  BY <1>1, <1>3, <1>4
<1>9. \A j, k \in DOMAIN NewLines : at[j] = at[k] => j = k
  BY <1>4, <1>6
<1>10. NewLines \in Seq(Line)
  BY <1>3
<1> HIDE DEF at, n
<1> QED BY <1>7, <1>8, <1>9, <1>10

LEMMA ReloadTyped ==
  ASSUME FileTyped, shown \in Seq(Line), Reload
  PROVE  shown' \in Seq(Line) /\ loaded' \in Nat /\ trouble' \in 0 .. MaxTrouble
<1>1. CASE Len(log) > loaded /\ shown' = shown \o NewLines /\ loaded' = Len(log) /\ UNCHANGED trouble
  <2>1. NewLines \in Seq(Line) /\ Len(log) \in Nat
    BY NewLinesAre DEF FileTyped
  <2> QED BY <1>1, <2>1 DEF FileTyped
<1>2. CASE UNCHANGED <<shown, loaded, trouble>>
  BY <1>2 DEF FileTyped
<1>3. CASE trouble < MaxTrouble /\ trouble' = trouble + 1 /\ UNCHANGED <<shown, loaded>>
  BY <1>3, TroubleAssumption DEF FileTyped
<1> QED BY <1>1, <1>2, <1>3 DEF Reload

LEMMA HandledGood ==
  ASSUME TypeInv, NEW kind, Handle(kind)
  PROVE  /\ events \in Seq(Event) /\ events # <<>> /\ events' = Tail(events)
         /\ GoodEvent(Head(events)) /\ Head(events).kind = kind /\ Head(events) = events[1]
         /\ events' \in Seq(Event) /\ Len(events') <= EventCap
         /\ \A i \in DOMAIN events' : GoodEvent(events'[i])
<1>1. /\ events \in Seq(Event) /\ events # <<>> /\ events' = Tail(events)
      /\ Head(events).kind = kind /\ Len(events) <= EventCap /\ EventCap \in Nat
  BY ChannelAssumption DEF Handle, TypeInv, TypeOK
<1>2. /\ events' \in Seq(Event) /\ Len(events') = Len(events) - 1 /\ Head(events) = events[1]
      /\ 1 \in DOMAIN events
      /\ \A i \in DOMAIN events' : i + 1 \in DOMAIN events /\ events'[i] = events[i + 1]
  BY <1>1, AllOfTail
<1>3. Len(events') <= EventCap
  BY <1>1, <1>2
<1> QED BY <1>1, <1>2, <1>3 DEF TypeInv, FlightOK

LEMMA TurnTyped == ASSUME TypeInv, Turn \/ Quit PROVE TypeInv'
<1> USE DEF loopVars, fileVars, gatewayVars
<1>0. FileTyped /\ shown \in Seq(Line)
  BY DEF TypeInv, TypeOK, FileTyped
<1>1. ASSUME NEW kind, Handle(kind), status' \in {"connecting", "connected", "down"},
             shown' \in Seq(Line), stream' \in [run : Run \cup {NoRun}, pieces : Seq(Piece)],
             log' \in Seq(Line), loaded' \in Nat, changed' \in BOOLEAN,
             trouble' \in 0 .. MaxTrouble
      PROVE  TypeInv'
  <2>1. /\ events' \in Seq(Event) /\ Len(events') <= EventCap
        /\ \A i \in DOMAIN events' : GoodEvent(events'[i])
    BY <1>1, HandledGood
  <2>2. UNCHANGED <<gatewayVars, mode, watching, task, queue, typed>>
    BY <1>1 DEF Handle
  <2> QED BY <1>1, <2>1, <2>2 DEF TypeInv, TypeOK, FlightOK, QueueOK
<1>2. CASE HandleStatus
  <2>1. /\ status' \in {"connecting", "connected", "down"} /\ \E kind : Handle(kind)
        /\ UNCHANGED <<shown, stream, log, loaded, changed, trouble>>
    BY <1>2 DEF HandleStatus
  <2> QED BY <1>1, <2>1 DEF TypeInv, TypeOK
<1>3. CASE HandleDelta
  <2> DEFINE e    == Head(events)
             kept == IF stream.run = e.run THEN stream.pieces ELSE <<>>
  <2>1. Handle("delta") /\ UNCHANGED <<status, shown, log, loaded, changed, trouble>>
    BY <1>3 DEF HandleDelta
  <2>2. e.run \in Run /\ e.seq \in 1 .. ReplyLen
    BY <2>1, HandledGood DEF GoodEvent
  <2>3. <<e.run, e.seq>> \in Piece /\ kept \in Seq(Piece)
    BY <2>2 DEF Piece, TypeInv, TypeOK
  <2>4. stream' = [run |-> e.run, pieces |-> Append(kept, <<e.run, e.seq>>)]
    BY <1>3 DEF HandleDelta
  <2>5. Append(kept, <<e.run, e.seq>>) \in Seq(Piece)
    BY <2>3, AllOfAppend
  <2>6. stream' \in [run : Run \cup {NoRun}, pieces : Seq(Piece)]
    BY <2>2, <2>4, <2>5
  <2> QED BY <1>1, <2>1, <2>6 DEF TypeInv, TypeOK
<1>4. CASE HandleDone
  <2> DEFINE e    == Head(events)
             line == AgentLine(e.run, TurnText(e))
  <2>1. Handle("done") /\ status' = status /\ stream' = NoStream
    BY <1>4 DEF HandleDone
  <2>2. e.run \in Run
    BY <2>1, HandledGood DEF GoodEvent
  <2>3. line \in Line
    BY <2>2, LinesTyped DEF TurnText, TypeInv, TypeOK
  <2>4. NoStream \in [run : Run \cup {NoRun}, pieces : Seq(Piece)]
    <3>1. <<>> \in Seq(Piece)
      OBVIOUS
    <3> QED BY <3>1 DEF NoStream
  <2>5. CASE Among(shown, e.run)
    BY <1>1, <1>4, <2>1, <2>4, <2>5 DEF HandleDone, TypeInv, TypeOK
  <2>6. CASE ~Among(shown, e.run)
    <3>1. shown' = Append(shown, line) /\ WriteOwn(line)
      BY <1>4, <2>6 DEF HandleDone
    <3>2. shown' \in Seq(Line)
      BY <1>0, <2>3, <3>1, AllOfAppend
    <3> HIDE DEF line
    <3>3. /\ log' \in Seq(Line) /\ changed' \in BOOLEAN
          /\ loaded' \in Nat /\ trouble' \in 0 .. MaxTrouble
      BY <1>0, <2>3, <3>1, WriteOwnTyped
    <3> QED BY <1>1, <2>1, <2>4, <3>2, <3>3 DEF TypeInv, TypeOK
  <2> QED BY <2>5, <2>6
<1>5. CASE Begin \/ EventsDone \/ WakeUp \/ KeysDone \/ FileDone \/ Quit
  <2>1. /\ mode' \in {"start", "events", "sleep", "keys", "file", "quit"} /\ watching' \in BOOLEAN
        /\ UNCHANGED <<gatewayVars, status, task, events, queue, typed, shown, stream, loaded,
                       fileVars>>
    BY <1>5 DEF Begin, EventsDone, WakeUp, KeysDone, FileDone, Quit, Goto, TypeInv, TypeOK
  <2> QED BY <2>1 DEF TypeInv, TypeOK, FlightOK, QueueOK
<1>6. CASE PollFile \/ PollTick
  <2>1. /\ Reload /\ mode' \in {"start", "events", "sleep", "keys", "file", "quit"}
        /\ changed' \in BOOLEAN
        /\ UNCHANGED <<gatewayVars, watching, status, task, events, queue, typed, stream, log>>
    BY <1>6 DEF PollFile, PollTick, TypeInv, TypeOK
  <2>2. shown' \in Seq(Line) /\ loaded' \in Nat /\ trouble' \in 0 .. MaxTrouble
    BY <1>0, <2>1, ReloadTyped
  <2> QED BY <2>1, <2>2 DEF TypeInv, TypeOK, FlightOK, QueueOK
<1> QED BY <1>2, <1>3, <1>4, <1>5, <1>6 DEF Turn

LEMMA EnterTyped == ASSUME TypeInv, NEW q \in Own, EnterMessage(q) PROVE TypeInv'
<1>0. FileTyped /\ shown \in Seq(Line) /\ OperatorLine(q) \in Line
  BY LinesTyped DEF TypeInv, TypeOK, FileTyped
<1>1. /\ q \notin typed /\ typed' = typed \cup {q} /\ shown' = Append(shown, OperatorLine(q))
      /\ WriteOwn(OperatorLine(q))
      /\ \/ Len(queue) < QueueCap /\ queue' = Append(queue, q)
         \/ queue' = queue
      /\ UNCHANGED <<gatewayVars, mode, watching, status, task, events, stream>>
  BY DEF EnterMessage
<1>2. shown' \in Seq(Line)
  BY <1>0, <1>1, AllOfAppend
<1>3. /\ log' \in Seq(Line) /\ changed' \in BOOLEAN
      /\ loaded' \in Nat /\ trouble' \in 0 .. MaxTrouble
  BY <1>0, <1>1, WriteOwnTyped
<1>4. queue \in Seq(Own) /\ Len(queue) <= QueueCap /\ QueueCap \in Nat /\ typed \subseteq Own
  BY ChannelAssumption DEF TypeInv, TypeOK
<1>5. queue' \in Seq(Own) /\ Len(queue') <= QueueCap
  BY <1>1, <1>4
<1>6. TypeOK'
  BY <1>1, <1>2, <1>3, <1>4, <1>5 DEF TypeInv, TypeOK, gatewayVars
<1>7. FlightOK'
  BY <1>1 DEF TypeInv, FlightOK, gatewayVars
<1>8. QueueOK'
  <2>1. /\ \A i \in DOMAIN queue : queue[i] \in typed /\ res[queue[i]] = "none"
        /\ \A i, j \in DOMAIN queue : queue[i] = queue[j] => i = j
        /\ \A x \in Own \ typed : res[x] = "none"
    BY DEF TypeInv, QueueOK
  <2>2. \A i \in DOMAIN queue' : \/ i \in DOMAIN queue /\ queue'[i] = queue[i]
                                 \/ i = Len(queue) + 1 /\ queue'[i] = q
    BY <1>1, <1>4, AllOfAppend
  <2>3. res' = res
    BY <1>1 DEF gatewayVars
  <2>4. \A i \in DOMAIN queue' : queue'[i] \in typed' /\ res'[queue'[i]] = "none"
    BY <1>1, <2>1, <2>2, <2>3
  <2>5. \A i \in DOMAIN queue : queue[i] # q
    BY <1>1, <2>1
  <2>6. \A i, j \in DOMAIN queue' : queue'[i] = queue'[j] => i = j
    BY <2>1, <2>2, <2>5
  <2>7. \A x \in Own \ typed' : res'[x] = "none"
    BY <1>1, <2>1, <2>3
  <2> QED BY <2>4, <2>6, <2>7 DEF QueueOK
<1> QED BY <1>6, <1>7, <1>8 DEF TypeInv

LEMMA PeerTyped == ASSUME TypeInv, PeerStep PROVE TypeInv'
<1>1. PICK line \in Line : PeerWrites(line)
  BY LinesTyped DEF PeerStep, TypeInv, TypeOK
<1>2. log' \in Seq(Line) /\ changed' \in BOOLEAN
  BY <1>1, WriteTyped DEF PeerWrites, FileTyped, TypeInv, TypeOK
<1>3. trouble' \in 0 .. MaxTrouble
  BY <1>1, TroubleAssumption DEF PeerWrites, TypeInv, TypeOK
<1> QED BY <1>1, <1>2, <1>3
        DEF PeerWrites, gatewayVars, loopVars, TypeInv, TypeOK, FlightOK, QueueOK

LEMMA StepTyped == TypeInv /\ [Next]_vars => TypeInv'
<1> SUFFICES ASSUME TypeInv, [Next]_vars PROVE TypeInv'
  OBVIOUS
<1>1. CASE UNCHANGED vars
  BY <1>1 DEF vars, TypeInv, TypeOK, FlightOK, QueueOK
<1>2. CASE GatewayNext /\ UNCHANGED tuiVars
  BY <1>2, GatewayTyped
<1> QED BY <1>1, <1>2, TaskTyped, TurnTyped, EnterTyped, PeerTyped DEF Next

LEMMA InitTyped == Init => TypeInv
<1> SUFFICES ASSUME Init PROVE TypeInv
  OBVIOUS
<1>1. /\ wire = <<>> /\ events = <<>> /\ queue = <<>> /\ shown = <<>> /\ log = <<>>
      /\ res = [r \in Own |-> "none"] /\ sent = [r \in Run |-> 0] /\ stream = NoStream
      /\ noise = 0 /\ trouble = 0 /\ loaded = 0 /\ ended = {} /\ typed = {}
  BY DEF Init, GatewayInit
<1>2. /\ wire \in Seq(Frame) /\ events \in Seq(Event) /\ queue \in Seq(Own)
      /\ shown \in Seq(Line) /\ log \in Seq(Line)
      /\ Len(events) = 0 /\ Len(queue) = 0
  BY <1>1
<1>3. stream \in [run : Run \cup {NoRun}, pieces : Seq(Piece)]
  <2>1. <<>> \in Seq(Piece)
    OBVIOUS
  <2> QED BY <1>1, <2>1 DEF NoStream
<1>4. /\ sent \in [Run -> 0 .. ReplyLen] /\ noise \in Nat /\ trouble \in 0 .. MaxTrouble
      /\ loaded \in Nat /\ Len(events) <= EventCap /\ Len(queue) <= QueueCap
  BY <1>1, <1>2, BoundAssumption, ChannelAssumption, TroubleAssumption
<1>5. TypeOK
  BY <1>1, <1>2, <1>3, <1>4 DEF Init, GatewayInit, TypeOK
<1>6. FlightOK /\ QueueOK
  BY <1>1 DEF FlightOK, QueueOK
<1> QED BY <1>5, <1>6 DEF TypeInv

\* Every variable of the viewer has its type, and neither channel holds more
\* than its capacity (tui/mod.rs:76-85, 543, ws_task.rs:84-230).
THEOREM TuiTypeCorrect == Spec => []TypeOK
<1>1. TypeInv => TypeOK
  BY DEF TypeInv
<1> QED BY <1>1, InitTyped, StepTyped, PTL DEF Spec
-----------------------------------------------------------------------------
(* A reply is displayed once.                                              *)

Fresh(lines, line) == line.run = NoRun \/ ~Among(lines, line.run)
Distinct(lines) ==
  \A i, j \in DOMAIN lines : lines[i].run # NoRun /\ lines[i].run = lines[j].run => i = j

\* The lines the steps make: a message, what a peer has of a run, and what
\* TurnComplete makes of the stream.
CompletedLine == AgentLine(Head(events).run, TurnText(Head(events)))
MadeLine(line) ==
  \/ line.run = NoRun
  \/ line.who = "peer"
  \/ HandleDone /\ ~Among(shown, Head(events).run) /\ line = CompletedLine

Gains(lines, new) ==
  \E line \in Line : MadeLine(line) /\ Fresh(lines, line) /\ new = Append(lines, line)

LEMMA WriteGains ==
  ASSUME NEW line \in Line, MadeLine(line), Write(line) \/ WriteOwn(line)
  PROVE  log' = log \/ Gains(log, log')
BY DEF Write, WriteOwn, Merged, Gains, Fresh

\* How a step changes the display and the thread.
LEMMA LineSteps ==
  ASSUME TypeInv, [Next]_vars
  PROVE  /\ shown' = shown \/ Gains(shown, shown') \/ shown' = shown \o NewLines
         /\ log' = log \/ Gains(log, log')
<1> USE DEF loopVars, fileVars, tuiVars, gatewayVars
<1>1. CASE TaskStep
  BY <1>1 DEF TaskStep, TakeFrame, Connect, SendQueued, RecvDelta, RecvEnd, RecvRes,
              IgnoreFrame, RecvClosed, Take, TaskMoves
<1>2. CASE HandleStatus \/ HandleDelta
  BY <1>2 DEF HandleStatus, HandleDelta
<1>3. CASE HandleDone
  <2>1. Handle("done")
    BY <1>3 DEF HandleDone
  <2>2. CompletedLine \in Line /\ CompletedLine.run = Head(events).run
    BY <2>1, HandledGood, LinesTyped
       DEF CompletedLine, TurnText, GoodEvent, TypeInv, TypeOK, AgentLine
  <2>3. CASE Among(shown, Head(events).run)
    BY <1>3, <2>3 DEF HandleDone
  <2>4. CASE ~Among(shown, Head(events).run)
    <3>1. shown' = Append(shown, CompletedLine) /\ WriteOwn(CompletedLine)
      BY <1>3, <2>4 DEF HandleDone, CompletedLine
    <3>2. MadeLine(CompletedLine) /\ Fresh(shown, CompletedLine)
      BY <1>3, <2>2, <2>4 DEF MadeLine, Fresh
    <3> QED BY <2>2, <3>1, <3>2, WriteGains, Zenon DEF Gains
  <2> QED BY <2>3, <2>4
<1>4. CASE Begin \/ EventsDone \/ WakeUp \/ KeysDone \/ FileDone \/ Quit
  BY <1>4 DEF Begin, EventsDone, WakeUp, KeysDone, FileDone, Quit, Goto
<1>5. CASE PollFile \/ PollTick
  BY <1>5 DEF PollFile, PollTick, Reload
<1>6. ASSUME NEW q \in Own, EnterMessage(q)
      PROVE  (shown' = shown \/ Gains(shown, shown')) /\ (log' = log \/ Gains(log, log'))
  <2>1. OperatorLine(q) \in Line /\ OperatorLine(q).run = NoRun
    BY LinesTyped DEF OperatorLine
  <2>2. MadeLine(OperatorLine(q)) /\ Fresh(shown, OperatorLine(q))
    BY <2>1 DEF MadeLine, Fresh
  <2> QED BY <1>6, <2>1, <2>2, WriteGains DEF EnterMessage, Gains
<1>7. CASE PeerStep
  <2>1. ASSUME NEW line \in Line, MadeLine(line), PeerWrites(line)
        PROVE  shown' = shown /\ (log' = log \/ Gains(log, log'))
    BY <2>1, WriteGains DEF PeerWrites
  <2>2. UserLine \in Line /\ MadeLine(UserLine)
    BY LinesTyped DEF UserLine, MadeLine
  <2>3. ASSUME NEW r \in Run, NEW tx \in {<<<<r, 1>>>>, Whole(r)}
        PROVE  PeerLine(r, tx) \in Line /\ MadeLine(PeerLine(r, tx))
    BY LinesTyped DEF MadeLine, PeerLine
  <2>4. ended \subseteq Run
    BY DEF TypeInv, TypeOK
  <2> QED BY <1>7, <2>1, <2>2, <2>3, <2>4 DEF PeerStep
<1>8. CASE UNCHANGED tuiVars \/ UNCHANGED vars
  BY <1>8 DEF vars
<1> QED BY <1>1, <1>2, <1>3, <1>4, <1>5, <1>6, <1>7, <1>8 DEF Next, Turn

LEMMA DistinctGains ==
  ASSUME NEW lines \in Seq(Line), Distinct(lines), NEW new, Gains(lines, new)
  PROVE  Distinct(new)
<1>1. PICK line \in Line : Fresh(lines, line) /\ new = Append(lines, line)
  BY DEF Gains
<1>2. /\ Len(lines) \in Nat /\ DOMAIN lines = 1 .. Len(lines)
      /\ \A i \in DOMAIN new : \/ i \in DOMAIN lines /\ new[i] = lines[i]
                               \/ i = Len(lines) + 1 /\ new[i] = line
  BY <1>1, AllOfAppend
<1>3. \A i \in DOMAIN lines : lines[i].run = line.run => line.run = NoRun
  BY <1>1 DEF Fresh, Among
<1> QED BY <1>2, <1>3 DEF Distinct

\* What a poll adds was not displayed, and is in the thread once.
LEMMA DistinctReload ==
  ASSUME log \in Seq(Line), loaded \in Nat, shown \in Seq(Line), Distinct(shown), Distinct(log)
  PROVE  Distinct(shown \o NewLines)
<1> DEFINE new == NewLines
           n   == Len(shown)
<1>1. PICK at \in [DOMAIN new -> DOMAIN log] :
        /\ \A k \in DOMAIN new : /\ new[k] = log[at[k]]
                                 /\ new[k].run = NoRun \/ ~Among(shown, new[k].run)
        /\ \A j, k \in DOMAIN new : at[j] = at[k] => j = k
  BY NewLinesAre
<1>2. new \in Seq(Line) /\ n \in Nat
  BY NewLinesAre
<1> HIDE DEF new
<1>3. \A i \in DOMAIN (shown \o new) :
        \/ i \in DOMAIN shown /\ (shown \o new)[i] = shown[i]
        \/ i \in Int /\ i - n \in DOMAIN new /\ (shown \o new)[i] = new[i - n]
  BY <1>2
<1>4. \A i \in DOMAIN shown, k \in DOMAIN new :
        shown[i].run # NoRun => shown[i].run # new[k].run
  BY <1>1 DEF Among
<1>5. \A j, k \in DOMAIN new : new[j].run # NoRun /\ new[j].run = new[k].run => j = k
  BY <1>1 DEF Distinct
<1> DEFINE both == shown \o new
<1> HIDE DEF both
<1>6. SUFFICES ASSUME NEW i \in DOMAIN both, NEW j \in DOMAIN both,
                      both[i].run # NoRun, both[i].run = both[j].run
               PROVE  i = j
  BY Zenon DEF Distinct, both, new
<1>7. CASE i \in DOMAIN shown /\ both[i] = shown[i]
  <2>1. j \in DOMAIN shown /\ both[j] = shown[j]
    BY <1>3, <1>4, <1>6, <1>7 DEF both
  <2> QED BY <1>6, <1>7, <2>1 DEF Distinct
<1>8. CASE i \in Int /\ i - n \in DOMAIN new /\ both[i] = new[i - n]
  <2>1. j \in Int /\ j - n \in DOMAIN new /\ both[j] = new[j - n]
    BY <1>3, <1>4, <1>6, <1>8 DEF both
  <2>2. i - n = j - n
    BY <1>5, <1>6, <1>8, <2>1
  <2> QED BY <1>2, <1>8, <2>1, <2>2
<1> QED BY <1>3, <1>7, <1>8 DEF both

\* The thread has each run once too: without it a poll could show one twice.
OnceInv == Distinct(shown) /\ Distinct(log)

LEMMA StepOnce == TypeInv /\ OnceInv /\ [Next]_vars => OnceInv'
<1> SUFFICES ASSUME TypeInv, OnceInv, [Next]_vars PROVE OnceInv'
  OBVIOUS
<1>1. log \in Seq(Line) /\ loaded \in Nat /\ shown \in Seq(Line)
  BY DEF TypeInv, TypeOK
<1>2. Distinct(log')
  BY <1>1, LineSteps, DistinctGains DEF OnceInv
<1>3. Distinct(shown')
  BY <1>1, LineSteps, DistinctGains, DistinctReload DEF OnceInv
<1> QED BY <1>2, <1>3 DEF OnceInv, Distinct

\* A reply is displayed once, though it comes by the WebSocket, as a lifecycle
\* end and as a Res, and by the file when another process persists it
\* (tui/mod.rs:337-351, 387-394).
THEOREM RepliesShownOnce == Spec => []ReplyShownOnce
<1>1. Init => OnceInv
  BY DEF Init, OnceInv, Distinct
<1>2. OnceInv => ReplyShownOnce
  BY DEF OnceInv, Distinct, ReplyShownOnce
<1> QED BY <1>1, <1>2, InitTyped, StepTyped, StepOnce, PTL DEF Spec

-----------------------------------------------------------------------------
(* A reply that comes alone comes in order, through the connection and the *)
(* channel of events.                                                      *)

EventMark == [e \in Event |-> IF e.kind = "delta" THEN e.seq
                              ELSE IF e.kind = "done" /\ ~e.text THEN EndMark(ReplyLen) ELSE 0]
FrameMark == [f \in Frame |-> IF f.type = "delta" THEN f.seq
                              ELSE IF f.type = "end" THEN EndMark(ReplyLen) ELSE 0]

LEMMA MarkTypes == EventMark \in [Event -> Nat] /\ FrameMark \in [Frame -> Nat]
BY BoundAssumption DEF EventMark, FrameMark, Event, Frame, EndMark

\* In the channel of events, and in the connection.
Heard == Marks(EventMark, events)
OnWire == Marks(FrameMark, wire)

\* No other run was heard of yet; all that is on its way is of the run r; what
\* is accumulated and on its way makes up what was sent of it.
Lone(r) == \A q \in Run \ {r} : Silent(q)
OnlyOf(r) ==
  /\ \A i \in DOMAIN wire : wire[i].type \in {"delta", "end"} \/ wire[i].text => wire[i].run = r
  /\ \A i \in DOMAIN events : events[i].kind \in {"delta", "done"} => events[i].run = r
  /\ stream.run \in {NoRun, r}
Streaming(r) ==
  /\ Flows(ReplyLen, Heard, OnWire, Len(stream.pieces), sent[r])
  /\ stream.run = NoRun => stream.pieces = <<>>
  /\ \A k \in DOMAIN stream.pieces : stream.pieces[k] = <<r, k>>

LEMMA MarksTyped ==
  ASSUME TypeInv
  PROVE  /\ Heard \in Seq(Nat) /\ OnWire \in Seq(Nat)
         /\ \A e \in Event : events' = Append(events, e) => Heard' = Append(Heard, EventMark[e])
         /\ \A f \in Frame : wire' = Append(wire, f) => OnWire' = Append(OnWire, FrameMark[f])
         /\ events # <<>> => /\ Heard # <<>> /\ Heard[1] = EventMark[Head(events)]
                             /\ events' = Tail(events) => Heard' = Tail(Heard)
         /\ wire # <<>> => /\ OnWire # <<>> /\ OnWire[1] = FrameMark[Head(wire)]
                           /\ wire' = Tail(wire) => OnWire' = Tail(OnWire)
<1>1. events \in Seq(Event) /\ wire \in Seq(Frame)
  BY DEF TypeInv, TypeOK
<1>2. EventMark' = EventMark /\ FrameMark' = FrameMark
  BY DEF EventMark, FrameMark, Event, Frame, EndMark
<1>3. Heard' = Marks(EventMark, events') /\ OnWire' = Marks(FrameMark, wire')
  BY <1>2 DEF Heard, OnWire, Marks
<1>4. Heard = Marks(EventMark, events) /\ OnWire = Marks(FrameMark, wire)
  BY DEF Heard, OnWire
<1>5. /\ Heard \in Seq(Nat)
      /\ \A e \in Event : Marks(EventMark, Append(events, e)) = Append(Heard, EventMark[e])
      /\ events # <<>> => /\ Heard # <<>> /\ Heard[1] = EventMark[Head(events)]
                          /\ Marks(EventMark, Tail(events)) = Tail(Heard)
  BY <1>1, <1>4, MarkTypes, MarksMove
<1>6. /\ OnWire \in Seq(Nat)
      /\ \A f \in Frame : Marks(FrameMark, Append(wire, f)) = Append(OnWire, FrameMark[f])
      /\ wire # <<>> => /\ OnWire # <<>> /\ OnWire[1] = FrameMark[Head(wire)]
                        /\ Marks(FrameMark, Tail(wire)) = Tail(OnWire)
  BY <1>1, <1>4, MarkTypes, MarksMove
<1> QED BY <1>3, <1>5, <1>6

LEMMA StaysLone ==
  ASSUME TypeInv, [Next]_vars, NEW r \in Run, Lone(r)'
  PROVE  Lone(r)
<1> SUFFICES ASSUME NEW q \in Run \ {r}, Silent(q)' PROVE Silent(q)
  BY DEF Lone
<1>0. /\ sent \in [Run -> 0 .. ReplyLen] /\ ReplyLen \in Nat
      /\ res \in [Own -> {"none", "asked", "accepted", "refused", "completed"}]
  BY BoundAssumption DEF TypeInv, TypeOK
<1>1. CASE UNCHANGED <<sent, res>>
  BY <1>1 DEF Silent
<1>2. CASE GatewayNext
  <2>1. CASE Drop
    BY <1>1, <2>1 DEF Drop
  <2>2. ASSUME NEW f, PushesPiece(f) PROVE Silent(q)
    <3>1. PICK p \in Run : sent' = [sent EXCEPT ![p] = @ + 1] /\ res' = res
      BY <2>2 DEF PushesPiece
    <3>2. sent'[q] = 0
      BY DEF Silent
    <3>3. sent[q] = 0
      BY <1>0, <3>1, <3>2
    <3> QED BY <3>1, <3>3 DEF Silent
  <2>3. ASSUME NEW f, PushesRes(f) PROVE Silent(q)
    <3>1. PICK p \in Own : res[p] \in {"asked", "accepted"} /\ sent' = sent
                           /\ \E answer : res' = [res EXCEPT ![p] = answer]
      BY <2>3 DEF PushesRes
    <3>2. q \in Own /\ q # p => res'[q] = res[q]
      BY <1>0, <3>1
    <3> QED BY <3>1, <3>2 DEF Silent
  <2> QED BY <1>1, <1>2, <2>1, <2>2, <2>3, GatewayMoves DEF Pushes, PushesEnd, PushesNoise
<1>3. CASE SendQueued
  <2>1. /\ sent' = sent /\ queue # <<>>
        /\ res' = [res EXCEPT ![Head(queue)] = "asked"] \/ res' = res
    BY <1>3 DEF SendQueued
  <2>2. Head(queue) \in Own /\ res[Head(queue)] = "none"
    BY <2>1 DEF TypeInv, TypeOK, QueueOK
  <2>3. q \in Own /\ q # Head(queue) => res'[q] = res[q]
    BY <1>0, <2>1, <2>2
  <2> QED BY <2>1, <2>2, <2>3 DEF Silent
<1>4. CASE Connect \/ TakeFrame
  BY <1>1, <1>4 DEF Connect, TakeFrame, RecvDelta, RecvEnd, RecvRes, IgnoreFrame, RecvClosed,
                    Take, gatewayVars
<1>5. CASE Turn \/ Quit \/ PeerStep \/ \E p \in Own : EnterMessage(p)
  BY <1>1, <1>5
     DEF Turn, Begin, HandleStatus, HandleDelta, HandleDone, Handle, EventsDone, WakeUp, KeysDone,
         PollFile, PollTick, FileDone, Quit, Goto, PeerStep, PeerWrites, EnterMessage, gatewayVars
<1>6. CASE UNCHANGED vars
  BY <1>1, <1>6 DEF vars
<1> QED BY <1>2, <1>3, <1>4, <1>5, <1>6 DEF Next, TaskStep
\* What the gateway sends is of the one run that is heard of.
LEMMA GatewayLone ==
  ASSUME TypeInv, NEW r \in Run, Lone(r)', OnlyOf(r), GatewayNext, UNCHANGED tuiVars
  PROVE  OnlyOf(r)' /\ (Streaming(r) => Streaming(r)')
<1> USE BoundAssumption DEF tuiVars
<1>0. /\ sent \in [Run -> 0 .. ReplyLen] /\ wire \in Seq(Frame)
      /\ res \in [Own -> {"none", "asked", "accepted", "refused", "completed"}]
  BY DEF TypeInv, TypeOK
<1>1. Heard \in Seq(Nat) /\ OnWire \in Seq(Nat) /\ Heard' = Heard
  <2>1. Heard' = Heard
    BY DEF Heard, Marks, EventMark, Event, EndMark
  <2> QED BY <2>1, MarksTyped
<1>2. CASE Drop
  BY <1>2 DEF Drop, OnlyOf, Streaming, Heard, OnWire, Marks
<1>3. ASSUME NEW f, Pushes(f) PROVE OnlyOf(r)' /\ (Streaming(r) => Streaming(r)')
  <2>1. f \in Frame /\ wire' = Append(wire, f) /\ OnWire' = Append(OnWire, FrameMark[f])
    BY <1>3, PushedGood, MarksTyped DEF GoodFrame, Pushes
  <2>2. /\ f.type \in {"delta", "end"} \/ f.text => f.run = r
        /\ \/ FrameMark[f] = 0 /\ sent'[r] = sent[r]
           \/ FrameMark[f] = sent[r] + 1 /\ sent'[r] = sent[r] + 1 /\ sent[r] < ReplyLen
           \/ FrameMark[f] = EndMark(ReplyLen) /\ sent'[r] = sent[r] /\ sent[r] = ReplyLen
    <3>1. FrameMark[f] = IF f.type = "delta" THEN f.seq
                         ELSE IF f.type = "end" THEN EndMark(ReplyLen) ELSE 0
      BY <2>1 DEF FrameMark
    <3>2. CASE PushesPiece(f)
      <4>1. PICK q \in Run : /\ sent[q] < ReplyLen /\ f = DeltaFrame(q, sent[q] + 1)
                             /\ sent' = [sent EXCEPT ![q] = @ + 1]
        BY <3>2 DEF PushesPiece
      <4>2. sent'[q] # 0
        BY <1>0, <4>1
      <4>3. q = r
        BY <4>2 DEF Lone, Silent
      <4> QED BY <1>0, <3>1, <4>1, <4>3 DEF DeltaFrame
    <3>3. CASE PushesEnd(f)
      <4>1. PICK q \in Run : sent[q] = ReplyLen /\ f = EndFrame(q) /\ sent' = sent
        BY <3>3 DEF PushesEnd
      <4>2. q = r
        BY <4>1 DEF Lone, Silent
      <4> QED BY <3>1, <4>1, <4>2 DEF EndFrame
    <3>4. CASE PushesRes(f)
      <4>1. PICK q \in Own, type \in {"accepted", "refused", "completed"}, x \in BOOLEAN :
              /\ f = ResFrame(type, q, x) /\ sent' = sent
              /\ \E answer \in {"accepted", "refused", "completed"} :
                   res' = [res EXCEPT ![q] = answer] /\ (x => answer = "completed")
        BY <3>4 DEF PushesRes
      <4>2. x => res'[q] = "completed"
        BY <1>0, <4>1
      <4>3. x => q = r
        BY <4>2, RunAssumption DEF Lone, Silent
      <4> QED BY <3>1, <4>1, <4>3 DEF ResFrame
    <3>5. CASE PushesNoise(f)
      BY <3>1, <3>5 DEF PushesNoise, NoiseFrame
    <3> QED BY <1>3, <3>2, <3>3, <3>4, <3>5 DEF Pushes
  <2>3. OnlyOf(r)'
    BY <1>0, <2>1, <2>2, AllOfAppend DEF OnlyOf
  <2>4. ASSUME Streaming(r) PROVE Streaming(r)'
    <3>1. Flows(ReplyLen, Heard, OnWire, Len(stream.pieces), sent[r])
      BY <2>4 DEF Streaming
    <3>2. Flows(ReplyLen, Heard, Append(OnWire, FrameMark[f]), Len(stream.pieces), sent'[r])
      BY <1>1, <2>2, <3>1, FlowPush
    <3>3. Flows(ReplyLen, Heard, OnWire, Len(stream.pieces), sent[r])'
      BY <1>1, <2>1, <3>2 DEF Flows, Rising, Carries, Mark, Precedes, EndMark
    <3> QED BY <2>4, <3>3 DEF Streaming
  <2> QED BY <2>3, <2>4
<1> QED BY <1>2, <1>3, GatewayMoves

\* The task moves marks from the wire to the channel, or drops what is none.
LEMMA TaskLone ==
  ASSUME TypeInv, NEW r \in Run, OnlyOf(r), TaskStep
  PROVE  OnlyOf(r)' /\ (Streaming(r) => Streaming(r)')
<1> USE BoundAssumption DEF loopVars, fileVars, gatewayVars
<1>0. events \in Seq(Event) /\ wire \in Seq(Frame) /\ Len(stream.pieces) \in Nat
  BY DEF TypeInv, TypeOK
<1>1. Heard \in Seq(Nat) /\ OnWire \in Seq(Nat)
  BY MarksTyped
<1>2. stream' = stream /\ sent' = sent
  BY DEF TaskStep, TakeFrame, Connect, SendQueued, RecvDelta, RecvEnd, RecvRes, IgnoreFrame,
         RecvClosed, Take, TaskMoves
<1> DEFINE Flowing(a, b) == Flows(ReplyLen, a, b, Len(stream.pieces), sent[r])
<1>3. ASSUME Streaming(r) => Flowing(Heard', OnWire') PROVE Streaming(r) => Streaming(r)'
  BY <1>2, <1>3 DEF Streaming, Flows, Rising, Carries, Mark, Precedes, EndMark
<1>4. wire' = wire => OnWire' = OnWire
  BY DEF OnWire, Marks, FrameMark, Frame, EndMark
<1>5. events' = events => Heard' = Heard
  BY DEF Heard, Marks, EventMark, Event, EndMark
<1>6. ASSUME NEW kind \in {"connected", "down"}, wire' = wire,
             Tell(StatusEvent(kind)) \/ events' = events
      PROVE  OnlyOf(r)' /\ (Streaming(r) => Streaming(r)')
  <2> DEFINE e == StatusEvent(kind)
  <2>1. e \in Event /\ EventMark[e] = 0 /\ e.kind \notin {"delta", "done"}
    BY DEF StatusEvent, Event, EventMark
  <2>2. CASE events' = events
    BY <1>2, <1>3, <1>4, <1>5, <1>6, <2>2 DEF OnlyOf, Streaming
  <2>3. CASE Tell(e)
    <3>1. events' = Append(events, e)
      BY <2>3 DEF Tell
    <3> HIDE DEF e
    <3>2. OnlyOf(r)'
      BY <1>0, <1>2, <1>6, <2>1, <3>1, AllOfAppend DEF OnlyOf
    <3>3. Heard' = Append(Heard, 0)
      BY <2>1, <3>1, MarksTyped
    <3>4. Streaming(r) => Flowing(Heard', OnWire')
      BY <1>1, <1>4, <1>6, <3>3, FlowTell DEF Streaming
    <3> QED BY <1>3, <3>2, <3>4
  <2> QED BY <1>6, <2>2, <2>3
<1>7. ASSUME NEW type, Take(type)
      PROVE  /\ Got \in Frame /\ Got.type = type /\ OnWire # <<>> /\ OnWire[1] = FrameMark[Got]
             /\ OnWire' = Tail(OnWire) /\ GoodFrame(Got)
             /\ type \in {"delta", "end"} \/ Got.text => Got.run = r
             /\ \A i \in DOMAIN wire' :
                  wire'[i].type \in {"delta", "end"} \/ wire'[i].text => wire'[i].run = r
  <2>1. /\ wire # <<>> /\ wire' = Tail(wire) /\ Got = Head(wire) /\ Got.type = type
        /\ GoodFrame(Got)
    BY <1>7, TakenGood DEF Take, Got
  <2>2. OnWire # <<>> /\ OnWire[1] = FrameMark[Got] /\ OnWire' = Tail(OnWire)
    BY <2>1, MarksTyped
  <2>3. /\ Got = wire[1] /\ 1 \in DOMAIN wire
        /\ \A i \in DOMAIN wire' : i + 1 \in DOMAIN wire /\ wire'[i] = wire[i + 1]
    BY <1>0, <2>1, AllOfTail
  <2> QED BY <2>1, <2>2, <2>3 DEF OnlyOf, GoodFrame
<1>8. ASSUME NEW type, Take(type), NEW e \in Event, events' = Append(events, e),
             e.kind \in {"delta", "done"} => e.run = r,
             \/ EventMark[e] = FrameMark[Got]
             \/ EventMark[e] = 0 /\ FrameMark[Got] \in {0, EndMark(ReplyLen)}
      PROVE  OnlyOf(r)' /\ (Streaming(r) => Streaming(r)')
  <2>1. OnlyOf(r)'
    BY <1>0, <1>2, <1>7, <1>8, AllOfAppend DEF OnlyOf
  <2>2. /\ Heard' = Append(Heard, EventMark[e]) /\ OnWire' = Tail(OnWire)
        /\ OnWire # <<>> /\ OnWire[1] = FrameMark[Got]
    BY <1>7, <1>8, MarksTyped
  <2>3. Streaming(r) => Flowing(Heard, OnWire)
    BY DEF Streaming
  <2>4. CASE EventMark[e] = FrameMark[Got]
    BY <1>1, <1>3, <2>1, <2>2, <2>3, <2>4, FlowMove
  <2>5. CASE EventMark[e] = 0 /\ FrameMark[Got] \in {0, EndMark(ReplyLen)}
    <3>1. Streaming(r) => Flowing(Heard, Tail(OnWire))
      BY <1>1, <2>2, <2>3, <2>5, FlowDrop
    <3>2. Tail(OnWire) \in Seq(Nat)
      BY <1>1, <2>2
    <3>3. Streaming(r) => Flowing(Append(Heard, 0), Tail(OnWire))
      BY <1>1, <3>1, <3>2, FlowTell
    <3> QED BY <1>3, <2>1, <2>2, <2>5, <3>3
  <2> QED BY <1>8, <2>4, <2>5
<1>9. ASSUME NEW type, Take(type), events' = events, FrameMark[Got] = 0
      PROVE  OnlyOf(r)' /\ (Streaming(r) => Streaming(r)')
  <2>1. OnlyOf(r)'
    BY <1>2, <1>7, <1>9 DEF OnlyOf
  <2>2. Heard' = Heard /\ OnWire' = Tail(OnWire) /\ OnWire # <<>> /\ OnWire[1] = 0
    BY <1>5, <1>7, <1>9
  <2>3. Streaming(r) => Flowing(Heard', OnWire')
    BY <1>1, <2>2, FlowDrop DEF Streaming
  <2> QED BY <1>3, <2>1, <2>3
<1>10. ASSUME NEW f \in Frame
       PROVE  FrameMark[f] = IF f.type = "delta" THEN f.seq
                             ELSE IF f.type = "end" THEN EndMark(ReplyLen) ELSE 0
  BY DEF FrameMark
<1>11. ASSUME NEW e \in Event
       PROVE  EventMark[e] = IF e.kind = "delta" THEN e.seq
                             ELSE IF e.kind = "done" /\ ~e.text THEN EndMark(ReplyLen) ELSE 0
  BY DEF EventMark
<1>12. CASE Connect \/ SendQueued \/ RecvClosed
  BY <1>6, <1>12 DEF Connect, SendQueued, RecvClosed
<1>13. CASE RecvDelta
  <2> DEFINE e == DeltaEvent(Got.run, Got.seq)
  <2>1. Take("delta") /\ events' = Append(events, e)
    BY <1>13 DEF RecvDelta, Tell
  <2>2. e \in Event
    BY <2>1, TakenGood DEF GoodEvent
  <2>3. EventMark[e] = FrameMark[Got] /\ e.run = r
    BY <1>7, <1>10, <1>11, <2>1, <2>2 DEF DeltaEvent
  <2> HIDE DEF e
  <2> QED BY <1>8, <2>1, <2>2, <2>3
<1>14. CASE RecvEnd
  <2> DEFINE e == DoneEvent(Got.run, Got.text)
  <2>1. Take("end") /\ events' = Append(events, e)
    BY <1>14 DEF RecvEnd, Tell
  <2>2. e \in Event
    BY <2>1, TakenGood DEF GoodEvent
  <2>3. FrameMark[Got] = EndMark(ReplyLen) /\ EventMark[e] \in {0, EndMark(ReplyLen)} /\ e.run = r
    BY <1>7, <1>10, <1>11, <2>1, <2>2 DEF DoneEvent
  <2> HIDE DEF e
  <2> QED BY <1>8, <2>1, <2>2, <2>3
<1>15. CASE RecvRes
  <2> DEFINE e == DoneEvent(Got.run, TRUE)
  <2>1. PICK type \in {"accepted", "completed"} : Take(type)
    BY <1>15 DEF RecvRes
  <2>2. FrameMark[Got] = 0
    BY <1>7, <1>10, <2>1
  <2>3. CASE Got.text
    <3>1. events' = Append(events, e)
      BY <1>15, <2>3 DEF RecvRes, Tell
    <3>2. e \in Event
      <4>1. Got.text = TRUE
        BY <1>7, <2>1, <2>3 DEF Frame
      <4> QED BY <2>1, <2>3, <4>1, TakenGood DEF GoodEvent
    <3>3. EventMark[e] = 0 /\ e.run = r
      BY <1>7, <1>11, <2>1, <2>3, <3>2 DEF DoneEvent
    <3> HIDE DEF e
    <3> QED BY <1>8, <2>1, <2>2, <3>1, <3>2, <3>3
  <2>4. CASE ~Got.text
    <3>1. events' = events
      BY <1>15, <2>4 DEF RecvRes
    <3> QED BY <1>9, <2>1, <2>2, <3>1
  <2> QED BY <2>3, <2>4
<1>16. CASE IgnoreFrame
  <2>1. PICK type \in {"refused", "noise"} : Take(type)
    BY <1>16 DEF IgnoreFrame
  <2>2. FrameMark[Got] = 0 /\ events' = events
    BY <1>7, <1>10, <1>16, <2>1 DEF IgnoreFrame
  <2> QED BY <1>9, <2>1, <2>2
<1> QED BY <1>12, <1>13, <1>14, <1>15, <1>16 DEF TaskStep, TakeFrame
\* The next event of the loop: nothing of the run, its next piece, or its end.
LEMMA NextEvent ==
  ASSUME TypeInv, NEW r \in Run, OnlyOf(r), NEW kind, Handle(kind)
  PROVE  /\ events \in Seq(Event) /\ events # <<>> /\ Head(events) \in Event
         /\ Heard \in Seq(Nat) /\ OnWire \in Seq(Nat) /\ Heard # <<>>
         /\ Heard' = Tail(Heard) /\ OnWire' = OnWire /\ sent' = sent
         /\ Heard[1] = EventMark[Head(events)]
         /\ kind \in {"delta", "done"} => Head(events).run = r
         /\ \A i \in DOMAIN events' :
              events'[i].kind \in {"delta", "done"} => events'[i].run = r
         /\ wire' = wire
<1>1. /\ events \in Seq(Event) /\ events # <<>> /\ events' = Tail(events)
      /\ GoodEvent(Head(events)) /\ Head(events).kind = kind
  BY HandledGood
<1>2. wire' = wire /\ sent' = sent
  BY DEF Handle, gatewayVars
<1>3. /\ Head(events) = events[1] /\ 1 \in DOMAIN events
      /\ \A i \in DOMAIN events' : i + 1 \in DOMAIN events /\ events'[i] = events[i + 1]
  BY <1>1, AllOfTail
<1>4. /\ Heard \in Seq(Nat) /\ OnWire \in Seq(Nat) /\ Heard # <<>>
      /\ Heard' = Tail(Heard) /\ Heard[1] = EventMark[Head(events)]
  BY <1>1, MarksTyped
<1>5. OnWire' = OnWire
  BY <1>2 DEF OnWire, Marks, FrameMark, Frame, EndMark
<1>6. /\ Head(events) \in Event
      /\ kind \in {"delta", "done"} => Head(events).run = r
      /\ \A i \in DOMAIN events' :
           events'[i].kind \in {"delta", "done"} => events'[i].run = r
  BY <1>1, <1>3 DEF OnlyOf, GoodEvent
<1> QED BY <1>1, <1>2, <1>4, <1>5, <1>6

LEMMA TurnLone ==
  ASSUME TypeInv, NEW r \in Run, OnlyOf(r), Turn \/ Quit
  PROVE  /\ OnlyOf(r)'
         /\ ~Among(shown', r) /\ Streaming(r) => Streaming(r)'
<1> USE BoundAssumption DEF loopVars, fileVars, gatewayVars
<1>0. /\ stream \in [run : Run \cup {NoRun}, pieces : Seq(Piece)] /\ shown \in Seq(Line)
      /\ NoRun \notin Run
  BY RunAssumption DEF TypeInv, TypeOK
<1>1. ASSUME UNCHANGED <<wire, events, sent, stream>>
      PROVE  OnlyOf(r)' /\ (Streaming(r) => Streaming(r)')
  <2>1. Heard' = Heard /\ OnWire' = OnWire
    BY <1>1 DEF Heard, OnWire, Marks, EventMark, FrameMark, Event, Frame, EndMark
  <2> QED BY <1>1, <2>1 DEF OnlyOf, Streaming, Flows, Rising, Carries, Mark, Precedes, EndMark
<1>2. CASE Begin \/ EventsDone \/ WakeUp \/ KeysDone \/ FileDone \/ Quit \/ PollFile \/ PollTick
  <2>1. UNCHANGED <<wire, events, sent, stream>>
    BY <1>2 DEF Begin, EventsDone, WakeUp, KeysDone, FileDone, Quit, Goto, PollFile, PollTick
  <2> QED BY <1>1, <2>1
<1>3. CASE HandleStatus
  <2>1. PICK kind \in {"connected", "down"} : Handle(kind)
    BY <1>3 DEF HandleStatus
  <2>2. stream' = stream
    BY <1>3 DEF HandleStatus
  <2>3. Heard[1] = 0
    BY <2>1, NextEvent, HandledGood DEF EventMark
  <2>4. OnlyOf(r)'
    BY <2>1, <2>2, NextEvent DEF OnlyOf
  <2>5. ASSUME Streaming(r) PROVE Streaming(r)'
    <3>1. Flows(ReplyLen, Tail(Heard), OnWire, Len(stream.pieces), sent[r])
      BY <2>1, <2>3, <2>5, NextEvent, FlowTake DEF Streaming
    <3>2. Flows(ReplyLen, Heard', OnWire', Len(stream'.pieces), sent'[r])
      BY <2>1, <2>2, <3>1, NextEvent
    <3>3. Flows(ReplyLen, Heard, OnWire, Len(stream.pieces), sent[r])'
      BY <3>2 DEF Flows, Rising, Carries, Mark, Precedes, EndMark
    <3> QED BY <2>2, <2>5, <3>3 DEF Streaming
  <2> QED BY <2>4, <2>5
<1>4. CASE HandleDelta
  <2> DEFINE e    == Head(events)
             kept == IF stream.run = e.run THEN stream.pieces ELSE <<>>
  <2>1. Handle("delta") /\ stream' = [run |-> e.run, pieces |-> Append(kept, <<e.run, e.seq>>)]
    BY <1>4 DEF HandleDelta
  <2>2. e.run = r /\ e.seq \in 1 .. ReplyLen /\ Heard[1] = e.seq
    BY <2>1, NextEvent, HandledGood DEF EventMark, GoodEvent
  <2>3. OnlyOf(r)'
    BY <2>1, <2>2, NextEvent DEF OnlyOf
  <2>4. ASSUME Streaming(r) PROVE Streaming(r)'
    <3> DEFINE n == Len(stream.pieces)
               p == stream.pieces
    <3>1. p \in Seq(Piece) /\ kept = p /\ n \in Nat
      BY <1>0, <2>2, <2>4 DEF Streaming, OnlyOf
    <3>2. Flows(ReplyLen, Heard, OnWire, n, sent[r])
      BY <2>4 DEF Streaming
    <3> HIDE DEF n
    <3>3. e.seq = n + 1 /\ Flows(ReplyLen, Tail(Heard), OnWire, n + 1, sent[r])
      BY <2>1, <2>2, <3>2, NextEvent, FlowTake
    <3>4. stream' = [run |-> r, pieces |-> Append(p, <<r, n + 1>>)]
      BY <2>1, <2>2, <3>1, <3>3
    <3>5. <<r, n + 1>> \in Piece
      BY <2>2, <3>3 DEF Piece
    <3>6. /\ stream'.pieces \in Seq(Piece) /\ Len(stream'.pieces) = n + 1 /\ stream'.run = r
          /\ \A k \in DOMAIN stream'.pieces :
               \/ k \in DOMAIN p /\ stream'.pieces[k] = p[k]
               \/ k = n + 1 /\ stream'.pieces[k] = <<r, n + 1>>
      BY <3>1, <3>4, <3>5, AllOfAppend DEF n
    <3>7. Flows(ReplyLen, Heard, OnWire, Len(stream.pieces), sent[r])'
      <4>1. Flows(ReplyLen, Heard', OnWire', Len(stream'.pieces), sent'[r])
        BY <2>1, <3>3, <3>6, NextEvent
      <4> QED BY <4>1 DEF Flows, Rising, Carries, Mark, Precedes, EndMark
    <3>8. \A k \in DOMAIN stream'.pieces : stream'.pieces[k] = <<r, k>>
      BY <2>4, <3>6 DEF Streaming
    <3> QED BY <1>0, <3>6, <3>7, <3>8 DEF Streaming
  <2> QED BY <2>3, <2>4
<1>5. CASE HandleDone
  <2>1. Handle("done") /\ stream' = NoStream
    BY <1>5 DEF HandleDone
  <2>2. Head(events).run = r
    BY <2>1, NextEvent
  <2>3. OnlyOf(r)'
    BY <2>1, NextEvent DEF OnlyOf, NoStream
  <2>4. Among(shown', r)
    <3>1. CASE Among(shown, r)
      BY <1>5, <2>2, <3>1 DEF HandleDone
    <3>2. CASE ~Among(shown, r)
      <4> DEFINE line == AgentLine(r, TurnText(Head(events)))
      <4>1. shown' = Append(shown, line) /\ line.run = r
        BY <1>5, <2>2, <3>2 DEF HandleDone, AgentLine
      <4> HIDE DEF line
      <4>2. Len(shown) + 1 \in DOMAIN shown' /\ shown'[Len(shown) + 1].run = r
        BY <1>0, <4>1
      <4> QED BY <4>2 DEF Among
    <3> QED BY <3>1, <3>2
  <2> QED BY <2>3, <2>4
<1> QED BY <1>2, <1>3, <1>4, <1>5 DEF Turn

\* What TurnComplete makes of the stream of a reply that comes alone.
LEMMA CompletedWhole ==
  ASSUME TypeInv, NEW r \in Run, OnlyOf(r), Streaming(r), HandleDone
  PROVE  CompletedLine.run = r => CompletedLine.text = Whole(r)
<1> USE BoundAssumption
<1> DEFINE e == Head(events)
<1>1. Handle("done")
  BY DEF HandleDone
<1>2. e.run = r /\ e \in Event /\ e.kind = "done"
  BY <1>1, NextEvent, HandledGood
<1>3. CompletedLine.text = IF e.text THEN Whole(r) ELSE stream.pieces
  BY <1>2 DEF CompletedLine, AgentLine, TurnText
<1>4. CASE ~e.text
  <2>1. Heard[1] = EndMark(ReplyLen)
    BY <1>1, <1>2, <1>4, NextEvent DEF EventMark
  <2>2. Flows(ReplyLen, Heard, OnWire, Len(stream.pieces), sent[r])
    BY DEF Streaming
  <2>3. Len(stream.pieces) = ReplyLen
    BY <1>1, <2>1, <2>2, NextEvent, FlowTake
  <2>4. stream.pieces \in Seq(Piece) /\ Whole(r) = [k \in 1 .. ReplyLen |-> <<r, k>>]
    BY DEF TypeInv, TypeOK, Whole
  <2>5. \A k \in DOMAIN stream.pieces : stream.pieces[k] = <<r, k>>
    BY DEF Streaming
  <2>6. stream.pieces = Whole(r)
    <3>1. stream.pieces = [k \in 1 .. ReplyLen |-> stream.pieces[k]]
      BY <2>3, <2>4
    <3>2. DOMAIN stream.pieces = 1 .. ReplyLen
      BY <2>3, <2>4
    <3> QED BY <2>4, <2>5, <3>1, <3>2
  <2> QED BY <1>3, <1>4, <2>6
<1> QED BY <1>3, <1>4

\* Inductive: LoneReplyWhole, and for a reply that is not displayed yet, that
\* it is accumulated or on its way.
AllWhole(lines, r) ==
  \A i \in DOMAIN lines : MadeHere(lines[i], r) => lines[i].text = Whole(r)
LoneInv ==
  \A r \in Run : Lone(r) => /\ OnlyOf(r) /\ (~Among(shown, r) => Streaming(r))
                            /\ AllWhole(shown, r) /\ AllWhole(log, r)

LEMMA GainsWhole ==
  ASSUME TypeInv, NEW r \in Run, OnlyOf(r), ~Among(shown, r) => Streaming(r),
         NEW lines \in Seq(Line), AllWhole(lines, r), NEW new, Gains(lines, new)
  PROVE  AllWhole(new, r)
<1>1. PICK line \in Line : MadeLine(line) /\ new = Append(lines, line)
  BY DEF Gains
<1>2. MadeHere(line, r) => line.text = Whole(r)
  <2>1. CASE line.run = NoRun
    BY <2>1, RunAssumption DEF MadeHere
  <2>2. CASE line.who = "peer"
    BY <2>2 DEF MadeHere
  <2>3. CASE HandleDone /\ ~Among(shown, Head(events).run) /\ line = CompletedLine
    <3>1. CompletedLine.run = Head(events).run
      BY DEF CompletedLine, AgentLine
    <3> QED BY <2>3, <3>1, CompletedWhole DEF MadeHere
  <2> QED BY <1>1, <2>1, <2>2, <2>3 DEF MadeLine
<1> QED BY <1>1, <1>2, AllOfAppend DEF AllWhole

LEMMA ReloadWhole ==
  ASSUME TypeInv, NEW r, AllWhole(shown, r), AllWhole(log, r)
  PROVE  AllWhole(shown \o NewLines, r)
<1>1. shown \in Seq(Line) /\ log \in Seq(Line) /\ loaded \in Nat
  BY DEF TypeInv, TypeOK
<1>2. PICK at \in [DOMAIN NewLines -> DOMAIN log] :
        \A k \in DOMAIN NewLines : NewLines[k] = log[at[k]]
  BY <1>1, NewLinesAre
<1>3. AllWhole(NewLines, r)
  BY <1>2 DEF AllWhole
<1>4. NewLines \in Seq(Line)
  BY <1>1, NewLinesAre
<1>5. \A i \in DOMAIN (shown \o NewLines) :
        \/ i \in DOMAIN shown /\ (shown \o NewLines)[i] = shown[i]
        \/ \E k \in DOMAIN NewLines : (shown \o NewLines)[i] = NewLines[k]
  <2> DEFINE new == NewLines
             n   == Len(shown)
  <2> HIDE DEF new
  <2> SUFFICES \A i \in DOMAIN (shown \o new) :
                 \/ i \in DOMAIN shown /\ (shown \o new)[i] = shown[i]
                 \/ i - n \in DOMAIN new /\ (shown \o new)[i] = new[i - n]
    BY DEF new
  <2> QED BY <1>1, <1>4 DEF new
<1> QED BY <1>3, <1>5 DEF AllWhole

LEMMA StepLone == TypeInv /\ LoneInv /\ [Next]_vars => LoneInv'
<1> SUFFICES ASSUME TypeInv, LoneInv, [Next]_vars, NEW r \in Run, Lone(r)'
             PROVE  /\ OnlyOf(r)' /\ (~Among(shown', r) => Streaming(r)')
                    /\ AllWhole(shown', r) /\ AllWhole(log', r)
  BY DEF LoneInv, AllWhole, Among, Whole, MadeHere
<1>1. /\ OnlyOf(r) /\ (~Among(shown, r) => Streaming(r))
      /\ AllWhole(shown, r) /\ AllWhole(log, r)
  BY StaysLone DEF LoneInv
<1>2. shown \in Seq(Line) /\ log \in Seq(Line) /\ loaded \in Nat
  BY DEF TypeInv, TypeOK
<1>3. AllWhole(log', r)
  BY <1>1, <1>2, LineSteps, GainsWhole
<1>4. AllWhole(shown', r)
  BY <1>1, <1>2, LineSteps, GainsWhole, ReloadWhole
<1>5. Among(shown, r) => Among(shown', r)
  <2>1. ASSUME NEW i \in DOMAIN shown PROVE i \in DOMAIN shown' /\ shown'[i] = shown[i]
    <3>1. CASE Gains(shown, shown')
      BY <1>2, <3>1 DEF Gains
    <3>2. CASE shown' = shown \o NewLines
      <4>1. NewLines \in Seq(Line)
        BY <1>2, NewLinesAre
      <4> QED BY <1>2, <3>2, <4>1
    <3> QED BY <3>1, <3>2, LineSteps
  <2> QED BY <2>1 DEF Among
<1>6. OnlyOf(r)' /\ (~Among(shown', r) /\ Streaming(r) => Streaming(r)')
  <2>1. ASSUME UNCHANGED <<wire, events, sent, stream>>
        PROVE  OnlyOf(r)' /\ (Streaming(r) => Streaming(r)')
    <3>1. Heard' = Heard /\ OnWire' = OnWire
      BY <2>1 DEF Heard, OnWire, Marks, EventMark, FrameMark, Event, Frame, EndMark
    <3> QED BY <1>1, <2>1, <3>1
            DEF OnlyOf, Streaming, Flows, Rising, Carries, Mark, Precedes, EndMark
  <2>2. CASE PeerStep \/ (\E q \in Own : EnterMessage(q)) \/ UNCHANGED vars
    BY <2>1, <2>2 DEF PeerStep, PeerWrites, EnterMessage, vars, gatewayVars, loopVars
  <2>3. CASE Turn \/ Quit
    BY <1>1, <2>3, TurnLone
  <2>4. CASE TaskStep
    BY <1>1, <2>4, TaskLone
  <2>5. CASE GatewayNext /\ UNCHANGED tuiVars
    BY <1>1, <2>5, GatewayLone
  <2> QED BY <2>2, <2>3, <2>4, <2>5 DEF Next
<1> QED BY <1>1, <1>3, <1>4, <1>5, <1>6

LEMMA InitLone == Init => LoneInv
<1> SUFFICES ASSUME Init, NEW r \in Run
             PROVE  /\ OnlyOf(r) /\ Streaming(r) /\ AllWhole(shown, r) /\ AllWhole(log, r)
  BY DEF LoneInv
<1>1. /\ wire = <<>> /\ events = <<>> /\ shown = <<>> /\ log = <<>> /\ stream = NoStream
      /\ sent[r] = 0
  BY DEF Init, GatewayInit
<1>2. DOMAIN Heard = {} /\ DOMAIN OnWire = {} /\ stream.pieces = <<>> /\ stream.run = NoRun
      /\ Len(stream.pieces) = 0
  BY <1>1 DEF Heard, OnWire, Marks, NoStream
<1>3. Flows(ReplyLen, Heard, OnWire, Len(stream.pieces), sent[r])
  <2>1. 0 + 1 .. 0 = {} /\ 0 \in 0 .. ReplyLen
    BY BoundAssumption
  <2> QED BY <1>1, <1>2, <2>1 DEF Flows, Rising
<1> QED BY <1>1, <1>2, <1>3 DEF OnlyOf, Streaming, AllWhole

\* What the viewer makes of a reply that no frame of another run came between,
\* and displays or persists, is the whole reply, in whatever order the end and
\* the two Res frames come and whatever another process did to the file.  It
\* does not say that the reply is displayed whole: a line another process put on
\* file first, such as an MCP server's single piece, takes its place
\* (ws_task.rs:177-230, tui/mod.rs:341-352, 371-427).
THEOREM LoneRepliesWhole == Spec => []LoneReplyWhole
<1>1. LoneInv => LoneReplyWhole
  BY DEF LoneInv, Lone, AllWhole, LoneReplyWhole
<1> QED BY <1>1, InitTyped, StepTyped, InitLone, StepLone, PTL DEF Spec
=============================================================================
