--------------------------- MODULE AgentChatProofs ---------------------------
(***************************************************************************)
(* With a gateway that broadcasts nothing foreign before it accepts the    *)
(* request, the reply of AgentChat is free of other clients' runs, is      *)
(* whole, and is what was shown, for any number of runs, reply length and  *)
(* limits.                                                                 *)
(***************************************************************************)
EXTENDS AgentChat, ListProofs

\* What is in flight: events of a run follow the acceptance, which is either
\* still ahead of them in the wire or has been taken.
Announced(i) == \E j \in DOMAIN wire : j < i /\ wire[j].type = "accepted"

WireInv ==
  /\ res[Mine] \in {"none", "asked", "refused"} =>
       \A i \in DOMAIN wire : wire[i].type \in {"noise", "refused"}
  /\ res[Mine] \in {"accepted", "completed"} =>
       accepted \/ \E j \in DOMAIN wire : wire[j].type = "accepted"
  /\ \A i \in DOMAIN wire :
       /\ wire[i].type \in {"delta", "end"} => accepted \/ Announced(i)
       /\ wire[i].type \in {"accepted", "completed"} => wire[i].run = Mine
       /\ wire[i].type = "delta" => wire[i].seq \in 1 .. ReplyLen

ClientInv == /\ runId = IF accepted THEN Mine ELSE NoRun
             /\ state = "init" => res[Mine] = "none"

IInv == TypeOK /\ WireInv /\ ClientInv /\ OnlyOwnRun

LEMMA Constants ==
  /\ Mine \in Own /\ Mine \in Run /\ Mine # NoRun /\ \A r \in Own : r = Mine
  /\ ReplyLen \in Nat /\ MaxEvents \in Nat
  /\ NoText \in [run : Run \cup {NoRun}, upto : Nat]
BY MineAssumption, RunAssumption, BoundAssumption, LimitAssumption DEF NoText

LEMMA InitInv == Init => IInv
<1> SUFFICES ASSUME Init PROVE IInv
  OBVIOUS
<1>1. TypeOK
  <2>1. wire = <<>> /\ shown = <<>> /\ finalText = NoText
    BY DEF Init, GatewayInit
  <2>2. wire \in Seq(Frame) /\ shown \in Seq(Run \X Nat)
    BY <2>1
  <2>3. finalText \in [run : Run \cup {NoRun}, upto : Nat]
    BY <2>1, Constants
  <2>4. sent \in [Run -> 0 .. ReplyLen] /\ noise \in Nat /\ count \in 0 .. MaxEvents
    BY Constants DEF Init, GatewayInit
  <2>5. deltas \in [1 .. ReplyLen -> Run \cup {NoRun}] /\ runId \in Run \cup {NoRun}
    BY DEF Init
  <2>6. /\ res \in [Own -> {"none", "asked", "accepted", "refused", "completed"}]
        /\ open \in BOOLEAN /\ cumulative \in BOOLEAN /\ ended \in SUBSET Run
    BY DEF Init, GatewayInit
  <2>7. /\ state = "init" /\ cause = "none"
        /\ accepted \in BOOLEAN /\ completed \in BOOLEAN
    BY DEF Init
  <2> QED BY <2>2, <2>3, <2>4, <2>5, <2>6, <2>7 DEF TypeOK
<1>2. WireInv
  <2>1. wire = <<>> /\ res[Mine] = "none"
    BY Constants DEF Init, GatewayInit
  <2> QED BY <2>1 DEF WireInv
<1>3. ClientInv /\ OnlyOwnRun
  BY Constants DEF Init, GatewayInit, ClientInv, OnlyOwnRun, NoText
<1> QED BY <1>1, <1>2, <1>3 DEF IInv

\* The frames the gateway sends.
LEMMA FrameTypes ==
  ASSUME TypeOK
  PROVE  /\ \A r \in Run, x \in BOOLEAN, type \in {"accepted", "refused", "completed"} :
              ResFrame(type, r, x) \in Frame
         /\ \A r \in Run, k \in Nat : DeltaFrame(r, k) \in Frame
         /\ \A r \in Run : EndFrame(r) \in Frame
         /\ NoiseFrame \in Frame
BY DEF TypeOK, ResFrame, DeltaFrame, EndFrame, NoiseFrame, Frame

\* A pushed frame keeps what is in flight in order.
LEMMA PushKeeps ==
  ASSUME IInv, NEW f \in Frame, Push(f), UNCHANGED clientVars,
         res'[Mine] \in {"none", "asked", "refused"} =>
           f.type \in {"noise", "refused"} /\ res[Mine] \in {"none", "asked", "refused"},
         res'[Mine] \in {"accepted", "completed"} =>
           f.type = "accepted" \/ res[Mine] \in {"accepted", "completed"},
         f.type \in {"delta", "end"} => res[Mine] \in {"accepted", "completed"},
         f.type \in {"accepted", "completed"} => f.run = Mine,
         f.type = "delta" => f.seq \in 1 .. ReplyLen
  PROVE  wire' \in Seq(Frame) /\ WireInv'
<1>1. /\ wire \in Seq(Frame) /\ wire' = Append(wire, f)
      /\ accepted' = accepted
  BY DEF Push, IInv, TypeOK, clientVars
<1>2. /\ wire' \in Seq(Frame) /\ Len(wire) \in Nat /\ Len(wire') = Len(wire) + 1
      /\ DOMAIN wire = 1 .. Len(wire) /\ DOMAIN wire' = 1 .. (Len(wire) + 1)
      /\ \A i \in DOMAIN wire : i \in DOMAIN wire' /\ wire'[i] = wire[i]
      /\ wire'[Len(wire) + 1] = f
      /\ \A i \in DOMAIN wire' : i \in DOMAIN wire \/ i = Len(wire) + 1
  BY <1>1
<1>3. \A i \in DOMAIN wire : Announced(i) => Announced(i)'
  BY <1>2 DEF Announced
<1>4. ASSUME NEW i, i = Len(wire) + 1, \E j \in DOMAIN wire : wire[j].type = "accepted"
      PROVE  Announced(i)'
  BY <1>2, <1>4 DEF Announced
<1>5. res'[Mine] \in {"none", "asked", "refused"} =>
        \A i \in DOMAIN wire' : wire'[i].type \in {"noise", "refused"}
  BY <1>2 DEF IInv, WireInv
<1>6. res'[Mine] \in {"accepted", "completed"} =>
        accepted' \/ \E j \in DOMAIN wire' : wire'[j].type = "accepted"
  BY <1>1, <1>2 DEF IInv, WireInv
<1>7. ASSUME NEW i \in DOMAIN wire', wire'[i].type \in {"delta", "end"}
      PROVE  accepted' \/ Announced(i)'
  <2>1. CASE i \in DOMAIN wire
    BY <1>1, <1>2, <1>3, <1>7, <2>1 DEF IInv, WireInv
  <2>2. CASE i = Len(wire) + 1
    <3>1. accepted \/ \E j \in DOMAIN wire : wire[j].type = "accepted"
      BY <1>2, <1>7, <2>2 DEF IInv, WireInv
    <3> QED BY <1>1, <1>4, <2>2, <3>1
  <2> QED BY <1>2, <2>1, <2>2
<1>8. \A i \in DOMAIN wire' :
        /\ wire'[i].type \in {"accepted", "completed"} => wire'[i].run = Mine
        /\ wire'[i].type = "delta" => wire'[i].seq \in 1 .. ReplyLen
  BY <1>2 DEF IInv, WireInv
<1> QED BY <1>2, <1>5, <1>6, <1>7, <1>8 DEF WireInv

LEMMA GatewayKeeps ==
  ASSUME QuietStart = TRUE, IInv, GatewayNext, UNCHANGED clientVars
  PROVE  IInv'
<1> USE Constants
<1>0. ClientInv' /\ OnlyOwnRun'
  <2>1. res[Mine] = "none" => res' = res
    BY DEF GatewayNext, Accept, AcceptWithText, Refuse, Complete, Emit, End, Noise, Drop
  <2> QED BY <2>1 DEF IInv, ClientInv, OnlyOwnRun, clientVars
<1>1. ASSUME NEW r \in Own, Accept(r) PROVE TypeOK' /\ WireInv'
  <2>1. ResFrame("accepted", r, FALSE) \in Frame
    BY FrameTypes DEF IInv
  <2>2. wire' \in Seq(Frame) /\ WireInv'
    BY <1>1, <2>1, PushKeeps DEF Accept, ResFrame, IInv, TypeOK
  <2> QED BY <1>1, <2>2 DEF Accept, IInv, TypeOK, clientVars
<1>2. ASSUME NEW r \in Own, AcceptWithText(r) PROVE TypeOK' /\ WireInv'
  <2>1. ResFrame("accepted", r, TRUE) \in Frame
    BY FrameTypes DEF IInv
  <2>2. wire' \in Seq(Frame) /\ WireInv'
    BY <1>2, <2>1, PushKeeps DEF AcceptWithText, ResFrame, IInv, TypeOK
  <2> QED BY <1>2, <2>2 DEF AcceptWithText, IInv, TypeOK, clientVars
<1>3. ASSUME NEW r \in Own, Refuse(r) PROVE TypeOK' /\ WireInv'
  <2>1. ResFrame("refused", r, FALSE) \in Frame
    BY FrameTypes DEF IInv
  <2>2. wire' \in Seq(Frame) /\ WireInv'
    BY <1>3, <2>1, PushKeeps DEF Refuse, ResFrame, IInv, TypeOK
  <2> QED BY <1>3, <2>2 DEF Refuse, IInv, TypeOK, clientVars
<1>4. ASSUME NEW r \in Own, NEW text \in BOOLEAN, Complete(r, text)
      PROVE  TypeOK' /\ WireInv'
  <2>1. ResFrame("completed", r, text) \in Frame
    BY FrameTypes DEF IInv
  <2>2. wire' \in Seq(Frame) /\ WireInv'
    BY <1>4, <2>1, PushKeeps DEF Complete, ResFrame, IInv, TypeOK
  <2> QED BY <1>4, <2>2 DEF Complete, IInv, TypeOK, clientVars
<1>5. ASSUME NEW r \in Run, Streams(r) PROVE res[Mine] \in {"accepted", "completed"}
  BY <1>5 DEF Streams
<1>6. ASSUME NEW r \in Run, Emit(r) PROVE TypeOK' /\ WireInv'
  <2>1. sent[r] + 1 \in 1 .. ReplyLen
    BY <1>6 DEF Emit, IInv, TypeOK
  <2>2. DeltaFrame(r, sent[r] + 1) \in Frame
    BY <2>1, FrameTypes DEF IInv
  <2>3. wire' \in Seq(Frame) /\ WireInv'
    BY <1>5, <1>6, <2>1, <2>2, PushKeeps DEF Emit, DeltaFrame
  <2>4. sent' \in [Run -> 0 .. ReplyLen]
    BY <1>6, <2>1 DEF Emit, IInv, TypeOK
  <2> QED BY <1>6, <2>3, <2>4 DEF Emit, IInv, TypeOK, clientVars
<1>7. ASSUME NEW r \in Run, End(r) PROVE TypeOK' /\ WireInv'
  <2>1. EndFrame(r) \in Frame
    BY FrameTypes DEF IInv
  <2>2. wire' \in Seq(Frame) /\ WireInv'
    BY <1>5, <1>7, <2>1, PushKeeps DEF End, EndFrame
  <2> QED BY <1>7, <2>2 DEF End, IInv, TypeOK, clientVars
<1>8. ASSUME Noise PROVE TypeOK' /\ WireInv'
  <2>1. NoiseFrame \in Frame
    BY FrameTypes DEF IInv
  <2>2. wire' \in Seq(Frame) /\ WireInv'
    BY <1>8, <2>1, PushKeeps DEF Noise, NoiseFrame
  <2> QED BY <1>8, <2>2 DEF Noise, IInv, TypeOK, clientVars
<1>9. ASSUME Drop PROVE TypeOK' /\ WireInv'
  <2>1. wire' = wire /\ res' = res /\ accepted' = accepted
    BY <1>9 DEF Drop, clientVars
  <2>2. WireInv'
    BY <2>1 DEF IInv, WireInv, Announced
  <2> QED BY <1>9, <2>2 DEF Drop, IInv, TypeOK, clientVars
<1>10. TypeOK' /\ WireInv'
  BY <1>1, <1>2, <1>3, <1>4, <1>6, <1>7, <1>8, <1>9 DEF GatewayNext
<1> QED BY <1>0, <1>10 DEF IInv

\* Taking the head of the wire keeps the rest in order.
LEMMA TakeKeeps ==
  ASSUME IInv, NEW type, Take(type), accepted' <=> accepted \/ type = "accepted"
  PROVE  /\ wire' \in Seq(Frame) /\ WireInv' /\ Got \in Frame /\ Got.type = type
         /\ type \in {"accepted", "completed"} => Got.run = Mine
         /\ type \in {"delta", "end"} => accepted
         /\ type = "delta" => Got.seq \in 1 .. ReplyLen
<1>1. /\ wire \in Seq(Frame) /\ wire # <<>> /\ wire' = Tail(wire)
      /\ Got = wire[1] /\ Got.type = type /\ res' = res
  BY DEF Take, Got, IInv, TypeOK
<1>2. /\ wire' \in Seq(Frame) /\ Got \in Frame /\ 1 \in DOMAIN wire
      /\ DOMAIN wire = 1 .. Len(wire) /\ Len(wire) \in Nat
      /\ \A i \in DOMAIN wire' : i + 1 \in DOMAIN wire /\ wire'[i] = wire[i + 1]
      /\ \A i \in DOMAIN wire : i = 1 \/ (i - 1 \in DOMAIN wire' /\ wire'[i - 1] = wire[i])
      /\ \A i \in DOMAIN wire : i \in Nat /\ i >= 1
      /\ \A i \in DOMAIN wire' : i \in Nat /\ i >= 1
  BY <1>1
<1>3. \A i \in DOMAIN wire' : Announced(i + 1) => type = "accepted" \/ Announced(i)'
  <2> SUFFICES ASSUME NEW i \in DOMAIN wire', Announced(i + 1)
               PROVE  type = "accepted" \/ Announced(i)'
    OBVIOUS
  <2>1. PICK j \in DOMAIN wire : j < i + 1 /\ wire[j].type = "accepted"
    BY DEF Announced
  <2>2. CASE j = 1
    BY <1>1, <2>1, <2>2
  <2>3. CASE j # 1
    <3>1. j - 1 \in DOMAIN wire' /\ wire'[j - 1].type = "accepted" /\ j - 1 < i
      BY <1>2, <2>1, <2>3
    <3> QED BY <3>1 DEF Announced
  <2> QED BY <2>2, <2>3
<1>4. type = "accepted" => accepted'
  OBVIOUS
<1>5. type \in {"delta", "end"} => accepted
  BY <1>1, <1>2 DEF IInv, WireInv, Announced
<1>6. res[Mine] \in {"none", "asked", "refused"} =>
        \A i \in DOMAIN wire' : wire'[i].type \in {"noise", "refused"}
  BY <1>2 DEF IInv, WireInv
<1>7. res[Mine] \in {"accepted", "completed"} =>
        accepted' \/ \E j \in DOMAIN wire' : wire'[j].type = "accepted"
  BY <1>1, <1>2, <1>4 DEF IInv, WireInv
<1>8. \A i \in DOMAIN wire' :
        /\ wire'[i].type \in {"delta", "end"} => accepted' \/ Announced(i)'
        /\ wire'[i].type \in {"accepted", "completed"} => wire'[i].run = Mine
        /\ wire'[i].type = "delta" => wire'[i].seq \in 1 .. ReplyLen
  BY <1>2, <1>3, <1>4 DEF IInv, WireInv
<1>9. WireInv'
  BY <1>1, <1>6, <1>7, <1>8 DEF WireInv
<1> QED BY <1>1, <1>2, <1>5, <1>9 DEF IInv, WireInv

\* Sending the request: state "init" tells that nothing was asked yet.
LEMMA SendKeeps ==
  ASSUME IInv, Send
  PROVE  IInv'
<1> USE Constants
<1>1. /\ res' = res \/ res' = [res EXCEPT ![Mine] = "asked"]
      /\ UNCHANGED <<wire, open, sent, ended, cumulative, noise,
                     runId, deltas, finalText, accepted, completed, count, shown>>
  BY DEF Send
<1>2. res' \in [Own -> {"none", "asked", "accepted", "refused", "completed"}]
  BY <1>1 DEF IInv, TypeOK
<1>3. /\ state' \in {"waiting", "error"}
      /\ cause' \in {cause, "send"}
  BY DEF Send, Return
<1>4. TypeOK'
  BY <1>1, <1>2, <1>3 DEF IInv, TypeOK
<1>5. WireInv'
  <2>1. wire' = wire /\ accepted' = accepted
    BY <1>1
  <2>2. CASE res' = res
    BY <2>1, <2>2 DEF IInv, WireInv, Announced
  <2>3. CASE res' = [res EXCEPT ![Mine] = "asked"]
    <3>1. res[Mine] = "none" /\ res'[Mine] = "asked"
      BY <2>3 DEF Send, IInv, TypeOK, ClientInv
    <3> QED BY <2>1, <3>1 DEF IInv, WireInv, Announced
  <2> QED BY <1>1, <2>2, <2>3
<1>6. ClientInv' /\ OnlyOwnRun'
  BY <1>1, <1>3 DEF IInv, ClientInv, OnlyOwnRun
<1> QED BY <1>4, <1>5, <1>6 DEF IInv

\* The returns that take no frame.
LEMMA ReturnKeeps ==
  ASSUME IInv, GiveUp \/ StopDraining \/ RecvClosed \/ Timeout
  PROVE  IInv'
<1>1. /\ state' \in {"ok", "error"} /\ cause' \in {"limit", "drained", "closed", "timeout"}
      /\ UNCHANGED <<gatewayVars, runId, deltas, finalText, accepted, completed, count, shown>>
  BY DEF GiveUp, StopDraining, RecvClosed, Timeout, Return
<1>2. TypeOK'
  BY <1>1 DEF IInv, TypeOK, gatewayVars
<1>3. WireInv' /\ ClientInv' /\ OnlyOwnRun'
  BY <1>1 DEF IInv, WireInv, Announced, ClientInv, OnlyOwnRun, gatewayVars
<1> QED BY <1>2, <1>3 DEF IInv

\* The handlers of a frame: what they store comes from the own run only.
LEMMA ReceiveKeeps ==
  ASSUME IInv,
         RecvAccepted \/ RecvRefused \/ RecvCompleted \/ RecvDelta \/ RecvEnd \/ RecvNoise
  PROVE  IInv'
<1> USE Constants
<1> DEFINE Kept == /\ wire' \in Seq(Frame) /\ WireInv'
                   /\ UNCHANGED <<open, res, sent, ended, cumulative, noise>>
                   /\ count' \in 0 .. MaxEvents
           Answer == /\ state' \in {"waiting", "ok", "error"}
                     /\ cause' \in {"none", "send", "limit", "drained", "text", "refused",
                                    "end", "closed", "timeout"}
           Reply == /\ runId' = IF accepted' THEN Mine ELSE NoRun
                    /\ deltas' \in [1 .. ReplyLen -> {NoRun, Mine}]
                    /\ finalText' \in [run : {NoRun, Mine}, upto : Nat]
                    /\ shown' \in Seq({Mine} \X Nat)
                    /\ accepted' \in BOOLEAN /\ completed' \in BOOLEAN
<1> HIDE DEF Kept, Answer, Reply
<1>a. ASSUME NEW type, Take(type), accepted' <=> accepted \/ type = "accepted" PROVE Kept
  BY <1>a, TakeKeeps DEF Kept, Take, TooMany, IInv, TypeOK
<1>b. /\ deltas \in [1 .. ReplyLen -> {NoRun, Mine}]
      /\ finalText \in [run : {NoRun, Mine}, upto : Nat]
      /\ accepted \in BOOLEAN /\ completed \in BOOLEAN
      /\ runId = IF accepted THEN Mine ELSE NoRun
  BY DEF IInv, TypeOK, ClientInv, OnlyOwnRun
<1>c. shown \in Seq({Mine} \X Nat)
  <2>1. shown \in Seq(Run \X Nat) /\ \A i \in DOMAIN shown : shown[i][1] = Mine
    BY DEF IInv, TypeOK, OnlyOwnRun
  <2>2. Len(shown) \in Nat /\ DOMAIN shown = 1 .. Len(shown)
        /\ \A i \in DOMAIN shown : shown[i] \in Run \X Nat
    BY <2>1
  <2>3. \A i \in DOMAIN shown : shown[i] \in {Mine} \X Nat
    BY <2>1, <2>2
  <2>4. shown = [i \in 1 .. Len(shown) |-> shown[i]]
    BY <2>1
  <2> QED BY <2>2, <2>3, <2>4
<1>d. /\ state = "waiting" => Answer \/ ~Continue
      /\ Return("ok", "text") => Answer
      /\ Return("ok", "end") => Answer
      /\ Return("error", "refused") => Answer
  BY DEF Answer, Continue, Return, IInv, TypeOK
<1>1. ASSUME RecvAccepted PROVE Kept /\ Answer /\ Reply
  <2>1. /\ Take("accepted") /\ accepted' = TRUE /\ state = "waiting"
        /\ UNCHANGED <<deltas, completed, shown>>
    BY <1>1 DEF RecvAccepted, Take
  <2>2. Got.run = Mine
    BY <2>1, TakeKeeps
  <2>3. Reply
    BY <1>1, <1>b, <1>c, <2>1, <2>2 DEF Reply, RecvAccepted, Upto
  <2> QED BY <1>1, <1>a, <1>d, <2>1, <2>3 DEF RecvAccepted
<1>2. ASSUME RecvRefused PROVE Kept /\ Answer /\ Reply
  <2>1. Take("refused") /\ state = "waiting" /\ Reply /\ accepted' = accepted
    BY <1>2, <1>b, <1>c DEF Reply, RecvRefused, Take
  <2> QED BY <1>2, <1>a, <1>d, <2>1 DEF RecvRefused
<1>3. ASSUME RecvCompleted PROVE Kept /\ Answer /\ Reply
  <2>1. /\ Take("completed") /\ state = "waiting" /\ completed' = TRUE
        /\ UNCHANGED <<runId, deltas, accepted, shown>>
    BY <1>3 DEF RecvCompleted, Take
  <2>2. Got.run = Mine
    BY <2>1, TakeKeeps
  <2>3. Reply
    BY <1>3, <1>b, <1>c, <2>1, <2>2 DEF Reply, RecvCompleted, Upto
  <2> QED BY <1>3, <1>a, <1>d, <2>1, <2>3 DEF RecvCompleted
<1>4. ASSUME RecvDelta PROVE Kept /\ Answer /\ Reply
  <2>1. /\ Take("delta") /\ state = "waiting" /\ UNCHANGED <<accepted, completed>>
    BY <1>4 DEF RecvDelta, Take
  <2>2. accepted /\ Got.seq \in 1 .. ReplyLen /\ Adopted = Mine /\ runId' = Mine
    BY <1>4, <1>b, <2>1, TakeKeeps DEF Adopted, RecvDelta
  <2>3. ASSUME Got.run = Mine PROVE Reply
    <3>1. <<Got.run, Got.seq>> \in {Mine} \X Nat
      BY <2>2, <2>3
    <3>2. shown' \in Seq({Mine} \X Nat)
      <4>1. shown' = Append(shown, <<Got.run, Got.seq>>)
        BY <1>4, <2>2, <2>3 DEF RecvDelta
      <4>2. \A q \in Seq({Mine} \X Nat), e \in {Mine} \X Nat :
              Append(q, e) \in Seq({Mine} \X Nat)
        OBVIOUS
      <4> QED BY <1>c, <3>1, <4>1, <4>2
    <3>3. deltas' \in [1 .. ReplyLen -> {NoRun, Mine}]
      BY <1>4, <1>b, <2>2, <2>3 DEF RecvDelta
    <3>4. finalText' \in [run : {NoRun, Mine}, upto : Nat]
      BY <1>4, <1>b, <2>2, <2>3 DEF RecvDelta, Upto
    <3> QED BY <1>b, <2>1, <2>2, <3>2, <3>3, <3>4 DEF Reply
  <2>4. ASSUME Got.run # Mine PROVE Reply
    <3>1. UNCHANGED <<deltas, shown, finalText>>
      BY <1>4, <2>2, <2>4 DEF RecvDelta
    <3> QED BY <1>b, <1>c, <2>1, <2>2, <3>1 DEF Reply
  <2>5. Reply
    BY <2>3, <2>4
  <2> QED BY <1>4, <1>a, <1>d, <2>1, <2>5 DEF RecvDelta
<1>5. ASSUME RecvEnd PROVE Kept /\ Answer /\ Reply
  <2>1. /\ Take("end") /\ state = "waiting"
        /\ UNCHANGED <<deltas, finalText, accepted, completed, shown>>
    BY <1>5 DEF RecvEnd, Take
  <2>2. accepted /\ runId' = Mine
    BY <1>5, <1>b, <2>1, TakeKeeps DEF Adopted, RecvEnd
  <2>3. Reply
    BY <1>b, <1>c, <2>1, <2>2 DEF Reply
  <2> QED BY <1>5, <1>a, <1>d, <2>1, <2>3 DEF RecvEnd
<1>6. ASSUME RecvNoise PROVE Kept /\ Answer /\ Reply
  <2>1. Take("noise") /\ state = "waiting" /\ Reply /\ accepted' = accepted
    BY <1>6, <1>b, <1>c DEF Reply, RecvNoise, Take
  <2> QED BY <1>6, <1>a, <1>d, <2>1 DEF RecvNoise
<1>7. Kept /\ Answer /\ Reply
  BY <1>1, <1>2, <1>3, <1>4, <1>5, <1>6
<1>8. shown' \in Seq(Run \X Nat) /\ \A i \in DOMAIN shown' : shown'[i][1] = Mine
  BY <1>7 DEF Reply
<1>9. TypeOK'
  BY <1>7, <1>8 DEF Kept, Answer, Reply, IInv, TypeOK
<1>10. ClientInv' /\ OnlyOwnRun'
  BY <1>7, <1>8 DEF Kept, Answer, Reply, ClientInv, OnlyOwnRun
<1> QED BY <1>7, <1>9, <1>10 DEF Kept, IInv

\* The invariant behind the types and the filter: what is in flight follows
\* its acceptance, and the client holds the run it was told (ws.rs:672-735).
THEOREM ChatInvariant == ASSUME QuietStart = TRUE PROVE Spec => []IInv
<1>1. Init => IInv
  BY InitInv
<1>2. IInv /\ [Next]_vars => IInv'
  <2> SUFFICES ASSUME IInv, [Next]_vars PROVE IInv'
    OBVIOUS
  <2>1. CASE Send
    BY <2>1, SendKeeps
  <2>2. CASE Receive
    BY <2>2, ReturnKeeps, ReceiveKeeps DEF Receive
  <2>3. CASE Timeout
    BY <2>3, ReturnKeeps
  <2>4. CASE GatewayNext /\ UNCHANGED clientVars
    BY <2>4, GatewayKeeps
  <2>5. CASE UNCHANGED vars
    BY <2>5 DEF vars, IInv, TypeOK, WireInv, Announced, ClientInv, OnlyOwnRun
  <2> QED BY <2>1, <2>2, <2>3, <2>4, <2>5 DEF Next
<1> QED BY <1>1, <1>2, PTL DEF Spec

\* Every reachable state of a call is well typed, frames in flight included.
THEOREM ChatTypeCorrect == ASSUME QuietStart = TRUE PROVE Spec => []TypeOK
<1>1. IInv => TypeOK
  BY DEF IInv
<1> QED BY <1>1, ChatInvariant, PTL

\* The filter of ws.rs:723-735 does its work once the request was accepted
\* before anything foreign: no other client's piece gets into the reply.
THEOREM OwnRunOnly == ASSUME QuietStart = TRUE PROVE Spec => []OnlyOwnRun
<1>1. IInv => OnlyOwnRun
  BY DEF IInv
<1> QED BY <1>1, ChatInvariant, PTL
-----------------------------------------------------------------------------
(* The reply is collected in order.                                        *)

\* The own run's frames in the connection, by their place in the reply.
ChatMark == [f \in Frame |-> IF f.run # Mine THEN 0
                             ELSE IF f.type = "delta" THEN f.seq
                             ELSE IF f.type = "end" THEN EndMark(ReplyLen) ELSE 0]
Coming == Marks(ChatMark, wire)

\* The pieces are stored and shown from the first on, and the next ones are on
\* their way.
Collected ==
  /\ shown \in Seq({Mine} \X Nat) /\ \A k \in DOMAIN shown : shown[k] = <<Mine, k>>
  /\ deltas = [k \in 1 .. ReplyLen |-> IF k <= Len(shown) THEN Mine ELSE NoRun]
  /\ Flows(ReplyLen, Coming, <<>>, Len(shown), sent[Mine])

\* A text is the whole reply, or what was shown when the events carry it.
Texts ==
  /\ \A i \in DOMAIN wire : wire[i].type = "delta" => wire[i].text = cumulative
  /\ \/ finalText = NoText
     \/ finalText = Upto(Mine, ReplyLen) /\ accepted
     \/ finalText = Upto(Mine, Len(shown)) /\ accepted /\ cumulative

Returned ==
  state = "ok" => /\ cause \in {"text", "end", "drained"}
                  /\ cause = "end" => Len(shown) = ReplyLen
                  /\ cause = "text" => finalText = Upto(Mine, ReplyLen)

OrderInv == Collected /\ Texts /\ Returned

LEMMA ComingTyped ==
  ASSUME IInv
  PROVE  /\ Coming \in Seq(Nat)
         /\ \A f \in Frame : wire' = Append(wire, f) => Coming' = Append(Coming, ChatMark[f])
         /\ wire # <<>> => /\ Coming # <<>> /\ Coming[1] = ChatMark[Head(wire)]
                           /\ wire' = Tail(wire) => Coming' = Tail(Coming)
         /\ wire' = wire => Coming' = Coming
<1>1. wire \in Seq(Frame)
  BY DEF IInv, TypeOK
<1>2. ChatMark \in [Frame -> Nat]
  BY BoundAssumption DEF ChatMark, Frame, EndMark
<1>3. ChatMark' = ChatMark
  BY DEF ChatMark, Frame, EndMark
<1>4. Coming' = Marks(ChatMark, wire') /\ Coming = Marks(ChatMark, wire)
  BY <1>3 DEF Coming, Marks
<1> QED BY <1>1, <1>2, <1>4, MarksMove, ZenonT(40)

\* Facts of the state alone, next to the queue of marks.
LEMMA CollectedNow ==
  ASSUME shown' \in Seq({Mine} \X Nat), \A k \in DOMAIN shown' : shown'[k] = <<Mine, k>>,
         deltas' = [k \in 1 .. ReplyLen |-> IF k <= Len(shown') THEN Mine ELSE NoRun],
         Flows(ReplyLen, Coming', <<>>, Len(shown'), sent'[Mine])
  PROVE  Collected'
BY DEF Collected, Flows, Rising, Carries, Mark, Precedes, EndMark

\* What the gateway sends of the own run comes in order behind the rest.
LEMMA PushOrders ==
  ASSUME IInv, OrderInv, NEW f \in Frame, wire' = Append(wire, f), cumulative' = cumulative,
         UNCHANGED clientVars, f.type = "delta" => f.text = cumulative,
         \/ ChatMark[f] = 0 /\ sent'[Mine] = sent[Mine]
         \/ /\ ChatMark[f] = sent[Mine] + 1 /\ sent'[Mine] = sent[Mine] + 1
            /\ sent[Mine] < ReplyLen
         \/ /\ ChatMark[f] = EndMark(ReplyLen) /\ sent'[Mine] = sent[Mine]
            /\ sent[Mine] = ReplyLen
  PROVE  OrderInv'
<1>1. Coming \in Seq(Nat) /\ Coming' = Append(Coming, ChatMark[f]) /\ wire \in Seq(Frame)
  BY ComingTyped DEF IInv, TypeOK
<1>2. Flows(ReplyLen, <<>>, Coming, Len(shown), sent[Mine])
  BY FlowAlone DEF OrderInv, Collected
<1>3. <<>> \in Seq(Nat) /\ ReplyLen \in Nat \ {0}
  BY BoundAssumption
<1>4. Flows(ReplyLen, <<>>, Append(Coming, ChatMark[f]), Len(shown), sent'[Mine])
  BY <1>1, <1>2, <1>3, FlowPush
<1>5. Flows(ReplyLen, Coming', <<>>, Len(shown'), sent'[Mine])
  BY <1>1, <1>4, FlowAlone DEF clientVars
<1>6. Collected'
  BY <1>5, CollectedNow DEF OrderInv, Collected, clientVars
<1>7. Texts'
  BY <1>1, AllOfAppend DEF OrderInv, Texts, clientVars, NoText, Upto
<1>8. Returned'
  BY DEF OrderInv, Returned, clientVars, Upto
<1> QED BY <1>6, <1>7, <1>8 DEF OrderInv

LEMMA GatewayOrders ==
  ASSUME IInv, OrderInv, GatewayNext, UNCHANGED clientVars
  PROVE  OrderInv'
<1> USE Constants
<1>0. ASSUME NEW f \in Frame
      PROVE  ChatMark[f] = IF f.run # Mine THEN 0 ELSE IF f.type = "delta" THEN f.seq
                           ELSE IF f.type = "end" THEN EndMark(ReplyLen) ELSE 0
  BY DEF ChatMark
<1>1. ASSUME NEW r \in Own, NEW x \in BOOLEAN,
             Accept(r) \/ AcceptWithText(r) \/ Refuse(r) \/ Complete(r, x)
      PROVE  OrderInv'
  <2>1. PICK type \in {"accepted", "refused", "completed"}, y \in BOOLEAN :
          wire' = Append(wire, ResFrame(type, r, y))
    BY <1>1 DEF Accept, AcceptWithText, Refuse, Complete, Push
  <2> DEFINE f == ResFrame(type, r, y)
  <2>2. sent' = sent /\ cumulative' = cumulative
    BY <1>1 DEF Accept, AcceptWithText, Refuse, Complete
  <2>3. f \in Frame
    BY FrameTypes DEF IInv
  <2>4. ChatMark[f] = 0 /\ f.type # "delta"
    BY <1>0, <2>3 DEF ResFrame
  <2> HIDE DEF f
  <2>5. wire' = Append(wire, f)
    BY <2>1 DEF f
  <2> QED BY <2>2, <2>3, <2>4, <2>5, PushOrders
<1>2. ASSUME NEW r \in Run, Emit(r) PROVE OrderInv'
  <2> DEFINE f == DeltaFrame(r, sent[r] + 1)
  <2>1. /\ wire' = Append(wire, f) /\ sent[r] < ReplyLen
        /\ sent' = [sent EXCEPT ![r] = @ + 1] /\ cumulative' = cumulative
        /\ sent \in [Run -> 0 .. ReplyLen]
    BY <1>2 DEF Emit, Push, IInv, TypeOK
  <2>2. f \in Frame
    BY <2>1, FrameTypes DEF IInv
  <2>3. f.type = "delta" /\ f.run = r /\ f.seq = sent[r] + 1 /\ f.text = cumulative
    BY DEF DeltaFrame
  <2> HIDE DEF f
  <2>4. CASE r = Mine
    <3>1. ChatMark[f] = sent[Mine] + 1 /\ sent'[Mine] = sent[Mine] + 1 /\ sent[Mine] < ReplyLen
      BY <1>0, <2>1, <2>2, <2>3, <2>4
    <3> QED BY <2>1, <2>2, <2>3, <3>1, PushOrders
  <2>5. CASE r # Mine
    <3>1. ChatMark[f] = 0 /\ sent'[Mine] = sent[Mine]
      BY <1>0, <2>1, <2>2, <2>3, <2>5
    <3> QED BY <2>1, <2>2, <2>3, <3>1, PushOrders
  <2> QED BY <2>4, <2>5
<1>3. ASSUME NEW r \in Run, End(r) PROVE OrderInv'
  <2> DEFINE f == EndFrame(r)
  <2>1. /\ wire' = Append(wire, f) /\ sent[r] = ReplyLen /\ sent' = sent
        /\ cumulative' = cumulative
    BY <1>3 DEF End, Push
  <2>2. f \in Frame
    BY FrameTypes DEF IInv
  <2>3. f.type = "end" /\ f.run = r
    BY DEF EndFrame
  <2> HIDE DEF f
  <2>4. \/ ChatMark[f] = 0
        \/ ChatMark[f] = EndMark(ReplyLen) /\ sent[Mine] = ReplyLen
    BY <1>0, <2>1, <2>2, <2>3
  <2> QED BY <2>1, <2>2, <2>3, <2>4, PushOrders
<1>4. CASE Noise
  <2>1. wire' = Append(wire, NoiseFrame) /\ sent' = sent /\ cumulative' = cumulative
    BY <1>4 DEF Noise, Push
  <2>2. NoiseFrame \in Frame
    BY FrameTypes DEF IInv
  <2>3. ChatMark[NoiseFrame] = 0 /\ NoiseFrame.type # "delta"
    BY <1>0, <2>2 DEF NoiseFrame
  <2> QED BY <2>1, <2>2, <2>3, PushOrders
<1>5. CASE Drop
  <2>1. wire' = wire /\ sent' = sent /\ cumulative' = cumulative
    BY <1>5 DEF Drop
  <2>2. Coming' = Coming
    BY <2>1, ComingTyped
  <2>3. Collected'
    BY <2>1, <2>2, CollectedNow DEF OrderInv, Collected, clientVars
  <2>4. Texts' /\ Returned'
    BY <2>1 DEF OrderInv, Texts, Returned, clientVars, NoText, Upto
  <2> QED BY <2>3, <2>4 DEF OrderInv
<1> QED BY <1>1, <1>2, <1>3, <1>4, <1>5 DEF GatewayNext
\* The frame taken is the next piece of the own run, its end, or neither.
LEMMA TakeOrders ==
  ASSUME IInv, OrderInv, NEW type, Take(type)
  PROVE  /\ Got \in Frame /\ Got.type = type
         /\ \A i \in DOMAIN wire' : wire'[i].type = "delta" => wire'[i].text = cumulative
         /\ type = "delta" => Got.text = cumulative
         /\ UNCHANGED <<sent, cumulative>>
         /\ type \notin {"delta", "end"} \/ Got.run # Mine =>
              Flows(ReplyLen, Coming', <<>>, Len(shown), sent'[Mine])
         /\ type = "end" /\ Got.run = Mine =>
              /\ Len(shown) = ReplyLen
              /\ Flows(ReplyLen, Coming', <<>>, Len(shown), sent'[Mine])
         /\ type = "delta" /\ Got.run = Mine =>
              /\ Got.seq = Len(shown) + 1 /\ Got.seq \in 1 .. ReplyLen
              /\ Flows(ReplyLen, Coming', <<>>, Len(shown) + 1, sent'[Mine])
<1> DEFINE n == Len(shown)
           m == sent[Mine]
<1>1. wire \in Seq(Frame) /\ wire # <<>> /\ wire' = Tail(wire) /\ Got = Head(wire)
      /\ Got.type = type /\ UNCHANGED <<sent, cumulative>>
  BY DEF Take, Got, IInv, TypeOK
<1>2. /\ Got = wire[1] /\ 1 \in DOMAIN wire /\ Got \in Frame
      /\ \A i \in DOMAIN wire' : i + 1 \in DOMAIN wire /\ wire'[i] = wire[i + 1]
  BY <1>1, AllOfTail
<1>3. /\ Coming \in Seq(Nat) /\ Coming # <<>> /\ Coming[1] = ChatMark[Got]
      /\ Coming' = Tail(Coming)
  BY <1>1, ComingTyped
<1>4. ChatMark[Got] = IF Got.run # Mine THEN 0 ELSE IF type = "delta" THEN Got.seq
                      ELSE IF type = "end" THEN EndMark(ReplyLen) ELSE 0
  BY <1>1, <1>2 DEF ChatMark
<1>5. type = "delta" => Got.text = cumulative /\ Got.seq \in 1 .. ReplyLen
  BY <1>1, <1>2 DEF OrderInv, Texts, IInv, WireInv
<1>6. \A i \in DOMAIN wire' : wire'[i].type = "delta" => wire'[i].text = cumulative
  BY <1>2 DEF OrderInv, Texts
<1>7. Flows(ReplyLen, Coming, <<>>, n, m) /\ sent'[Mine] = m
  BY <1>1 DEF OrderInv, Collected
<1>8. ReplyLen \in Nat \ {0} /\ <<>> \in Seq(Nat) /\ Tail(Coming) \in Seq(Nat)
  BY <1>3, BoundAssumption
<1> HIDE DEF n, m
<1>9. /\ Coming[1] = 0 => Flows(ReplyLen, Tail(Coming), <<>>, n, m)
      /\ Coming[1] \in 1 .. ReplyLen =>
           Coming[1] = n + 1 /\ Flows(ReplyLen, Tail(Coming), <<>>, n + 1, m)
      /\ Coming[1] = EndMark(ReplyLen) => n = ReplyLen
  <2> DEFINE b == <<>>
  <2>1. b \in Seq(Nat) /\ Flows(ReplyLen, Coming, b, n, m)
    BY <1>7, <1>8
  <2> HIDE DEF b
  <2>2. /\ Coming[1] = 0 => Flows(ReplyLen, Tail(Coming), b, n, m)
        /\ Coming[1] \in 1 .. ReplyLen =>
             Coming[1] = n + 1 /\ Flows(ReplyLen, Tail(Coming), b, n + 1, m)
        /\ Coming[1] = EndMark(ReplyLen) => n = ReplyLen
    BY <1>3, <1>8, <2>1, FlowTake
  <2> QED BY <2>2 DEF b
<1>10. Coming[1] = EndMark(ReplyLen) => Flows(ReplyLen, Tail(Coming), <<>>, n, m)
  <2>1. Flows(ReplyLen, <<>>, Coming, n, m)
    BY <1>7, FlowAlone
  <2>2. Coming[1] = EndMark(ReplyLen) => Flows(ReplyLen, <<>>, Tail(Coming), n, m)
    BY <1>3, <1>8, <2>1, FlowDrop
  <2> QED BY <2>2, FlowAlone
<1> QED BY <1>1, <1>2, <1>3, <1>4, <1>5, <1>6, <1>7, <1>9, <1>10 DEF n

\* The handlers of a frame.
LEMMA ReceiveOrders ==
  ASSUME IInv, OrderInv,
         RecvAccepted \/ RecvRefused \/ RecvCompleted \/ RecvDelta \/ RecvEnd \/ RecvNoise
  PROVE  OrderInv'
<1> USE Constants
<1>0. /\ shown \in Seq({Mine} \X Nat) /\ \A k \in DOMAIN shown : shown[k] = <<Mine, k>>
      /\ deltas = [k \in 1 .. ReplyLen |-> IF k <= Len(shown) THEN Mine ELSE NoRun]
      /\ Len(shown) \in Nat /\ accepted \in BOOLEAN /\ cumulative \in BOOLEAN
      /\ runId = IF accepted THEN Mine ELSE NoRun
      /\ finalText \in {NoText, Upto(Mine, ReplyLen), Upto(Mine, Len(shown))}
      /\ finalText # NoText => accepted
      /\ finalText = Upto(Mine, Len(shown)) => cumulative \/ Len(shown) = ReplyLen
  BY DEF OrderInv, Collected, Texts, IInv, TypeOK, ClientInv, Upto, NoText
<1>1. ASSUME NEW type, Take(type), type \notin {"delta", "end"} \/ Got.run # Mine \/ type = "end",
             UNCHANGED <<deltas, shown>>
      PROVE  Collected'
  <2>1. Flows(ReplyLen, Coming', <<>>, Len(shown'), sent'[Mine])
    BY <1>1, TakeOrders
  <2> QED BY <1>0, <1>1, <2>1, CollectedNow
<1>2. ASSUME NEW type, Take(type), shown' = shown, accepted' \in {accepted, TRUE},
             finalText' \in {finalText, Upto(Mine, ReplyLen)},
             finalText' # finalText => accepted'
      PROVE  Texts'
  <2>1. /\ \A i \in DOMAIN wire' : wire'[i].type = "delta" => wire'[i].text = cumulative'
        /\ cumulative' = cumulative
    BY <1>2, TakeOrders
  <2>2. \/ finalText' = NoText
        \/ finalText' = Upto(Mine, ReplyLen) /\ accepted'
        \/ finalText' = Upto(Mine, Len(shown')) /\ accepted' /\ cumulative'
    <3>1. accepted => accepted'
      BY <1>0, <1>2
    <3>2. CASE finalText' = finalText
      BY <1>2, <2>1, <3>1, <3>2, Zenon DEF OrderInv, Texts
    <3>3. CASE finalText' # finalText
      BY <1>2, <3>3
    <3> QED BY <3>2, <3>3
  <2> QED BY <2>1, <2>2 DEF Texts, NoText, Upto
<1>3. ASSUME Continue, state = "waiting" PROVE Returned'
  BY <1>3 DEF Continue, Returned
<1>4. CASE RecvAccepted
  <2>1. /\ Take("accepted") /\ ~accepted /\ accepted' = TRUE /\ state = "waiting"
        /\ UNCHANGED <<deltas, completed, shown>>
        /\ finalText' = IF Got.text THEN Upto(Got.run, ReplyLen) ELSE finalText
    BY <1>4 DEF RecvAccepted, Take
  <2>2. Got.run = Mine /\ finalText = NoText
    BY <1>0, <2>1, TakeKeeps
  <2>3. Collected' /\ Texts'
    BY <1>1, <1>2, <2>1, <2>2
  <2>4. Returned'
    <3>1. CASE finalText' = NoText
      BY <1>3, <1>4, <2>1, <3>1 DEF RecvAccepted
    <3>2. CASE finalText' # NoText
      <4>1. cause' = "text" /\ finalText' = Upto(Mine, ReplyLen)
        BY <1>4, <2>1, <2>2, <3>2 DEF RecvAccepted, Return
      <4> QED BY <4>1 DEF Returned, Upto
    <3> QED BY <3>1, <3>2
  <2> QED BY <2>3, <2>4 DEF OrderInv
<1>5. CASE RecvRefused
  <2>1. /\ Take("refused") /\ state' = "error" /\ accepted' = accepted
        /\ UNCHANGED <<deltas, shown, finalText>>
    BY <1>5 DEF RecvRefused, Return
  <2>2. Collected' /\ Texts'
    BY <1>1, <1>2, <2>1
  <2> QED BY <2>1, <2>2 DEF OrderInv, Returned
<1>6. CASE RecvCompleted
  <2>1. /\ Take("completed") /\ accepted /\ Continue /\ state = "waiting"
        /\ UNCHANGED <<runId, deltas, accepted, shown>>
        /\ finalText' = IF Got.text THEN Upto(Got.run, ReplyLen) ELSE finalText
    BY <1>6 DEF RecvCompleted, Take
  <2>2. Got.run = Mine
    BY <2>1, TakeKeeps
  <2>3. Collected' /\ Texts'
    BY <1>1, <1>2, <2>1, <2>2
  <2> QED BY <1>3, <2>1, <2>3 DEF OrderInv
<1>7. CASE RecvDelta
  <2>1. /\ Take("delta") /\ Continue /\ state = "waiting" /\ UNCHANGED <<accepted, completed>>
    BY <1>7 DEF RecvDelta, Take
  <2>2. accepted /\ Adopted = Mine
    BY <1>0, <2>1, TakeKeeps DEF Adopted
  <2>3. CASE Got.run # Mine
    <3>1. UNCHANGED <<deltas, shown, finalText>>
      BY <1>7, <2>2, <2>3 DEF RecvDelta
    <3>2. Collected' /\ Texts'
      BY <1>1, <1>2, <2>1, <2>3, <3>1
    <3> QED BY <1>3, <2>1, <3>2 DEF OrderInv
  <2>4. CASE Got.run = Mine
    <3> DEFINE n == Len(shown)
    <3>1. /\ deltas' = [deltas EXCEPT ![Got.seq] = Mine]
          /\ shown' = Append(shown, <<Mine, Got.seq>>)
          /\ finalText' = IF Got.text THEN Upto(Mine, Got.seq) ELSE finalText
      BY <1>7, <2>2, <2>4 DEF RecvDelta
    <3>2. /\ Got.seq = n + 1 /\ n + 1 \in 1 .. ReplyLen /\ Got.text = cumulative
          /\ Flows(ReplyLen, Coming', <<>>, n + 1, sent'[Mine])
          /\ \A i \in DOMAIN wire' : wire'[i].type = "delta" => wire'[i].text = cumulative
          /\ cumulative' = cumulative
      BY <2>1, <2>4, TakeOrders
    <3>3. /\ shown' \in Seq({Mine} \X Nat) /\ Len(shown') = n + 1
          /\ \A k \in DOMAIN shown' : shown'[k] = <<Mine, k>>
      <4>1. <<Mine, Got.seq>> \in {Mine} \X Nat
        BY <3>2
      <4> QED BY <1>0, <3>1, <3>2, <4>1, AllOfAppend
    <3>4. deltas' = [k \in 1 .. ReplyLen |-> IF k <= Len(shown') THEN Mine ELSE NoRun]
      <4>1. \A k \in 1 .. ReplyLen : k <= n + 1 <=> k <= n \/ k = n + 1
        BY <1>0
      <4> HIDE DEF n
      <4>2. deltas = [k \in 1 .. ReplyLen |-> IF k <= n THEN Mine ELSE NoRun]
        BY <1>0 DEF n
      <4>3. deltas' = [k \in 1 .. ReplyLen |-> IF k = n + 1 THEN Mine ELSE deltas[k]]
        BY <3>1, <3>2, <4>2
      <4> QED BY <3>3, <4>1, <4>2, <4>3
    <3>5. Collected'
      BY <3>2, <3>3, <3>4, CollectedNow
    <3>6. \/ finalText' = NoText
          \/ finalText' = Upto(Mine, ReplyLen) /\ accepted'
          \/ finalText' = Upto(Mine, Len(shown')) /\ accepted' /\ cumulative'
      <4>1. CASE cumulative
        BY <2>1, <2>2, <3>1, <3>2, <3>3, <4>1
      <4>2. CASE ~cumulative
        <5>1. finalText' = finalText
          BY <3>1, <3>2, <4>2
        <5>2. finalText = NoText \/ finalText = Upto(Mine, ReplyLen)
          BY <4>2 DEF OrderInv, Texts
        <5> QED BY <2>1, <2>2, <5>1, <5>2
      <4> QED BY <4>1, <4>2
    <3>7. Texts'
      BY <3>2, <3>6 DEF Texts, NoText, Upto
    <3> QED BY <1>3, <2>1, <3>5, <3>7 DEF OrderInv
  <2> QED BY <2>3, <2>4
<1>8. CASE RecvEnd
  <2>1. /\ Take("end") /\ state = "waiting"
        /\ UNCHANGED <<deltas, finalText, accepted, completed, shown>>
    BY <1>8 DEF RecvEnd, Take
  <2>2. Adopted = Mine
    BY <1>0, <2>1, TakeKeeps DEF Adopted
  <2>3. Collected' /\ Texts'
    BY <1>1, <1>2, <2>1
  <2>4. Returned'
    <3>1. CASE Got.run # Mine
      BY <1>3, <1>8, <2>1, <2>2, <3>1 DEF RecvEnd
    <3>2. CASE Got.run = Mine
      <4>1. cause' = "end" /\ Len(shown') = ReplyLen
        BY <1>8, <2>1, <2>2, <3>2, TakeOrders DEF RecvEnd, Return
      <4> QED BY <4>1 DEF Returned
    <3> QED BY <3>1, <3>2
  <2> QED BY <2>3, <2>4 DEF OrderInv
<1>9. CASE RecvNoise
  <2>1. /\ Take("noise") /\ Continue /\ state = "waiting" /\ accepted' = accepted
        /\ UNCHANGED <<deltas, shown, finalText>>
    BY <1>9 DEF RecvNoise, Take
  <2>2. Collected' /\ Texts'
    BY <1>1, <1>2, <2>1
  <2> QED BY <1>3, <2>1, <2>2 DEF OrderInv
<1> QED BY <1>4, <1>5, <1>6, <1>7, <1>8, <1>9

LEMMA OthersOrder ==
  ASSUME IInv, OrderInv, Send \/ GiveUp \/ StopDraining \/ RecvClosed \/ Timeout \/ UNCHANGED vars
  PROVE  OrderInv'
<1>1. /\ UNCHANGED <<wire, sent, cumulative, deltas, finalText, accepted, shown>>
      /\ \/ state' \in {"waiting", "error"}
         \/ state' = "ok" /\ cause' = "drained"
         \/ UNCHANGED <<state, cause>>
  BY DEF Send, GiveUp, StopDraining, RecvClosed, Timeout, Return, gatewayVars, vars
<1>2. Coming' = Coming
  BY <1>1, ComingTyped
<1>3. Collected'
  BY <1>1, <1>2, CollectedNow DEF OrderInv, Collected
<1>4. Texts'
  BY <1>1 DEF OrderInv, Texts, NoText, Upto
<1>5. Returned'
  BY <1>1 DEF OrderInv, Returned, Upto
<1> QED BY <1>3, <1>4, <1>5 DEF OrderInv

LEMMA InitOrders == Init => OrderInv
<1> SUFFICES ASSUME Init PROVE OrderInv
  OBVIOUS
<1> USE Constants
<1>1. /\ wire = <<>> /\ shown = <<>> /\ sent[Mine] = 0 /\ finalText = NoText
      /\ deltas = [k \in 1 .. ReplyLen |-> NoRun] /\ state = "init"
  BY DEF Init, GatewayInit
<1>2. shown \in Seq({Mine} \X Nat) /\ Len(shown) = 0 /\ DOMAIN shown = {}
  BY <1>1
<1>3. deltas = [k \in 1 .. ReplyLen |-> IF k <= Len(shown) THEN Mine ELSE NoRun]
  <2>1. \A k \in 1 .. ReplyLen : ~(k <= 0)
    OBVIOUS
  <2> QED BY <1>1, <1>2, <2>1
<1>4. Flows(ReplyLen, Coming, <<>>, Len(shown), sent[Mine])
  <2>1. DOMAIN Coming = {} /\ 0 + 1 .. 0 = {} /\ 0 \in 0 .. ReplyLen
    BY <1>1 DEF Coming, Marks
  <2> QED BY <1>1, <1>2, <2>1 DEF Flows, Rising
<1> QED BY <1>1, <1>2, <1>3, <1>4 DEF OrderInv, Collected, Texts, Returned

\* The text of the result: the pieces stored, or a text that carries them.
LEMMA ResultIs ==
  ASSUME IInv, OrderInv
  PROVE  /\ shown = Pieces(Upto(Mine, Len(shown))) /\ Len(shown) \in 0 .. ReplyLen
         /\ ResultText \in {Pieces(Upto(Mine, Len(shown))), WholeReply}
         /\ finalText = Upto(Mine, ReplyLen) => ResultText = WholeReply
<1> USE Constants
<1> DEFINE n == Len(shown)
           s == [k \in 1 .. ReplyLen |-> <<deltas[k], k>>]
           S == {k \in 1 .. ReplyLen : deltas[k] # NoRun}
<1>1. /\ shown \in Seq({Mine} \X Nat) /\ \A k \in DOMAIN shown : shown[k] = <<Mine, k>>
      /\ deltas = [k \in 1 .. ReplyLen |-> IF k <= n THEN Mine ELSE NoRun]
      /\ n \in 0 .. ReplyLen
  BY DEF OrderInv, Collected, Flows
<1>2. \A k : Pieces(Upto(Mine, k)) = [i \in 1 .. k |-> <<Mine, i>>]
  BY DEF Pieces, Upto
<1>3. shown = [i \in 1 .. n |-> <<Mine, i>>]
  BY <1>1
<1>4. S = 1 .. n /\ \A k \in 1 .. n : k \in 1 .. ReplyLen /\ s[k] = <<Mine, k>>
  BY <1>1
<1>5. Joined = [i \in 1 .. n |-> <<Mine, i>>]
  <2>1. Cardinality(1 .. n) = n /\ \A k \in 1 .. n : InOrder(1 .. n)[k] = k
    BY <1>1, InOrderUpto
  <2>2. Joined = Picked(s, S)
    BY DEF Joined
  <2> HIDE DEF s, S, n
  <2>3. Picked(s, S) = [k \in 1 .. n |-> s[InOrder(1 .. n)[k]]]
    BY <1>4, <2>1 DEF Picked
  <2> QED BY <1>4, <2>1, <2>2, <2>3
<1>6. CASE finalText = NoText
  <2>1. ResultText = Joined
    BY <1>6 DEF ResultText
  <2>2. Upto(Mine, ReplyLen) # NoText
    BY DEF Upto, NoText
  <2> QED BY <1>1, <1>2, <1>3, <1>5, <1>6, <2>1, <2>2
<1>7. CASE finalText # NoText
  <2>1. ResultText = Pieces(finalText)
    BY <1>7 DEF ResultText
  <2>2. finalText = Upto(Mine, ReplyLen) \/ finalText = Upto(Mine, n)
    BY <1>7 DEF OrderInv, Texts
  <2> QED BY <1>1, <1>2, <1>3, <2>1, <2>2 DEF WholeReply
<1> QED BY <1>6, <1>7

\* The pieces stored and shown are the first ones of the reply, and the rest is
\* on its way in order (ws.rs:723-786).
THEOREM OrderInvariant == ASSUME QuietStart = TRUE PROVE Spec => [](IInv /\ OrderInv)
<1>1. IInv /\ OrderInv /\ [Next]_vars => OrderInv'
  <2> SUFFICES ASSUME IInv, OrderInv, [Next]_vars PROVE OrderInv'
    OBVIOUS
  <2>1. CASE GatewayNext /\ UNCHANGED clientVars
    BY <2>1, GatewayOrders
  <2>2. CASE Receive
    BY <2>2, ReceiveOrders, OthersOrder DEF Receive
  <2> QED BY <2>1, <2>2, OthersOrder DEF Next
<1> QED BY <1>1, InitOrders, ChatInvariant, PTL DEF Spec

\* A call that returns because its run ended, or with a text of its run, returns
\* the whole reply, and one that stops waiting for the end the reply up to some
\* piece (ws.rs:651-661, 788-812).
THEOREM RepliesAreWhole == ASSUME QuietStart = TRUE PROVE Spec => []ReplyIsWhole
<1>1. IInv /\ OrderInv => ReplyIsWhole
  <2> SUFFICES ASSUME IInv, OrderInv, state = "ok"
               PROVE  IF cause = "drained"
                        THEN \E k \in 0 .. ReplyLen : ResultText = Pieces(Upto(Mine, k))
                        ELSE ResultText = WholeReply
    BY DEF ReplyIsWhole
  <2>1. CASE cause = "drained"
    <3>1. ReplyLen \in 0 .. ReplyLen
      BY Constants
    <3> QED BY <2>1, <3>1, ResultIs DEF WholeReply
  <2>2. CASE cause # "drained"
    BY <2>2, ResultIs DEF OrderInv, Returned, WholeReply
  <2> QED BY <2>1, <2>2
<1> QED BY <1>1, OrderInvariant, PTL

\* When the run ended, what the callback showed is the reply that is returned
\* (ws.rs:360-363, agent_chat_inner_streaming).
THEOREM ShownIsReturned == ASSUME QuietStart = TRUE PROVE Spec => []ShownIsReply
<1>1. IInv /\ OrderInv => ShownIsReply
  <2> SUFFICES ASSUME IInv, OrderInv, state = "ok", cause = "end" PROVE shown = ResultText
    BY DEF ShownIsReply
  <2>1. Len(shown) = ReplyLen
    BY DEF OrderInv, Returned
  <2> QED BY <2>1, ResultIs DEF WholeReply
<1> QED BY <1>1, OrderInvariant, PTL
=============================================================================
