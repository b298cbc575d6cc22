--------------------------- MODULE McpServerProofs ---------------------------
(***************************************************************************)
(* The promises of the MCP server to Claude Code, for any number of calls, *)
(* runs and failing appends, any reply length, any capacities: a request   *)
(* is answered at most once, with the text of its own run, and none is     *)
(* forgotten as long as requests arrive in one piece.                      *)
(***************************************************************************)
EXTENDS McpServer, ListProofs

\* What the gateway puts on the wire.
Fits(f) == f.type = "delta" => f.seq \in 1 .. ReplyLen

WireInv == /\ wire \in Seq(Frame) /\ \A i \in DOMAIN wire : Fits(wire[i])
           /\ sent \in [Run -> 0 .. ReplyLen] /\ cumulative \in BOOLEAN

\* A reply under way belongs to the run of its request.
OwnReply(p) == /\ p \in Reply /\ p.run \in {NoRun, p.req}
               /\ p.deltas \subseteq Whole(p.req) /\ p.final \subseteq Whole(p.req)

PendingInv == pending # NoReply =>
                OwnReply(pending) /\ pending.req \in asked /\ ~Answered(pending.req)

AnswersInv == /\ asked \subseteq Own /\ answers \in Seq(Answer)
              /\ \A i \in DOMAIN answers : answers[i].req \in asked
              /\ AnsweredOnce /\ AnswerIsOwn

IInv == WireInv /\ PendingInv /\ AnswersInv

\* What one step does to requests, replies and answers.
Lost == asked \subseteq asked' /\ asked' \subseteq Own /\ (SplitLines = FALSE => asked' = asked)

KeepsReply == /\ Lost /\ answers' = answers
              /\ \/ pending' = pending
                 \/ pending # NoReply /\ OwnReply(pending') /\ pending'.req = pending.req

StartsReply == \E q \in Own \ asked :
  /\ pending = NoReply /\ pending' = NewReply(q)
  /\ asked' = asked \cup {q} /\ answers' = answers

AnswersRequest == \E a \in Answer :
  /\ a.req \in Own \ asked /\ asked' = asked \cup {a.req} /\ pending' = pending
  /\ answers' = Append(answers, a) /\ a.text = {}

AnswersReply == \E a \in Answer :
  /\ pending # NoReply /\ a.req = pending.req /\ pending' = NoReply /\ Lost
  /\ answers' = Append(answers, a) /\ a.text \subseteq Whole(a.req)

Effect == /\ mode = "stopped" => mode' = "stopped"
          /\ KeepsReply \/ StartsReply \/ AnswersRequest \/ AnswersReply

-----------------------------------------------------------------------------
(* The wire.                                                               *)

LEMMA FramesFit ==
  ASSUME WireInv
  PROVE  /\ \A r \in Run, x \in BOOLEAN, type \in {"accepted", "refused", "completed"} :
              ResFrame(type, r, x) \in Frame /\ Fits(ResFrame(type, r, x))
         /\ \A r \in Run, k \in 1 .. ReplyLen :
              DeltaFrame(r, k) \in Frame /\ Fits(DeltaFrame(r, k))
         /\ \A r \in Run : EndFrame(r) \in Frame /\ Fits(EndFrame(r))
         /\ NoiseFrame \in Frame /\ Fits(NoiseFrame)
BY DEF WireInv, ResFrame, DeltaFrame, EndFrame, NoiseFrame, Frame, Fits

LEMMA PushFits ==
  ASSUME WireInv, NEW f \in Frame, Fits(f), Push(f)
  PROVE  wire' \in Seq(Frame) /\ \A i \in DOMAIN wire' : Fits(wire'[i])
<1>1. wire \in Seq(Frame) /\ wire' = Append(wire, f)
  BY DEF WireInv, Push
<1>2. \A i \in DOMAIN wire' : (i \in DOMAIN wire /\ wire'[i] = wire[i]) \/ wire'[i] = f
  BY <1>1
<1> QED BY <1>1, <1>2 DEF WireInv

LEMMA GatewayFits == ASSUME WireInv, GatewayNext PROVE WireInv'
<1> USE RunAssumption, BoundAssumption
<1>1. ASSUME NEW r \in Own, Accept(r) \/ AcceptWithText(r) \/ Refuse(r) PROVE WireInv'
  <2>1. PICK f \in Frame : Fits(f) /\ Push(f)
    BY <1>1, FramesFit DEF Accept, AcceptWithText, Refuse
  <2> QED BY <1>1, <2>1, PushFits DEF Accept, AcceptWithText, Refuse, WireInv
<1>2. ASSUME NEW r \in Own, NEW x \in BOOLEAN, Complete(r, x) PROVE WireInv'
  <2>1. PICK f \in Frame : Fits(f) /\ Push(f)
    BY <1>2, FramesFit DEF Complete
  <2> QED BY <1>2, <2>1, PushFits DEF Complete, WireInv
<1>3. ASSUME NEW r \in Run, Emit(r) PROVE WireInv'
  <2>1. sent[r] + 1 \in 1 .. ReplyLen
    BY <1>3 DEF Emit, WireInv
  <2>2. DeltaFrame(r, sent[r] + 1) \in Frame /\ Fits(DeltaFrame(r, sent[r] + 1))
    BY <2>1, FramesFit
  <2>3. sent' \in [Run -> 0 .. ReplyLen]
    BY <1>3, <2>1 DEF Emit, WireInv
  <2> QED BY <1>3, <2>2, <2>3, PushFits DEF Emit, WireInv
<1>4. ASSUME NEW r \in Run, End(r) PROVE WireInv'
  BY <1>4, FramesFit, PushFits DEF End, WireInv
<1>5. CASE Noise
  BY <1>5, FramesFit, PushFits DEF Noise, WireInv
<1>6. CASE Drop
  BY <1>6 DEF Drop, WireInv
<1> QED BY <1>1, <1>2, <1>3, <1>4, <1>5, <1>6 DEF GatewayNext

\* Taking a frame.
LEMMA TakeFits ==
  ASSUME WireInv, asked \subseteq Own, NEW type, Take(type)
  PROVE  WireInv' /\ Got \in Frame /\ Got.type = type /\ Fits(Got) /\ Lost /\ mode' = mode
<1>1. /\ wire \in Seq(Frame) /\ wire # <<>> /\ wire' = Tail(wire) /\ Got = wire[1]
      /\ Got.type = type /\ sent' = sent /\ cumulative' = cumulative /\ mode' = mode
  BY DEF Take, Got, WireInv
<1>2. /\ wire' \in Seq(Frame) /\ 1 \in DOMAIN wire /\ Got \in Frame
      /\ \A i \in DOMAIN wire' : i + 1 \in DOMAIN wire /\ wire'[i] = wire[i + 1]
  BY <1>1
<1>3. Lost
  BY StdinAssumption DEF Take, DropRead, Lost
<1> QED BY <1>1, <1>2, <1>3 DEF WireInv

\* The text of a frame is of the run of the frame.
LEMMA GotTextOwn ==
  ASSUME Got \in Frame, Fits(Got)
  PROVE  GotText \subseteq Whole(Got.run)
<1>1. ASSUME NEW k \in Nat, k <= ReplyLen PROVE PiecesUpto(Got.run, k) \subseteq Whole(Got.run)
  BY <1>1, BoundAssumption DEF PiecesUpto, Whole
<1>2. Got.type = "delta" => Got.seq \in Nat /\ Got.seq <= ReplyLen
  BY BoundAssumption DEF Fits
<1> QED BY <1>1, <1>2, BoundAssumption DEF GotText, GotLen

-----------------------------------------------------------------------------
(* Every step is one of the four of Effect.                                *)

Kind == {"immediate", "busy", "unsent", "refused", "closed", "accepted", "completed", "end"}

\* What Says appends.
LEMMA SaysAnswer ==
  ASSUME NEW q \in Own, NEW kind \in Kind, NEW tx, tx \subseteq Whole(q), Says(q, kind, tx)
  PROVE  \E a \in Answer : a.req = q /\ a.text = tx /\ answers' = Append(answers, a)
<1>1. tx \in Text
  BY RunAssumption DEF Whole, PiecesUpto, Text
<1> DEFINE a == [req |-> q, text |-> tx, kind |-> kind]
<1>2. a \in Answer /\ a.req = q /\ a.text = tx
  BY <1>1 DEF Answer, Kind
<1> QED BY <1>2 DEF Says

LEMMA ReadEffect ==
  ASSUME IInv, NEW q \in Own, AnswerAtOnce(q) \/ RejectReply(q) \/ StartReply(q)
  PROVE  Effect /\ WireInv'
<1>1. q \in Own \ asked /\ asked' = asked \cup {q} /\ mode = "select"
  BY DEF AnswerAtOnce, RejectReply, StartReply, Read
<1>2. WireInv'
  BY DEF AnswerAtOnce, RejectReply, StartReply, linkVars, gatewayVars, IInv, WireInv
<1>3. ASSUME NEW kind \in Kind, Says(q, kind, {}), pending' = pending PROVE AnswersRequest
  <2>1. PICK a \in Answer : a.req = q /\ a.text = {} /\ answers' = Append(answers, a)
    BY <1>3, SaysAnswer
  <2> QED BY <1>1, <1>3, <2>1 DEF AnswersRequest
<1>4. ASSUME AnswerAtOnce(q) \/ RejectReply(q) PROVE AnswersRequest
  <2>1. pending' = pending /\ \E kind \in Kind : Says(q, kind, {})
    BY <1>4 DEF AnswerAtOnce, RejectReply, Kind
  <2> QED BY <1>3, <2>1
<1>5. ASSUME StartReply(q), open PROVE StartsReply
  BY <1>1, <1>5 DEF StartReply, StartsReply
<1>6. ASSUME StartReply(q), ~open PROVE AnswersRequest
  <2>1. pending' = pending /\ \E kind \in Kind : Says(q, kind, {})
    BY <1>6 DEF StartReply, Kind
  <2> QED BY <1>3, <2>1
<1> QED BY <1>1, <1>2, <1>4, <1>5, <1>6 DEF Effect

\* complete_pending_reply answers the request of the reply it is given.
LEMMA CompleteEffect ==
  ASSUME IInv, Lost, pending # NoReply, NEW p, OwnReply(p), p.req = pending.req,
         NEW kind \in Kind, CompletePending(p, kind)
  PROVE  AnswersReply
<1>1. p.req \in Own /\ Assembled(p) \subseteq Whole(p.req)
  BY DEF OwnReply, Reply, Assembled
<1>2. Says(p.req, kind, Assembled(p)) /\ pending' = NoReply
  BY DEF CompletePending
<1>3. PICK a \in Answer :
        a.req = p.req /\ a.text = Assembled(p) /\ answers' = Append(answers, a)
  BY <1>1, <1>2, SaysAnswer
<1> QED BY <1>1, <1>2, <1>3 DEF AnswersReply

\* One more piece or a later text of its own run leaves a reply its own.
LEMMA RevisedReply ==
  ASSUME OwnReply(pending), Got \in Frame, Fits(Got), Got.run = pending.req
  PROVE  /\ OwnReply([pending EXCEPT !.final = Latest(@)])
         /\ OwnReply([pending EXCEPT !.run = Got.run, !.accepted = TRUE, !.final = Latest(@)])
         /\ Got.type = "delta" =>
              OwnReply([pending EXCEPT !.deltas = @ \cup {<<Got.run, Got.seq>>},
                                       !.final = Latest(@)])
<1>1. GotText \subseteq Whole(pending.req)
  BY GotTextOwn
<1>2. Latest(pending.final) \subseteq Whole(pending.req)
  BY <1>1 DEF Latest, OwnReply
<1>3. pending \in Reply /\ pending.req \in Own /\ pending.req \in Run
  BY RunAssumption DEF OwnReply, Reply
<1>4. \A x : x \subseteq Whole(pending.req) => x \in Text
  BY <1>3 DEF Whole, PiecesUpto, Text
<1>5. Latest(pending.final) \in Text
  BY <1>2, <1>4
<1>6. OwnReply([pending EXCEPT !.final = Latest(@)])
  BY <1>2, <1>3, <1>5 DEF OwnReply, Reply
<1>7. OwnReply([pending EXCEPT !.run = Got.run, !.accepted = TRUE, !.final = Latest(@)])
  BY <1>2, <1>3, <1>5 DEF OwnReply, Reply
<1>8. ASSUME Got.type = "delta"
      PROVE  OwnReply([pending EXCEPT !.deltas = @ \cup {<<Got.run, Got.seq>>},
                                      !.final = Latest(@)])
  <2>1. <<Got.run, Got.seq>> \in Whole(pending.req)
    BY <1>8 DEF Fits, Whole, PiecesUpto
  <2>2. pending.deltas \cup {<<Got.run, Got.seq>>} \subseteq Whole(pending.req)
    BY <2>1 DEF OwnReply
  <2>3. pending.deltas \cup {<<Got.run, Got.seq>>} \in Text
    BY <2>2, <1>4
  <2> QED BY <1>2, <1>3, <1>5, <2>2, <2>3 DEF OwnReply, Reply
<1> QED BY <1>6, <1>7, <1>8

LEMMA FrameEffect == ASSUME IInv, HandleFrame PROVE Effect /\ WireInv'
<1>1. ASSUME NEW type, Take(type)
      PROVE  /\ WireInv' /\ Lost /\ mode = "select" /\ mode' = mode
             /\ Got \in Frame /\ Got.type = type /\ Fits(Got)
  BY <1>1, TakeFits DEF IInv, AnswersInv, Take
<1>2. pending # NoReply => OwnReply(pending) /\ pending.req \in Own
  BY DEF IInv, PendingInv, OwnReply, Reply
<1>3. ASSUME NEW type, Take(type), pending # NoReply, NEW p, OwnReply(p), p.req = pending.req,
             KeepPending(p)
      PROVE  Effect /\ WireInv'
  BY <1>1, <1>3 DEF Effect, KeepsReply, KeepPending
<1>4. ASSUME NEW type, Take(type), pending # NoReply, NEW p, OwnReply(p), p.req = pending.req,
             NEW kind \in Kind, CompletePending(p, kind)
      PROVE  Effect /\ WireInv'
  BY <1>1, <1>4, CompleteEffect DEF Effect
<1>5. ASSUME NEW type, Take(type), UNCHANGED <<pending, answers>> PROVE Effect /\ WireInv'
  BY <1>1, <1>5 DEF Effect, KeepsReply
<1>6. Matches => pending # NoReply /\ Got.run = pending.req
  BY <1>2 DEF Matches, OwnReply
<1>7. CASE RecvDelta
  <2>1. Take("delta") /\ pending # NoReply /\ Got.run = pending.req
    BY <1>6, <1>7 DEF RecvDelta
  <2> DEFINE p == [pending EXCEPT !.deltas = @ \cup {<<Got.run, Got.seq>>},
                                  !.final = Latest(@)]
  <2>2. OwnReply(p) /\ p.req = pending.req
    BY <1>1, <1>2, <2>1, RevisedReply DEF OwnReply, Reply
  <2>3. KeepPending(p)
    BY <1>7 DEF RecvDelta
  <2> QED BY <1>3, <2>1, <2>2, <2>3
<1>8. CASE RecvEnd
  <2>1. Take("end") /\ pending # NoReply /\ Got.run = pending.req
    BY <1>6, <1>8 DEF RecvEnd
  <2> DEFINE p == [pending EXCEPT !.final = Latest(@)]
  <2>2. OwnReply(p) /\ p.req = pending.req
    BY <1>1, <1>2, <2>1, RevisedReply DEF OwnReply, Reply
  <2>3. CompletePending(p, "end") /\ "end" \in Kind
    BY <1>8 DEF RecvEnd, Kind
  <2> QED BY <1>4, <2>1, <2>2, <2>3
<1>9. CASE EmitDelta
  BY <1>5, <1>9 DEF EmitDelta
<1>10. CASE RecvAccepted
  <2>1. Take("accepted") /\ pending # NoReply /\ Got.run = pending.req
    BY <1>10 DEF RecvAccepted, Answers
  <2> DEFINE p == [pending EXCEPT !.run = Got.run, !.accepted = TRUE, !.final = Latest(@)]
  <2>2. OwnReply(p) /\ p.req = pending.req
    BY <1>1, <1>2, <2>1, RevisedReply DEF OwnReply, Reply
  <2>3. CompletePending(p, "accepted") \/ KeepPending(p)
    BY <1>10 DEF RecvAccepted
  <2> QED BY <1>3, <1>4, <2>1, <2>2, <2>3 DEF Kind
<1>11. CASE RecvRefused
  <2>1. Take("refused") /\ pending # NoReply /\ pending' = NoReply
    BY <1>11 DEF RecvRefused, Answers
  <2>2. PICK a \in Answer :
          a.req = pending.req /\ a.text = {} /\ answers' = Append(answers, a)
    BY <1>2, <1>11, <2>1, SaysAnswer DEF RecvRefused, Kind
  <2>3. AnswersReply
    BY <1>1, <2>1, <2>2 DEF AnswersReply
  <2> QED BY <1>1, <2>1, <2>3 DEF Effect
<1>12. CASE RecvCompleted
  <2>1. Take("completed") /\ pending # NoReply /\ Got.run = pending.req
    BY <1>12 DEF RecvCompleted, Answers
  <2> DEFINE p == [pending EXCEPT !.final = Latest(@)]
  <2>2. OwnReply(p) /\ p.req = pending.req
    BY <1>1, <1>2, <2>1, RevisedReply DEF OwnReply, Reply
  <2>3. CompletePending(p, "completed") \/ KeepPending(p)
    BY <1>12 DEF RecvCompleted
  <2> QED BY <1>3, <1>4, <2>1, <2>2, <2>3 DEF Kind
<1>13. CASE IgnoreFrame
  BY <1>5, <1>13 DEF IgnoreFrame
<1>14. CASE RecvClosed
  <2>1. WireInv' /\ Lost /\ mode' = "stopped" /\ pending' = NoReply
    BY <1>14 DEF RecvClosed, linkVars, gatewayVars, IInv, WireInv, Lost, AnswersInv
  <2>2. CASE pending # NoReply
    <3>1. PICK a \in Answer :
            a.req = pending.req /\ a.text = {} /\ answers' = Append(answers, a)
      BY <1>2, <1>14, <2>2, SaysAnswer DEF RecvClosed, Kind
    <3>2. AnswersReply
      BY <2>1, <2>2, <3>1 DEF AnswersReply
    <3> QED BY <2>1, <3>2 DEF Effect
  <2>3. CASE pending = NoReply
    BY <1>14, <2>1, <2>3 DEF RecvClosed, KeepsReply, Effect
  <2> QED BY <2>2, <2>3
<1> QED BY <1>7, <1>8, <1>9, <1>10, <1>11, <1>12, <1>13, <1>14 DEF HandleFrame

LEMMA StepEffect == ASSUME IInv, [Next]_vars PROVE Effect /\ WireInv'
<1>1. ASSUME UNCHANGED <<wire, sent, cumulative, asked, pending, answers>>,
             mode = "stopped" => mode' = "stopped"
      PROVE  Effect /\ WireInv'
  BY <1>1 DEF Effect, KeepsReply, Lost, IInv, WireInv, AnswersInv
<1> USE DEF linkVars, gatewayVars, serverVars
<1>2. CASE HandleRequest
  BY <1>2, ReadEffect DEF HandleRequest
<1>3. CASE HandleFrame
  BY <1>3, FrameEffect
<1>4. CASE Start \/ StdinClosed
  BY <1>1, <1>4 DEF Start, StdinClosed
<1>5. CASE WatcherTells \/ PollThread \/ Peers
  BY <1>1, <1>5 DEF WatcherTells, PollThread, Peers, TuiWrites, PeerPersists
<1>6. CASE DrainTicks
  <2>1. Lost
    BY <1>6, StdinAssumption DEF DrainTicks, DropRead, Lost, IInv, AnswersInv
  <2> QED BY <1>6, <2>1 DEF DrainTicks, Effect, KeepsReply, IInv, WireInv
<1>7. CASE GatewayNext /\ UNCHANGED serverVars
  BY <1>7, GatewayFits DEF Effect, KeepsReply, Lost, IInv, AnswersInv
<1>8. CASE UNCHANGED vars
  BY <1>1, <1>8 DEF vars
<1> QED BY <1>2, <1>3, <1>4, <1>5, <1>6, <1>7, <1>8 DEF Next

-----------------------------------------------------------------------------
(* The invariant and the theorems.                                         *)

\* One more answer, to a request that had none.
LEMMA OneMoreAnswer ==
  ASSUME AnswersInv, NEW a \in Answer, answers' = Append(answers, a), ~Answered(a.req),
         asked \subseteq asked', asked' \subseteq Own, a.req \in asked',
         a.text \subseteq Whole(a.req)
  PROVE  AnswersInv' /\ \A q : Answered(q)' <=> Answered(q) \/ q = a.req
<1>1. answers \in Seq(Answer)
  BY DEF AnswersInv
<1>2. /\ answers' \in Seq(Answer) /\ Len(answers) + 1 \in DOMAIN answers'
      /\ answers'[Len(answers) + 1] = a
      /\ \A i \in DOMAIN answers : i \in DOMAIN answers' /\ answers'[i] = answers[i]
      /\ \A i \in DOMAIN answers' : i \in DOMAIN answers \/ i = Len(answers) + 1
  BY <1>1
<1>3. \A i \in DOMAIN answers : answers[i].req # a.req
  BY DEF Answered
<1>4. AnsweredOnce'
  <2> SUFFICES ASSUME NEW i \in DOMAIN answers', NEW j \in DOMAIN answers',
                      answers'[i].req = answers'[j].req
               PROVE  i = j
    BY DEF AnsweredOnce
  <2> QED BY <1>2, <1>3 DEF AnswersInv, AnsweredOnce
<1>5. AnswerIsOwn' /\ \A i \in DOMAIN answers' : answers'[i].req \in asked'
  BY <1>2 DEF AnswersInv, AnswerIsOwn, Whole, PiecesUpto
<1>6. \A q : Answered(q)' <=> Answered(q) \/ q = a.req
  BY <1>2 DEF Answered
<1> QED BY <1>2, <1>4, <1>5, <1>6 DEF AnswersInv

LEMMA EffectKeeps ==
  ASSUME IInv, Effect, WireInv'
  PROVE  IInv' /\ (SplitLines = FALSE /\ NoneForgotten => NoneForgotten')
<1>1. /\ AnswersInv /\ asked \subseteq Own
      /\ pending # NoReply => /\ OwnReply(pending) /\ pending.req \in asked
                              /\ ~Answered(pending.req) /\ pending.req # NoRun
  BY RunAssumption DEF IInv, AnswersInv, PendingInv
<1>2. \A q : Answered(q) => q \in asked
  BY DEF IInv, AnswersInv, Answered
<1>3. CASE KeepsReply
  <2>1. AnswersInv' /\ \A q : Answered(q)' <=> Answered(q)
    BY <1>1, <1>3 DEF KeepsReply, Lost, AnswersInv, AnsweredOnce, AnswerIsOwn, Answered
  <2>2. PendingInv'
    BY <1>1, <1>3, <2>1 DEF KeepsReply, Lost, PendingInv, OwnReply
  <2>3. pending'.req = pending.req
    BY <1>3 DEF KeepsReply
  <2> QED BY <1>3, <2>1, <2>2, <2>3 DEF IInv, KeepsReply, Lost, NoneForgotten, Effect
<1>4. CASE StartsReply
  <2>1. PICK q \in Own \ asked : /\ pending = NoReply /\ pending' = NewReply(q)
                                 /\ asked' = asked \cup {q} /\ answers' = answers
    BY <1>4 DEF StartsReply
  <2>2. AnswersInv' /\ \A r : Answered(r)' <=> Answered(r)
    BY <1>1, <2>1 DEF AnswersInv, AnsweredOnce, AnswerIsOwn, Answered
  <2>3. OwnReply(NewReply(q)) /\ NewReply(q).req = q /\ ~Answered(q)
    BY <1>2, <2>1 DEF OwnReply, NewReply, Reply, Text
  <2>4. PendingInv'
    BY <2>1, <2>2, <2>3 DEF PendingInv, OwnReply
  <2>5. NoneForgotten => NoneForgotten'
    <3>1. \A r \in Own : pending.req # r
      BY <2>1, RunAssumption DEF NoReply
    <3> QED BY <1>1, <2>1, <2>2, <2>3, <3>1 DEF NoneForgotten, Effect
  <2> QED BY <2>2, <2>4, <2>5 DEF IInv
<1>5. CASE AnswersRequest
  <2>1. PICK a \in Answer :
          /\ a.req \in Own \ asked /\ asked' = asked \cup {a.req} /\ pending' = pending
          /\ answers' = Append(answers, a) /\ a.text = {}
    BY <1>5 DEF AnswersRequest
  <2>2. AnswersInv' /\ \A q : Answered(q)' <=> Answered(q) \/ q = a.req
    BY <1>1, <1>2, <2>1, OneMoreAnswer
  <2>3. PendingInv'
    BY <1>1, <2>1, <2>2 DEF PendingInv, OwnReply
  <2> QED BY <2>1, <2>2, <2>3 DEF IInv, NoneForgotten, Effect
<1>6. CASE AnswersReply
  <2>1. PICK a \in Answer :
          /\ pending # NoReply /\ a.req = pending.req /\ pending' = NoReply /\ Lost
          /\ answers' = Append(answers, a) /\ a.text \subseteq Whole(a.req)
    BY <1>6 DEF AnswersReply
  <2>2. AnswersInv' /\ \A q : Answered(q)' <=> Answered(q) \/ q = a.req
    BY <1>1, <2>1, OneMoreAnswer DEF Lost
  <2>3. PendingInv'
    BY <2>1 DEF PendingInv
  <2> QED BY <2>1, <2>2, <2>3 DEF IInv, Lost, NoneForgotten, Effect
<1> QED BY <1>3, <1>4, <1>5, <1>6 DEF Effect

LEMMA InitInv == Init => IInv /\ NoneForgotten
<1> SUFFICES ASSUME Init PROVE IInv /\ NoneForgotten
  OBVIOUS
<1>1. wire = <<>> /\ answers = <<>> /\ asked = {} /\ pending = NoReply
  BY DEF Init, GatewayInit
<1>2. sent \in [Run -> 0 .. ReplyLen] /\ cumulative \in BOOLEAN
  BY BoundAssumption DEF Init, GatewayInit
<1>3. WireInv
  BY <1>1, <1>2 DEF WireInv
<1>4. AnswersInv
  BY <1>1 DEF AnswersInv, AnsweredOnce, AnswerIsOwn
<1> QED BY <1>1, <1>3, <1>4 DEF IInv, PendingInv, NoneForgotten

\* What the server knows of its requests, replies and answers fits together.
THEOREM ServerInvariant == Spec => []IInv
<1>1. IInv /\ [Next]_vars => IInv'
  BY StepEffect, EffectKeeps
<1> QED BY <1>1, InitInv, PTL DEF Spec

\* Claude Code gets at most one response to each request
\* (mcp/mod.rs:711-866, 367-376).
THEOREM OneAnswerEach == Spec => []AnsweredOnce
<1>1. IInv => AnsweredOnce
  BY DEF IInv, AnswersInv
<1> QED BY <1>1, ServerInvariant, PTL

\* What is returned for a request is text of its own run, however many other
\* runs are broadcast (mcp/mod.rs:730-744).
THEOREM AnswersAreOwn == Spec => []AnswerIsOwn
<1>1. IInv => AnswerIsOwn
  BY DEF IInv, AnswersInv
<1> QED BY <1>1, ServerInvariant, PTL

\* When lines of stdin come in one read, each request is answered or pending
\* (mcp/mod.rs:606-620); the run McpSplit.cfg is the other case.
THEOREM NoRequestForgotten == ASSUME SplitLines = FALSE PROVE Spec => []NoneForgotten
<1>1. IInv /\ NoneForgotten /\ [Next]_vars => (IInv /\ NoneForgotten)'
  BY StepEffect, EffectKeeps
<1> QED BY <1>1, InitInv, PTL DEF Spec
=============================================================================
