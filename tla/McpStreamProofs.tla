--------------------------- MODULE McpStreamProofs ---------------------------
(***************************************************************************)
(* A reply that its lifecycle end completes is whole and was not announced *)
(* as somebody else's, for any number of calls and runs, any reply length  *)
(* and whatever else is broadcast; and a run that was announced has one    *)
(* line in the transcript, unless the store failed.                        *)
(*                                                                         *)
(* The argument is about the order of the frames of a run: the acceptance, *)
(* then the pieces, then the end, and every piece that was broadcast is in *)
(* the reply or still on the wire.                                         *)
(***************************************************************************)
EXTENDS McpServerProofs

-----------------------------------------------------------------------------
(* Frames of a run in a wire w.                                            *)

Delta(f, r)    == f.type = "delta" /\ f.run = r
Streamed(f, r) == f.type \in {"delta", "end"} /\ f.run = r
Opening(f, r)  == f.type = "accepted" /\ f.run = r

NoDelta(w, r)   == \A i \in DOMAIN w : ~Delta(w[i], r)
Announced(w, r) == \E i \in DOMAIN w : Opening(w[i], r)
NothingOf(w, r) == \A i \in DOMAIN w : ~Streamed(w[i], r) /\ ~Opening(w[i], r)

\* What is streamed of r comes behind its acceptance.
Ordered(w, r) == \A i \in DOMAIN w : Streamed(w[i], r) =>
                   \E j \in DOMAIN w : j < i /\ Opening(w[j], r)

\* No piece of a run comes behind its end.
EndsLast(w) == \A i, j \in DOMAIN w :
                 i < j /\ w[i].type = "end" => ~Delta(w[j], w[i].run)

\* The first n pieces of r are among those held or in w.
Collected(w, r, n, held) ==
  \A k \in 1 .. n : \/ <<r, k>> \in held
                    \/ \E i \in DOMAIN w : Delta(w[i], r) /\ w[i].seq = k

LEMMA AppendWire ==
  ASSUME NEW w \in Seq(Frame), NEW f \in Frame, NEW v, v = Append(w, f), NEW r
  PROVE  /\ NoDelta(w, r) /\ ~Delta(f, r) => NoDelta(v, r)
         /\ Announced(w, r) \/ Opening(f, r) => Announced(v, r)
         /\ NothingOf(w, r) /\ ~Streamed(f, r) /\ ~Opening(f, r) => NothingOf(v, r)
         /\ Ordered(w, r) /\ (Streamed(f, r) => Announced(w, r)) => Ordered(v, r)
         /\ EndsLast(w) /\ (\A i \in DOMAIN w : w[i].type = "end" => ~Delta(f, w[i].run))
              => EndsLast(v)
         /\ \A n \in Nat : \A held : Collected(w, r, n, held) =>
              /\ Collected(v, r, n, held)
              /\ Delta(f, r) /\ f.seq = n + 1 => Collected(v, r, n + 1, held)
<1>1. /\ Len(w) \in Nat /\ DOMAIN w = 1 .. Len(w)
      /\ DOMAIN v = 1 .. (Len(w) + 1) /\ v[Len(w) + 1] = f
      /\ \A i \in DOMAIN w : i \in DOMAIN v /\ v[i] = w[i]
      /\ \A i \in DOMAIN v : i \in DOMAIN w \/ i = Len(w) + 1
  OBVIOUS
<1>2. NoDelta(w, r) /\ ~Delta(f, r) => NoDelta(v, r)
  BY <1>1 DEF NoDelta
<1>3. Announced(w, r) \/ Opening(f, r) => Announced(v, r)
  BY <1>1 DEF Announced
<1>4. NothingOf(w, r) /\ ~Streamed(f, r) /\ ~Opening(f, r) => NothingOf(v, r)
  BY <1>1 DEF NothingOf
<1>5. Ordered(w, r) /\ (Streamed(f, r) => Announced(w, r)) => Ordered(v, r)
  BY <1>1 DEF Ordered, Announced
<1>6. EndsLast(w) /\ (\A i \in DOMAIN w : w[i].type = "end" => ~Delta(f, w[i].run))
        => EndsLast(v)
  BY <1>1 DEF EndsLast
<1>7. ASSUME NEW n \in Nat, NEW held, Collected(w, r, n, held)
      PROVE  /\ Collected(v, r, n, held)
             /\ Delta(f, r) /\ f.seq = n + 1 => Collected(v, r, n + 1, held)
  <2>1. Collected(v, r, n, held)
    BY <1>1, <1>7 DEF Collected
  <2>2. ASSUME Delta(f, r), f.seq = n + 1 PROVE Collected(v, r, n + 1, held)
    <3>1. \A k \in 1 .. (n + 1) : k \in 1 .. n \/ k = n + 1
      OBVIOUS
    <3> QED BY <1>1, <2>1, <2>2, <3>1, SMTT(20) DEF Collected
  <2> QED BY <2>1, <2>2
<1> QED BY <1>2, <1>3, <1>4, <1>5, <1>6, <1>7

LEMMA TailWire ==
  ASSUME NEW w \in Seq(Frame), w # <<>>, NEW v, v = Tail(w), NEW r
  PROVE  /\ NoDelta(w, r) => NoDelta(v, r)
         /\ Announced(w, r) => Opening(w[1], r) \/ Announced(v, r)
         /\ NothingOf(w, r) => NothingOf(v, r)
         /\ Ordered(w, r) => ~Streamed(w[1], r) /\ (Opening(w[1], r) \/ Ordered(v, r))
         /\ EndsLast(w) => EndsLast(v) /\ (w[1].type = "end" => NoDelta(v, w[1].run))
         /\ \A n \in Nat : \A held : Collected(w, r, n, held) =>
              /\ Collected(v, r, n, held \cup {<<w[1].run, w[1].seq>>})
              /\ Delta(w[1], r) \/ Collected(v, r, n, held)
<1>1. /\ Len(w) \in Nat /\ DOMAIN w = 1 .. Len(w) /\ 1 \in DOMAIN w
      /\ \A i \in DOMAIN v : i \in Nat /\ i >= 1 /\ i + 1 \in DOMAIN w /\ v[i] = w[i + 1]
      /\ \A i \in DOMAIN w : i = 1 \/ (i - 1 \in DOMAIN v /\ v[i - 1] = w[i])
  OBVIOUS
<1>2. NoDelta(w, r) => NoDelta(v, r)
  BY <1>1 DEF NoDelta
<1>3. Announced(w, r) => Opening(w[1], r) \/ Announced(v, r)
  BY <1>1 DEF Announced
<1>4. NothingOf(w, r) => NothingOf(v, r)
  BY <1>1 DEF NothingOf
<1>5. ASSUME Ordered(w, r) PROVE ~Streamed(w[1], r)
  BY <1>1, <1>5 DEF Ordered
<1>6. ASSUME Ordered(w, r), ~Opening(w[1], r) PROVE Ordered(v, r)
  <2> SUFFICES ASSUME NEW i \in DOMAIN v, Streamed(v[i], r)
               PROVE  \E j \in DOMAIN v : j < i /\ Opening(v[j], r)
    BY DEF Ordered
  <2>1. PICK j \in DOMAIN w : j < i + 1 /\ Opening(w[j], r)
    BY <1>1, <1>6 DEF Ordered
  <2>2. j # 1
    BY <1>6, <2>1
  <2>3. j - 1 \in DOMAIN v /\ v[j - 1] = w[j] /\ j - 1 < i
    BY <1>1, <2>1, <2>2
  <2> QED BY <2>1, <2>3
<1>7. EndsLast(w) => EndsLast(v) /\ (w[1].type = "end" => NoDelta(v, w[1].run))
  <2> SUFFICES ASSUME EndsLast(w)
               PROVE  EndsLast(v) /\ (w[1].type = "end" => NoDelta(v, w[1].run))
    OBVIOUS
  <2>1. EndsLast(v)
    BY <1>1 DEF EndsLast
  <2>2. w[1].type = "end" => NoDelta(v, w[1].run)
    BY <1>1 DEF EndsLast, NoDelta
  <2> QED BY <2>1, <2>2
<1>8. ASSUME NEW n \in Nat, NEW held, Collected(w, r, n, held)
      PROVE  /\ Collected(v, r, n, held \cup {<<w[1].run, w[1].seq>>})
             /\ Delta(w[1], r) \/ Collected(v, r, n, held)
  <2>1. ASSUME NEW k \in 1 .. n
        PROVE  \/ <<r, k>> \in held
               \/ Delta(w[1], r) /\ w[1].seq = k
               \/ \E i \in DOMAIN v : Delta(v[i], r) /\ v[i].seq = k
    BY <1>1, <1>8, ZenonT(40) DEF Collected
  <2>2. Delta(w[1], r) => w[1].run = r
    BY DEF Delta
  <2> QED BY <2>1, <2>2 DEF Collected
<1> QED BY <1>2, <1>3, <1>4, <1>5, <1>6, <1>7, <1>8

-----------------------------------------------------------------------------
(* The invariant.                                                          *)

Low  == {"none", "asked", "refused"}
High == {"accepted", "completed"}

StreamInv ==
  /\ ended \subseteq Run /\ \A r \in ended : sent[r] = ReplyLen
  /\ \A i \in DOMAIN wire : wire[i].type \in {"delta", "end"} =>
       wire[i].run \in Run /\ wire[i].text = cumulative
  /\ \A i \in DOMAIN wire : wire[i].type = "delta" => sent[wire[i].run] > 0
  /\ \A i \in DOMAIN wire : wire[i].type = "end" => wire[i].run \in ended
  /\ EndsLast(wire)

\* Nothing of an own run comes before its request was accepted.
ResInv ==
  /\ res \in [Own -> Low \cup High]
  /\ \A q \in Own : res[q] # "none" => q \in asked
  /\ \A q \in Own : res[q] \in Low => sent[q] = 0 /\ NothingOf(wire, q)

\* The acceptance of the pending request was taken, or is ahead of its pieces;
\* the pieces broadcast are in the reply or on the wire, and none was announced.
ReplyInv == pending # NoReply =>
  /\ pending.accepted <=> pending.run # NoRun
  /\ ~pending.accepted =>
       /\ Ordered(wire, pending.req)
       /\ res[pending.req] \in High => Announced(wire, pending.req)
  /\ ~cumulative => pending.final = {}
  /\ Collected(wire, pending.req, sent[pending.req], pending.deltas)
  /\ heard \cap Whole(pending.req) = {}

HeardInv == \A piece \in heard : piece[1] \in Run /\ sent[piece[1]] > 0

\* Of a run whose end completed a reply nothing is left to come.
EndInv == \A i \in DOMAIN answers : answers[i].kind = "end" =>
            answers[i].req \in ended /\ NoDelta(wire, answers[i].req)

SInv == IInv /\ StreamInv /\ ResInv /\ ReplyInv /\ HeardInv /\ EndInv /\ EndAnswerWhole

LEMMA InitStream == Init => SInv
<1> SUFFICES ASSUME Init PROVE SInv
  OBVIOUS
<1>1. /\ wire = <<>> /\ answers = <<>> /\ asked = {} /\ pending = NoReply /\ heard = {}
      /\ ended = {} /\ res = [r \in Own |-> "none"] /\ sent = [r \in Run |-> 0]
  BY DEF Init, GatewayInit
<1>2. StreamInv
  BY <1>1 DEF StreamInv, EndsLast
<1>3. ResInv
  BY <1>1, RunAssumption DEF ResInv, Low, NothingOf
<1>4. ReplyInv /\ HeardInv /\ EndInv /\ EndAnswerWhole
  BY <1>1 DEF ReplyInv, HeardInv, EndInv, EndAnswerWhole
<1> QED BY <1>2, <1>3, <1>4, InitInv DEF SInv

-----------------------------------------------------------------------------
(* The gateway.                                                            *)

\* A frame f the gateway pushes, and what it records with it.
Pushed(f) ==
  /\ f \in Frame /\ Push(f)
  /\ UNCHANGED <<cumulative, asked, pending, answers, heard>>
  /\ IF f.type = "delta" THEN /\ f.seq = sent[f.run] + 1 /\ sent' = [sent EXCEPT ![f.run] = @ + 1]
                          ELSE UNCHANGED sent
  /\ IF f.type = "end" THEN ended' = ended \cup {f.run} /\ sent[f.run] = ReplyLen
                        ELSE UNCHANGED ended
  /\ f.type \in {"delta", "end"} =>
       /\ f.run \in Run \ ended /\ f.text = cumulative
       /\ f.run \in Own => res[f.run] \in High
  /\ res' \in [Own -> Low \cup High]
  /\ \A q \in Own : /\ res'[q] = "none" <=> res[q] = "none"
                    /\ res[q] \in High => res'[q] \in High
                    /\ res'[q] \in High => res[q] \in High \/ Opening(f, q)
  /\ \A q \in Own : Opening(f, q) => res'[q] \in High

LEMMA PushKeeps ==
  ASSUME SInv, IInv', NEW f, Pushed(f)
  PROVE  SInv'
<1> USE RunAssumption, BoundAssumption
<1>1. /\ wire \in Seq(Frame) /\ f \in Frame /\ wire' = Append(wire, f)
      /\ sent \in [Run -> 0 .. ReplyLen] /\ sent' \in [Run -> 0 .. ReplyLen]
      /\ UNCHANGED <<cumulative, asked, pending, answers, heard>>
  BY DEF SInv, IInv, WireInv, Pushed, Push
<1>2. /\ \A i \in DOMAIN wire : i \in DOMAIN wire' /\ wire'[i] = wire[i]
      /\ \A i \in DOMAIN wire' : i \in DOMAIN wire \/ wire'[i] = f
  BY <1>1
<1>3. /\ \A r \in Run : sent'[r] >= sent[r] /\ (sent'[r] # sent[r] => Delta(f, r))
      /\ \A r \in Run : Delta(f, r) => f.seq = sent[r] + 1 /\ sent'[r] = sent[r] + 1
      /\ ended \subseteq ended' /\ \A r \in ended' \ ended : f.type = "end" /\ f.run = r
      /\ ended \subseteq Run
  <2>1. CASE f.type = "delta"
    <3>1. /\ f.run \in Run /\ f.seq = sent[f.run] + 1 /\ ended' = ended
          /\ sent' = [sent EXCEPT ![f.run] = @ + 1]
      BY <2>1 DEF Pushed
    <3>2. \A r \in Run : sent[r] \in Nat /\ sent'[r] = IF r = f.run THEN sent[r] + 1 ELSE sent[r]
      BY <1>1, <3>1
    <3> QED BY <2>1, <3>1, <3>2 DEF Delta, SInv, StreamInv
  <2>2. CASE f.type # "delta"
    <3>1. sent' = sent /\ \A r \in Run : sent[r] \in Nat
      BY <1>1, <2>2 DEF Pushed
    <3> QED BY <2>2, <3>1 DEF Pushed, Delta, SInv, StreamInv
  <2> QED BY <2>1, <2>2
<1>4. \A r \in ended : ~Delta(f, r)
  BY DEF Pushed, Delta
<1>5. StreamInv'
  <2>1. ended' \subseteq Run /\ \A r \in ended' : sent'[r] = ReplyLen
    BY <1>1, <1>3, <1>4 DEF SInv, StreamInv, Pushed
  <2>2. \A i \in DOMAIN wire' : wire'[i].type \in {"delta", "end"} =>
          wire'[i].run \in Run /\ wire'[i].text = cumulative'
    BY <1>1, <1>2 DEF SInv, StreamInv, Pushed
  <2>3. \A i \in DOMAIN wire' : wire'[i].type = "delta" => sent'[wire'[i].run] > 0
    <3>1. f.type = "delta" => f.run \in Run /\ sent'[f.run] > 0
      BY <1>1, <1>3 DEF Pushed, Delta
    <3>2. \A i \in DOMAIN wire : wire[i].type = "delta" => sent'[wire[i].run] > 0
      BY <1>1, <1>3 DEF SInv, StreamInv
    <3> QED BY <1>2, <3>1, <3>2
  <2>4. \A i \in DOMAIN wire' : wire'[i].type = "end" => wire'[i].run \in ended'
    BY <1>2, <1>3 DEF SInv, StreamInv, Pushed
  <2>5. EndsLast(wire)'
    <3>1. EndsLast(wire) /\ \A i \in DOMAIN wire : wire[i].type = "end" => ~Delta(f, wire[i].run)
      BY <1>4 DEF SInv, StreamInv
    <3> QED BY <1>1, <3>1, AppendWire
  <2> QED BY <2>1, <2>2, <2>3, <2>4, <2>5 DEF StreamInv
<1>6. ResInv'
  <2> SUFFICES ASSUME NEW q \in Own, res'[q] \in Low
               PROVE  sent'[q] = 0 /\ NothingOf(wire', q)
    BY <1>1 DEF ResInv, SInv, Pushed
  <2>1. res[q] \in Low
    BY DEF Pushed, SInv, ResInv, Low, High
  <2>2. ~Streamed(f, q) /\ ~Opening(f, q)
    BY <2>1 DEF Pushed, Streamed, Low, High
  <2>3. ~Delta(f, q) /\ sent[q] = 0 /\ NothingOf(wire, q)
    BY <2>1, <2>2 DEF Streamed, Delta, SInv, ResInv
  <2> QED BY <1>1, <1>3, <2>2, <2>3, AppendWire
<1>7. ReplyInv'
  <2> SUFFICES ASSUME pending # NoReply PROVE ReplyInv'
    BY <1>1 DEF ReplyInv
  <2> DEFINE q == pending.req
  <2>1. q \in Own /\ q \in Run
    BY DEF SInv, IInv, PendingInv, OwnReply, Reply
  <2>2. ~pending.accepted =>
          Ordered(wire', q) /\ (res'[q] \in High => Announced(wire', q))
    <3> SUFFICES ASSUME ~pending.accepted
                 PROVE  Ordered(wire', q) /\ (res'[q] \in High => Announced(wire', q))
      OBVIOUS
    <3>1. Ordered(wire, q) /\ (res[q] \in High => Announced(wire, q))
      BY DEF SInv, ReplyInv
    <3>2. Streamed(f, q) => Announced(wire, q)
      BY <2>1, <3>1 DEF Pushed, Streamed
    <3>3. res'[q] \in High => Announced(wire, q) \/ Opening(f, q)
      BY <2>1, <3>1 DEF Pushed
    <3> QED BY <1>1, <3>1, <3>2, <3>3, AppendWire
  <2>3. Collected(wire', q, sent'[q], pending.deltas)
    <3>1. Collected(wire, q, sent[q], pending.deltas) /\ sent[q] \in Nat
      BY <1>1, <2>1 DEF SInv, ReplyInv
    <3>2. CASE Delta(f, q)
      <4>1. f.seq = sent[q] + 1 /\ sent'[q] = sent[q] + 1
        BY <1>3, <2>1, <3>2
      <4>2. Collected(wire', q, sent[q] + 1, pending.deltas)
        <5> HIDE DEF q
        <5> QED BY <1>1, <3>1, <3>2, <4>1, AppendWire
      <4> QED BY <4>1, <4>2
    <3>3. CASE ~Delta(f, q)
      <4>1. sent'[q] = sent[q]
        BY <1>3, <2>1, <3>3
      <4>2. Collected(wire', q, sent[q], pending.deltas)
        <5> HIDE DEF q
        <5> QED BY <1>1, <3>1, AppendWire
      <4> QED BY <4>1, <4>2
    <3> QED BY <3>2, <3>3
  <2>4. /\ pending.accepted <=> pending.run # NoRun
        /\ ~cumulative => pending.final = {}
        /\ heard \cap Whole(q) = {}
    BY DEF SInv, ReplyInv
  <2> QED BY <1>1, <2>2, <2>3, <2>4 DEF ReplyInv, Whole, PiecesUpto
<1>8. HeardInv'
  BY <1>1, <1>3 DEF SInv, HeardInv
<1>9. EndInv'
  BY <1>1, <1>3, <1>4, AppendWire, ZenonT(40) DEF SInv, EndInv
<1>10. EndAnswerWhole'
  BY <1>1 DEF SInv, EndAnswerWhole, Whole, PiecesUpto
<1> QED BY <1>5, <1>6, <1>7, <1>8, <1>9, <1>10 DEF SInv

LEMMA GatewayStream ==
  ASSUME SInv, IInv', GatewayNext, UNCHANGED serverVars
  PROVE  SInv'
<1> USE RunAssumption, BoundAssumption DEF serverVars, Low, High
<1>1. /\ res \in [Own -> Low \cup High] /\ sent \in [Run -> 0 .. ReplyLen] /\ WireInv
      /\ UNCHANGED <<asked, pending, answers, heard>>
  BY DEF SInv, ResInv, IInv, WireInv
<1>2. ASSUME NEW r \in Own, Accept(r) PROVE SInv'
  <2>1. Pushed(ResFrame("accepted", r, FALSE))
    BY <1>1, <1>2, FramesFit DEF Accept, Pushed, ResFrame, Opening
  <2> QED BY <2>1, PushKeeps
<1>3. ASSUME NEW r \in Own, AcceptWithText(r) PROVE SInv'
  <2>1. Pushed(ResFrame("accepted", r, TRUE))
    BY <1>1, <1>3, FramesFit DEF AcceptWithText, Pushed, ResFrame, Opening
  <2> QED BY <2>1, PushKeeps
<1>4. ASSUME NEW r \in Own, Refuse(r) PROVE SInv'
  <2>1. Pushed(ResFrame("refused", r, FALSE))
    BY <1>1, <1>4, FramesFit DEF Refuse, Pushed, ResFrame, Opening
  <2> QED BY <2>1, PushKeeps
<1>5. ASSUME NEW r \in Own, NEW x \in BOOLEAN, Complete(r, x) PROVE SInv'
  <2>1. Pushed(ResFrame("completed", r, x))
    BY <1>1, <1>5, FramesFit DEF Complete, Pushed, ResFrame, Opening
  <2> QED BY <2>1, PushKeeps
<1>6. ASSUME NEW r \in Run, Emit(r) PROVE SInv'
  <2>1. sent[r] + 1 \in 1 .. ReplyLen
    BY <1>1, <1>6 DEF Emit
  <2>2. Pushed(DeltaFrame(r, sent[r] + 1))
    BY <1>1, <1>6, <2>1, FramesFit DEF Emit, Streams, Pushed, DeltaFrame, Opening
  <2> QED BY <2>2, PushKeeps
<1>7. ASSUME NEW r \in Run, End(r) PROVE SInv'
  <2>1. Pushed(EndFrame(r))
    BY <1>1, <1>7, FramesFit DEF End, Streams, Pushed, EndFrame, Opening
  <2> QED BY <2>1, PushKeeps
<1>8. CASE Noise
  <2>1. Pushed(NoiseFrame)
    BY <1>1, <1>8, FramesFit DEF Noise, Pushed, NoiseFrame, Opening
  <2> QED BY <2>1, PushKeeps
<1>9. CASE Drop
  BY <1>1, <1>9 DEF Drop, SInv, StreamInv, EndsLast, ResInv, NothingOf, ReplyInv, Ordered,
     Announced, Collected, HeardInv, EndInv, NoDelta, EndAnswerWhole, Whole, PiecesUpto,
     Delta, Streamed, Opening
<1> QED BY <1>2, <1>3, <1>4, <1>5, <1>6, <1>7, <1>8, <1>9 DEF GatewayNext

-----------------------------------------------------------------------------
(* The server.                                                             *)

LEMMA PendingTyped ==
  ASSUME SInv, pending # NoReply
  PROVE  /\ pending \in Reply /\ pending.req \in Own /\ pending.req \in Run
         /\ pending.req # NoRun /\ pending.run \in {NoRun, pending.req}
         /\ pending.deltas \subseteq Whole(pending.req)
BY RunAssumption DEF SInv, IInv, PendingInv, OwnReply, Reply

\* Answers that leave the old ones true.
LEMMA AnswersKeep ==
  ASSUME SInv, ended' = ended, \A r : NoDelta(wire, r) => NoDelta(wire', r),
         \A i \in DOMAIN answers :
           answers[i].kind = "end" => heard' \cap Whole(answers[i].req) = {},
         \/ answers' = answers
         \/ \E a : /\ answers' = Append(answers, a)
                   /\ a.kind = "end" =>
                        /\ a.req \in ended /\ NoDelta(wire', a.req)
                        /\ a.text = Whole(a.req) /\ heard' \cap Whole(a.req) = {}
  PROVE  EndInv' /\ EndAnswerWhole'
<1>1. answers \in Seq(Answer)
  BY DEF SInv, IInv, AnswersInv
<1>2. CASE answers' = answers
  BY <1>2 DEF SInv, EndInv, EndAnswerWhole, Whole, PiecesUpto
<1>3. ASSUME NEW a, answers' = Append(answers, a),
             a.kind = "end" => /\ a.req \in ended /\ NoDelta(wire', a.req)
                               /\ a.text = Whole(a.req) /\ heard' \cap Whole(a.req) = {}
      PROVE  EndInv' /\ EndAnswerWhole'
  <2>1. \A i \in DOMAIN answers' :
          (i \in DOMAIN answers /\ answers'[i] = answers[i]) \/ answers'[i] = a
    BY <1>1, <1>3
  <2>2. EndInv'
    BY <1>3, <2>1 DEF SInv, EndInv
  <2>3. EndAnswerWhole'
    BY <1>3, <2>1 DEF SInv, EndAnswerWhole, Whole, PiecesUpto
  <2> QED BY <2>2, <2>3
<1>4. CASE answers' # answers
  <2>1. PICK a : /\ answers' = Append(answers, a)
                 /\ a.kind = "end" =>
                      /\ a.req \in ended /\ NoDelta(wire', a.req)
                      /\ a.text = Whole(a.req) /\ heard' \cap Whole(a.req) = {}
    BY <1>4
  <2> QED BY <1>3, <2>1
<1> QED BY <1>2, <1>4

\* A step that takes no frame, starts no reply and completes none.
LEMMA StillKeeps ==
  ASSUME SInv, IInv', UNCHANGED <<gatewayVars, heard>>, asked \subseteq asked',
         pending' \in {pending, NoReply},
         answers' = answers \/ \E a : answers' = Append(answers, a) /\ a.kind # "end"
  PROVE  SInv'
<1> USE DEF gatewayVars
<1>1. StreamInv' /\ HeardInv'
  BY DEF SInv, StreamInv, HeardInv
<1>2. ResInv'
  BY DEF SInv, ResInv
<1>3. ReplyInv'
  BY DEF SInv, ReplyInv, Whole, PiecesUpto
<1>4. EndInv' /\ EndAnswerWhole'
  <2>1. \A i \in DOMAIN answers :
          answers[i].kind = "end" => heard' \cap Whole(answers[i].req) = {}
    BY DEF SInv, EndAnswerWhole
  <2> QED BY <2>1, AnswersKeep
<1> QED BY <1>1, <1>2, <1>3, <1>4 DEF SInv

\* Of a request that was not asked for before, nothing was broadcast.
LEMMA StartKeeps ==
  ASSUME SInv, IInv', NEW q \in Own, StartReply(q)
  PROVE  SInv'
<1>1. /\ q \notin asked /\ asked' = asked \cup {q} /\ pending = NoReply
      /\ UNCHANGED <<wire, sent, ended, cumulative, heard>>
  BY DEF StartReply, Read
<1>2. CASE ~open
  <2>1. UNCHANGED <<gatewayVars, heard, pending>>
    BY <1>2 DEF StartReply, gatewayVars
  <2>2. \E a : answers' = Append(answers, a) /\ a.kind # "end"
    <3> DEFINE a == [req |-> q, text |-> {}, kind |-> "unsent"]
    <3>1. answers' = Append(answers, a) /\ a.kind # "end"
      BY <1>2 DEF StartReply, Says
    <3> QED BY <3>1
  <2> QED BY <1>1, <2>1, <2>2, StillKeeps
<1>3. CASE open
  <2>1. /\ pending' = NewReply(q) /\ answers' = answers
        /\ res' = [res EXCEPT ![q] = "asked"]
    BY <1>3 DEF StartReply
  <2>2. res[q] = "none" /\ res \in [Own -> Low \cup High]
    BY <1>1 DEF SInv, ResInv
  <2>3. sent[q] = 0 /\ NothingOf(wire, q)
    BY <2>2 DEF SInv, ResInv, Low
  <2>4. StreamInv' /\ HeardInv'
    BY <1>1 DEF SInv, StreamInv, HeardInv
  <2>5. ResInv'
    BY <1>1, <2>1, <2>2, <2>3 DEF SInv, ResInv, Low, High
  <2>6. ReplyInv'
    <3>1. /\ NewReply(q).req = q /\ NewReply(q).run = NoRun /\ NewReply(q).accepted = FALSE
          /\ NewReply(q).final = {} /\ NewReply(q).deltas = {}
      BY DEF NewReply
    <3>2. Ordered(wire, q)
      BY <2>3 DEF Ordered, NothingOf
    <3>3. Collected(wire, q, sent[q], {})
      BY <2>3 DEF Collected
    <3>4. heard \cap Whole(q) = {}
      BY <2>3 DEF SInv, HeardInv, Whole, PiecesUpto
    <3>5. res'[q] \notin High
      BY <2>1, <2>2 DEF High
    <3> QED BY <1>1, <2>1, <3>1, <3>2, <3>3, <3>4, <3>5 DEF ReplyInv, Whole, PiecesUpto
  <2>7. EndInv' /\ EndAnswerWhole'
    BY <1>1, <2>1 DEF SInv, EndInv, EndAnswerWhole, Whole, PiecesUpto
  <2> QED BY <2>4, <2>5, <2>6, <2>7 DEF SInv
<1> QED BY <1>2, <1>3

\* A frame taken from the wire.
LEMMA TakeStream ==
  ASSUME SInv, NEW type, Take(type)
  PROVE  /\ wire \in Seq(Frame) /\ wire # <<>> /\ wire' = Tail(wire) /\ Got = wire[1]
         /\ Got \in Frame /\ Got.type = type /\ 1 \in DOMAIN wire
         /\ UNCHANGED <<res, sent, ended, cumulative>> /\ asked \subseteq asked'
         /\ \A i \in DOMAIN wire' : i + 1 \in DOMAIN wire /\ wire'[i] = wire[i + 1]
         /\ \A r : NoDelta(wire, r) => NoDelta(wire', r)
         /\ StreamInv' /\ ResInv'
<1>1. /\ wire \in Seq(Frame) /\ wire # <<>> /\ wire' = Tail(wire) /\ Got = wire[1]
      /\ Got.type = type /\ UNCHANGED <<res, sent, ended, cumulative>>
  BY DEF Take, Got, SInv, IInv, WireInv
<1>2. asked \subseteq asked' /\ Got \in Frame
  BY TakeFits DEF SInv, IInv, AnswersInv, Lost
<1>3. \A i \in DOMAIN wire' : i + 1 \in DOMAIN wire /\ wire'[i] = wire[i + 1]
  BY <1>1
<1>4. \A r : NoDelta(wire, r) => NoDelta(wire', r)
  BY <1>1, TailWire
<1>5. StreamInv'
  <2>1. EndsLast(wire')
    BY <1>1, TailWire DEF SInv, StreamInv
  <2>2. ended' \subseteq Run /\ \A r \in ended' : sent'[r] = ReplyLen
    BY <1>1 DEF SInv, StreamInv
  <2>3. \A i \in DOMAIN wire' : wire'[i].type \in {"delta", "end"} =>
          wire'[i].run \in Run /\ wire'[i].text = cumulative'
    BY <1>1, <1>3 DEF SInv, StreamInv
  <2>4. /\ \A i \in DOMAIN wire' : wire'[i].type = "delta" => sent'[wire'[i].run] > 0
        /\ \A i \in DOMAIN wire' : wire'[i].type = "end" => wire'[i].run \in ended'
    BY <1>1, <1>3 DEF SInv, StreamInv
  <2> QED BY <2>1, <2>2, <2>3, <2>4 DEF StreamInv
<1>6. ResInv'
  <2>1. \A q \in Own : NothingOf(wire, q) => NothingOf(wire', q)
    BY <1>1, TailWire
  <2> QED BY <1>1, <1>2, <2>1 DEF SInv, ResInv
<1>7. 1 \in DOMAIN wire
  BY <1>1
<1> QED BY <1>1, <1>2, <1>3, <1>4, <1>5, <1>6, <1>7

\* A frame that leaves a reply waiting, as p.
LEMMA ReplyKept ==
  ASSUME SInv, NEW type, Take(type), pending # NoReply,
         NEW p, pending' = p, p.req = pending.req,
         p.accepted <=> p.run # NoRun,
         ~p.accepted => ~pending.accepted /\ type # "accepted",
         ~cumulative => p.final = {},
         pending.deltas \subseteq p.deltas,
         Delta(Got, p.req) => <<Got.run, Got.seq>> \in p.deltas,
         heard' \cap Whole(pending.req) = {}
  PROVE  ReplyInv'
<1> DEFINE q == pending.req
<1>1. /\ wire \in Seq(Frame) /\ wire # <<>> /\ wire' = Tail(wire) /\ Got = wire[1]
      /\ Got.type = type /\ UNCHANGED <<res, sent, ended, cumulative>>
  BY TakeStream
<1>2. q \in Own /\ sent[q] \in Nat
  BY PendingTyped, RunAssumption, BoundAssumption DEF SInv, IInv, WireInv
<1>3. ~p.accepted => Ordered(wire', q) /\ (res[q] \in High => Announced(wire', q))
  <2> SUFFICES ASSUME ~p.accepted
               PROVE  Ordered(wire', q) /\ (res[q] \in High => Announced(wire', q))
    OBVIOUS
  <2>1. Ordered(wire, q) /\ (res[q] \in High => Announced(wire, q))
    BY DEF SInv, ReplyInv
  <2>2. ~Opening(wire[1], q)
    BY <1>1 DEF Opening
  <2> HIDE DEF q
  <2> QED BY <1>1, <2>1, <2>2, TailWire
<1>4. Collected(wire', q, sent[q], p.deltas)
  <2>1. Collected(wire, q, sent[q], pending.deltas)
    BY DEF SInv, ReplyInv
  <2>2. Collected(wire, q, sent[q], p.deltas)
    BY <2>1 DEF Collected
  <2>3. CASE Delta(wire[1], q)
    <3>1. Collected(wire', q, sent[q], p.deltas \cup {<<wire[1].run, wire[1].seq>>})
      <4> HIDE DEF q
      <4> QED BY <1>1, <1>2, <2>2, TailWire
    <3>2. p.deltas \cup {<<wire[1].run, wire[1].seq>>} = p.deltas
      BY <1>1, <2>3
    <3> QED BY <3>1, <3>2
  <2>4. CASE ~Delta(wire[1], q)
    <3> HIDE DEF q
    <3> QED BY <1>1, <1>2, <2>2, <2>4, TailWire
  <2> QED BY <2>3, <2>4
<1> QED BY <1>1, <1>3, <1>4 DEF ReplyInv, Whole, PiecesUpto

\* What is left to show of a frame once its reply and its answer are settled.
LEMMA TakenKeeps ==
  ASSUME SInv, IInv', NEW type, Take(type), heard' = heard, ReplyInv',
         answers' = answers \/ \E a : answers' = Append(answers, a) /\ a.kind # "end"
  PROVE  SInv'
<1>1. StreamInv' /\ ResInv' /\ UNCHANGED <<sent, ended>>
  BY TakeStream
<1>2. HeardInv'
  BY <1>1 DEF SInv, HeardInv
<1>3. EndInv' /\ EndAnswerWhole'
  <2>1. /\ \A r : NoDelta(wire, r) => NoDelta(wire', r)
        /\ \A i \in DOMAIN answers :
             answers[i].kind = "end" => heard' \cap Whole(answers[i].req) = {}
    BY TakeStream DEF SInv, EndAnswerWhole
  <2> QED BY <1>1, <2>1, AnswersKeep
<1> QED BY <1>1, <1>2, <1>3 DEF SInv

\* complete_pending_reply for a Res.
LEMMA ResCompletes ==
  ASSUME SInv, IInv', NEW type, Take(type), heard' = heard,
         NEW p, NEW kind, kind # "end", CompletePending(p, kind)
  PROVE  SInv'
<1>1. pending' = NoReply
  BY DEF CompletePending
<1>2. \E a : answers' = Append(answers, a) /\ a.kind # "end"
  <2> DEFINE a == [req |-> p.req, text |-> Assembled(p), kind |-> kind]
  <2>1. answers' = Append(answers, a) /\ a.kind # "end"
    BY DEF CompletePending, Says
  <2> QED BY <2>1
<1>3. ReplyInv'
  BY <1>1 DEF ReplyInv
<1> QED BY <1>2, <1>3, TakenKeeps

\* Without cumulative text a piece or an end brings no final text.
LEMMA PlainFrame ==
  ASSUME SInv, NEW type \in {"delta", "end"}, Take(type)
  PROVE  /\ Got.run \in Run /\ Got.text = cumulative
         /\ ~cumulative => \A old : Latest(old) = old
         /\ Got.type = "delta" => sent[Got.run] > 0
         /\ Got.type = "end" => Got.run \in ended /\ sent[Got.run] = ReplyLen
<1>1. 1 \in DOMAIN wire /\ Got = wire[1] /\ Got.type = type
  BY TakeStream
<1>2. Got.run \in Run /\ Got.text = cumulative
  BY <1>1 DEF SInv, StreamInv
<1>3. ~cumulative => \A old : Latest(old) = old
  BY <1>2 DEF Latest, GotText
<1>4. /\ Got.type = "delta" => sent[Got.run] > 0
      /\ Got.type = "end" => Got.run \in ended /\ sent[Got.run] = ReplyLen
  BY <1>1 DEF SInv, StreamInv
<1> QED BY <1>2, <1>3, <1>4

LEMMA MatchesOwn ==
  ASSUME SInv, Matches
  PROVE  pending # NoReply /\ Got.run = pending.req /\ pending.run = Got.run /\ pending.accepted
BY PendingTyped DEF Matches, SInv, ReplyInv

LEMMA DeltaKeeps == ASSUME SInv, IInv', RecvDelta PROVE SInv'
<1> DEFINE p == [pending EXCEPT !.deltas = @ \cup {<<Got.run, Got.seq>>},
                                !.final = Latest(@)]
<1>1. Take("delta") /\ Matches /\ pending' = p /\ answers' = answers /\ heard' = heard
  BY DEF RecvDelta, KeepPending
<1>2. pending \in Reply /\ pending # NoReply /\ pending.accepted
  BY <1>1, MatchesOwn, PendingTyped
<1>3. /\ p.req = pending.req /\ p.run = pending.run /\ p.accepted = pending.accepted
      /\ p.deltas = pending.deltas \cup {<<Got.run, Got.seq>>}
      /\ p.final = Latest(pending.final)
  BY <1>2 DEF Reply
<1>4. ~cumulative => p.final = {}
  BY <1>1, <1>2, <1>3, PlainFrame DEF SInv, ReplyInv
<1>5. /\ p.accepted <=> p.run # NoRun
      /\ heard' \cap Whole(pending.req) = {}
  BY <1>1, <1>2, <1>3 DEF SInv, ReplyInv
<1>6. ReplyInv'
  <2>1. /\ pending.deltas \subseteq p.deltas /\ p.accepted
        /\ <<Got.run, Got.seq>> \in p.deltas
    BY <1>2, <1>3
  <2> HIDE DEF p
  <2> QED BY <1>1, <1>2, <1>3, <1>4, <1>5, <2>1, ReplyKept
<1> QED BY <1>1, <1>6, TakenKeeps

\* A piece that goes out as unsolicited is of no own reply, pending or whole.
LEMMA EmitKeeps == ASSUME SInv, IInv', EmitDelta PROVE SInv'
<1>1. /\ Take("delta") /\ ~Matches /\ pending' = pending /\ answers' = answers
      /\ heard' = heard \cup {<<Got.run, Got.seq>>}
  BY DEF EmitDelta
<1>2. /\ wire \in Seq(Frame) /\ wire # <<>> /\ Got = wire[1] /\ 1 \in DOMAIN wire
      /\ Delta(wire[1], Got.run) /\ StreamInv' /\ ResInv' /\ UNCHANGED <<sent, ended>>
  BY <1>1, TakeStream DEF Delta
<1>3. Got.run \in Run /\ sent[Got.run] > 0
  BY <1>1, PlainFrame, TakeStream
<1>4. HeardInv'
  BY <1>1, <1>2, <1>3 DEF SInv, HeardInv
<1>5. pending # NoReply => Got.run # pending.req
  <2> SUFFICES ASSUME pending # NoReply, Got.run = pending.req PROVE FALSE
    OBVIOUS
  <2>1. pending.run = NoRun
    BY <1>1, PendingTyped DEF Matches
  <2>2. Ordered(wire, Got.run)
    BY <2>1 DEF SInv, ReplyInv
  <2>3. Streamed(wire[1], Got.run)
    BY <1>2 DEF Delta, Streamed
  <2> QED BY <1>2, <2>2, <2>3, TailWire
<1>6. \A r : r # Got.run /\ heard \cap Whole(r) = {} => heard' \cap Whole(r) = {}
  BY <1>1 DEF Whole, PiecesUpto
<1>7. ReplyInv'
  <2> SUFFICES ASSUME pending # NoReply PROVE ReplyInv'
    BY <1>1 DEF ReplyInv
  <2>1. /\ pending.accepted <=> pending.run # NoRun
        /\ ~cumulative => pending.final = {}
        /\ heard' \cap Whole(pending.req) = {}
    BY <1>5, <1>6 DEF SInv, ReplyInv
  <2>2. ~Delta(Got, pending.req)
    BY <1>5 DEF Delta
  <2> QED BY <1>1, <2>1, <2>2, ReplyKept
<1>8. EndInv' /\ EndAnswerWhole'
  <2>1. \A i \in DOMAIN answers :
          answers[i].kind = "end" => heard' \cap Whole(answers[i].req) = {}
    <3> SUFFICES ASSUME NEW i \in DOMAIN answers, answers[i].kind = "end"
                 PROVE  heard' \cap Whole(answers[i].req) = {}
      OBVIOUS
    <3>1. NoDelta(wire, answers[i].req) /\ heard \cap Whole(answers[i].req) = {}
      BY DEF SInv, EndInv, EndAnswerWhole
    <3>2. answers[i].req # Got.run
      BY <1>2, <3>1 DEF NoDelta
    <3> QED BY <1>6, <3>1, <3>2
  <2>2. \A r : NoDelta(wire, r) => NoDelta(wire', r)
    BY <1>1, TakeStream
  <2> QED BY <1>1, <1>2, <2>1, <2>2, AnswersKeep
<1> QED BY <1>2, <1>4, <1>7, <1>8 DEF SInv

\* The end finds every piece of its run in the reply.
LEMMA EndKeeps == ASSUME SInv, IInv', RecvEnd PROVE SInv'
<1> DEFINE q == pending.req
           p == [pending EXCEPT !.final = Latest(@)]
           a == [req |-> q, text |-> Assembled(p), kind |-> "end"]
<1>1. Take("end") /\ Matches /\ CompletePending(p, "end") /\ heard' = heard
  BY DEF RecvEnd
<1>2. /\ pending \in Reply /\ pending # NoReply /\ q \in Run /\ Got.run = q
      /\ pending.deltas \subseteq Whole(q)
  BY <1>1, MatchesOwn, PendingTyped
<1>3. /\ p.req = q /\ p.deltas = pending.deltas /\ p.final = Latest(pending.final)
  BY <1>2 DEF Reply
<1>4. /\ wire \in Seq(Frame) /\ wire # <<>> /\ Got = wire[1] /\ Got.type = "end"
      /\ wire' = Tail(wire) /\ StreamInv' /\ ResInv' /\ UNCHANGED <<sent, ended>>
      /\ \A r : NoDelta(wire, r) => NoDelta(wire', r)
  BY <1>1, TakeStream
<1>5. /\ Got.text = cumulative /\ q \in ended /\ sent[q] = ReplyLen
      /\ ~cumulative => p.final = {}
  BY <1>1, <1>2, <1>3, <1>4, PlainFrame DEF SInv, ReplyInv
<1>6. NoDelta(wire', q)
  BY <1>2, <1>4, TailWire DEF SInv, StreamInv
<1>7. Assembled(p) = Whole(q)
  <2>1. CASE cumulative
    <3>1. GotText = Whole(q)
      BY <1>2, <1>4, <1>5, <2>1 DEF GotText, GotLen, Whole
    <3>2. <<q, 1>> \in Whole(q)
      BY BoundAssumption DEF Whole, PiecesUpto
    <3>3. p.final = Whole(q) /\ p.final # {}
      BY <1>3, <3>1, <3>2 DEF Latest
    <3> HIDE DEF p
    <3> QED BY <3>3 DEF Assembled
  <2>2. CASE ~cumulative
    <3>1. Assembled(p) = pending.deltas
      <4> HIDE DEF p
      <4> QED BY <1>3, <1>5, <2>2 DEF Assembled
    <3>2. Collected(wire, q, ReplyLen, pending.deltas)
      BY <1>2, <1>5 DEF SInv, ReplyInv
    <3>3. Collected(wire', q, ReplyLen, pending.deltas)
      <4>1. ~Delta(wire[1], q) /\ ReplyLen \in Nat
        BY <1>4, BoundAssumption DEF Delta
      <4> HIDE DEF q
      <4> QED BY <1>4, <3>2, <4>1, TailWire
    <3>4. \A k \in 1 .. ReplyLen : <<q, k>> \in pending.deltas
      <4> HIDE DEF q
      <4> QED BY <1>6, <3>3 DEF Collected, NoDelta
    <3>5. Whole(q) \subseteq pending.deltas
      BY <3>4 DEF Whole, PiecesUpto
    <3> QED BY <1>2, <3>1, <3>5
  <2> QED BY <2>1, <2>2
<1>8. pending' = NoReply /\ answers' = Append(answers, a)
  BY <1>1, <1>3 DEF CompletePending, Says
<1>9. EndInv' /\ EndAnswerWhole'
  <2>1. a.req = q /\ a.text = Whole(q) /\ heard' \cap Whole(q) = {}
    BY <1>1, <1>2, <1>7 DEF SInv, ReplyInv
  <2>2. \A i \in DOMAIN answers :
          answers[i].kind = "end" => heard' \cap Whole(answers[i].req) = {}
    BY <1>1 DEF SInv, EndAnswerWhole
  <2> HIDE DEF a, q
  <2> QED BY <1>4, <1>5, <1>6, <1>8, <2>1, <2>2, AnswersKeep
<1>10. ReplyInv' /\ HeardInv'
  BY <1>1, <1>4, <1>8 DEF SInv, ReplyInv, HeardInv
<1> QED BY <1>4, <1>9, <1>10 DEF SInv

LEMMA FrameKeeps == ASSUME SInv, IInv', HandleFrame PROVE SInv'
<1>1. CASE RecvDelta \/ RecvEnd \/ EmitDelta
  BY <1>1, DeltaKeeps, EndKeeps, EmitKeeps
<1>2. CASE RecvAccepted
  <2> DEFINE p == [pending EXCEPT !.run = Got.run, !.accepted = TRUE, !.final = Latest(@)]
  <2>1. /\ Take("accepted") /\ heard' = heard /\ pending # NoReply /\ Got.run = pending.req
        /\ IF p.final # {} THEN CompletePending(p, "accepted") ELSE KeepPending(p)
    BY <1>2 DEF RecvAccepted, Answers
  <2>2. CASE p.final # {}
    BY <2>1, <2>2, ResCompletes
  <2>3. CASE p.final = {}
    <3>1. pending' = p /\ answers' = answers
      BY <2>1, <2>3 DEF KeepPending
    <3>2. /\ p.req = pending.req /\ p.accepted /\ p.deltas = pending.deltas
          /\ p.run # NoRun
      BY <2>1, PendingTyped DEF Reply
    <3>3. ~Delta(Got, p.req) /\ heard' \cap Whole(pending.req) = {}
      BY <2>1, TakeStream DEF Delta, SInv, ReplyInv
    <3>4. ReplyInv'
      <4> HIDE DEF p
      <4> QED BY <2>1, <2>3, <3>1, <3>2, <3>3, ReplyKept
    <3> QED BY <2>1, <3>1, <3>4, TakenKeeps
  <2> QED BY <2>2, <2>3
<1>3. CASE RecvCompleted
  <2> DEFINE p == [pending EXCEPT !.final = Latest(@)]
  <2>1. /\ Take("completed") /\ heard' = heard /\ pending # NoReply /\ pending.accepted
        /\ IF p.final # {} THEN CompletePending(p, "completed") ELSE KeepPending(p)
    BY <1>3 DEF RecvCompleted, Answers
  <2>2. CASE p.final # {}
    BY <2>1, <2>2, ResCompletes
  <2>3. CASE p.final = {}
    <3>1. pending' = p /\ answers' = answers
      BY <2>1, <2>3 DEF KeepPending
    <3>2. /\ p.req = pending.req /\ p.accepted = pending.accepted
          /\ p.deltas = pending.deltas /\ p.run = pending.run
      BY <2>1, PendingTyped DEF Reply
    <3>3. /\ ~Delta(Got, p.req) /\ heard' \cap Whole(pending.req) = {}
          /\ p.accepted <=> p.run # NoRun
      BY <2>1, <3>2, TakeStream DEF Delta, SInv, ReplyInv
    <3>4. ReplyInv'
      <4> HIDE DEF p
      <4> QED BY <2>1, <2>3, <3>1, <3>2, <3>3, ReplyKept
    <3> QED BY <2>1, <3>1, <3>4, TakenKeeps
  <2> QED BY <2>2, <2>3
<1>4. CASE RecvRefused
  <2>1. Take("refused") /\ heard' = heard /\ pending' = NoReply
    BY <1>4 DEF RecvRefused
  <2>2. \E a : answers' = Append(answers, a) /\ a.kind # "end"
    <3> DEFINE a == [req |-> pending.req, text |-> {}, kind |-> "refused"]
    <3>1. answers' = Append(answers, a) /\ a.kind # "end"
      BY <1>4 DEF RecvRefused, Says
    <3> QED BY <3>1
  <2>3. ReplyInv'
    BY <2>1 DEF ReplyInv
  <2> QED BY <2>1, <2>2, <2>3, TakenKeeps
<1>5. CASE IgnoreFrame
  <2>1. UNCHANGED <<pending, answers, heard>>
    BY <1>5 DEF IgnoreFrame
  <2>2. ASSUME NEW type \in {"completed", "end", "noise"}, Take(type) PROVE SInv'
    <3>1. ReplyInv'
      <4>1. CASE pending = NoReply
        BY <2>1, <4>1 DEF ReplyInv
      <4>2. CASE pending # NoReply
        <5>1. /\ ~Delta(Got, pending.req) /\ heard' \cap Whole(pending.req) = {}
              /\ pending.accepted <=> pending.run # NoRun
              /\ ~cumulative => pending.final = {}
          BY <2>1, <2>2, <4>2, TakeStream DEF Delta, SInv, ReplyInv
        <5> QED BY <2>1, <2>2, <4>2, <5>1, ReplyKept
      <4> QED BY <4>1, <4>2
    <3> QED BY <2>1, <2>2, <3>1, TakenKeeps
  <2> QED BY <1>5, <2>2 DEF IgnoreFrame
<1>6. CASE RecvClosed
  <2>1. UNCHANGED <<gatewayVars, heard>> /\ asked' = asked /\ pending' = NoReply
    BY <1>6 DEF RecvClosed, linkVars
  <2>2. answers' = answers \/ \E a : answers' = Append(answers, a) /\ a.kind # "end"
    <3> DEFINE a == [req |-> pending.req, text |-> {}, kind |-> "closed"]
    <3>1. answers' = answers \/ (answers' = Append(answers, a) /\ a.kind # "end")
      BY <1>6 DEF RecvClosed, Says
    <3> QED BY <3>1
  <2> QED BY <2>1, <2>2, StillKeeps
<1> QED BY <1>1, <1>2, <1>3, <1>4, <1>5, <1>6 DEF HandleFrame

-----------------------------------------------------------------------------
(* The theorems.                                                           *)

LEMMA StepStream == ASSUME SInv, IInv', [Next]_vars PROVE SInv'
<1>1. ASSUME UNCHANGED <<gatewayVars, pending, answers, heard>>, asked \subseteq asked'
      PROVE  SInv'
  BY <1>1, StillKeeps
<1> USE DEF linkVars
<1>2. ASSUME NEW q \in Own, AnswerAtOnce(q) \/ RejectReply(q) PROVE SInv'
  <2>1. UNCHANGED <<gatewayVars, pending, heard>> /\ asked \subseteq asked'
    BY <1>2 DEF AnswerAtOnce, RejectReply, Read
  <2>2. \E a : answers' = Append(answers, a) /\ a.kind # "end"
    <3> DEFINE a(kind) == [req |-> q, text |-> {}, kind |-> kind]
    <3>1. \E kind \in {"immediate", "busy"} :
            answers' = Append(answers, a(kind)) /\ a(kind).kind # "end"
      BY <1>2 DEF AnswerAtOnce, RejectReply, Says
    <3> QED BY <3>1
  <2> QED BY <2>1, <2>2, StillKeeps
<1>3. CASE HandleRequest
  BY <1>2, <1>3, StartKeeps DEF HandleRequest
<1>4. CASE HandleFrame
  BY <1>4, FrameKeeps
<1>5. CASE Start \/ WatcherTells \/ PollThread \/ Peers
  BY <1>1, <1>5 DEF Start, WatcherTells, PollThread, Peers, TuiWrites, PeerPersists
<1>6. CASE StdinClosed
  BY <1>1, <1>6 DEF StdinClosed
<1>7. CASE DrainTicks
  BY <1>1, <1>7 DEF DrainTicks, DropRead
<1>8. CASE GatewayNext /\ UNCHANGED serverVars
  BY <1>8, GatewayStream
<1>9. CASE UNCHANGED vars
  BY <1>1, <1>9 DEF vars, gatewayVars
<1> QED BY <1>3, <1>4, <1>5, <1>6, <1>7, <1>8, <1>9 DEF Next

\* A reply that the lifecycle end completes is the whole reply, and nothing of
\* it was announced as unsolicited, however its frames fell between the calls
\* and the frames of other runs (mcp/mod.rs:744-776).
THEOREM EndedAnswersWhole == Spec => []EndAnswerWhole
<1>1. SInv /\ IInv' /\ [Next]_vars => SInv'
  BY StepStream
<1>2. SInv => EndAnswerWhole
  BY DEF SInv
<1> QED BY <1>1, <1>2, InitStream, ServerInvariant, PTL DEF Spec

-----------------------------------------------------------------------------
(* The transcript.                                                         *)

\* No run has two lines, whatever fails; and what was heard is there if nothing did.
RunOnce == \A i, j \in DOMAIN log : log[i].run = log[j].run /\ log[i].run # NoRun => i = j

HeardLogged == failures = 0 => \A piece \in heard : Logged(piece[1])

LogInv == log \in Seq(Line) /\ failures \in Nat /\ RunOnce /\ HeardLogged

LEMMA LogInvHeard == ASSUME LogInv PROVE HeardRunLogged
<1> SUFFICES ASSUME failures = 0, NEW piece \in heard
             PROVE  \E i \in DOMAIN log : LinesOf(piece[1]) = {i}
  BY DEF HeardRunLogged
<1>1. PICK i \in DOMAIN log : log[i].run = piece[1] /\ piece[1] # NoRun
  BY DEF LogInv, HeardLogged, Logged
<1>2. LinesOf(piece[1]) = {i}
  BY <1>1 DEF LinesOf, LogInv, RunOnce
<1> QED BY <1>2

\* What every step does to the thread and to the count of failures.
Grows == /\ log' \in Seq(Line) /\ failures' \in Nat /\ RunOnce'
         /\ failures' = 0 => failures = 0 /\ \A r : Logged(r) => Logged(r)'

LEMMA WriteGrows ==
  ASSUME log \in Seq(Line), RunOnce, NEW line \in Line, Write(line)
  PROVE  /\ log' \in Seq(Line) /\ RunOnce' /\ \A r : Logged(r) => Logged(r)'
         /\ line.run # NoRun => Logged(line.run)'
<1>1. CASE Logged(line.run)
  BY <1>1 DEF Write, Logged, RunOnce
<1>2. CASE ~Logged(line.run)
  <2>1. log' = Append(log, line)
    BY <1>2 DEF Write
  <2>2. /\ log' \in Seq(Line) /\ Len(log) + 1 \in DOMAIN log' /\ log'[Len(log) + 1] = line
        /\ \A i \in DOMAIN log : i \in DOMAIN log' /\ log'[i] = log[i]
        /\ \A i \in DOMAIN log' : i \in DOMAIN log \/ i = Len(log) + 1
    BY <2>1
  <2>3. RunOnce'
    BY <1>2, <2>2 DEF RunOnce, Logged
  <2> QED BY <2>2, <2>3 DEF Logged
<1> QED BY <1>1, <1>2

LEMMA MergesGrow ==
  ASSUME log \in Seq(Line), failures \in Nat, RunOnce, NEW line, Merges(line)
  PROVE  Grows
<1>1. failures' \in Nat /\ failures' # 0
  BY DEF Merges, Fails
<1>2. CASE UNCHANGED log
  BY <1>1, <1>2 DEF Grows, RunOnce
<1>3. CASE PeerLast /\ log' = SubSeq(log, 1, Len(log) - 1)
  <2>1. /\ log' \in Seq(Line) /\ \A i \in DOMAIN log' : i \in DOMAIN log /\ log'[i] = log[i]
    BY <1>3 DEF PeerLast
  <2>2. RunOnce'
    BY <2>1 DEF RunOnce
  <2> QED BY <1>1, <2>1, <2>2 DEF Grows
<1> QED BY <1>2, <1>3 DEF Merges

LEMMA FailsGrow ==
  ASSUME log \in Seq(Line), failures \in Nat, RunOnce, NEW line \in Line, WriteFails(line)
  PROVE  Grows
<1>1. failures' \in Nat /\ failures' # 0
  BY DEF WriteFails, Fails
<1>2. log' \in Seq(Line) /\ RunOnce'
  BY WriteGrows DEF WriteFails, RunOnce
<1> QED BY <1>1, <1>2 DEF Grows

LEMMA WriteOwnGrows ==
  ASSUME LogInv, NEW line \in Line, WriteOwn(line)
  PROVE  Grows
<1>1. CASE Write(line) /\ UNCHANGED failures
  BY <1>1, WriteGrows DEF LogInv, Grows
<1> QED BY <1>1, MergesGrow, FailsGrow DEF WriteOwn, LogInv

LEMMA LinesFit ==
  /\ \A source \in {"tui", "mcp"} : UserLine(source) \in Line
  /\ \A source \in {"ws", "none"}, r \in Run \cup {NoRun}, tx \in Text :
       AgentLine(source, r, tx) \in Line /\ AgentLine(source, r, tx).run = r
BY DEF UserLine, AgentLine, Line, Text

LEMMA CompleteGrows ==
  ASSUME LogInv, NEW p \in Reply, NEW kind, CompletePending(p, kind)
  PROVE  Grows
<1>1. Assembled(p) \in Text /\ p.run \in Run \cup {NoRun}
  BY DEF Assembled, Reply
<1>2. AgentLine("none", p.run, Assembled(p)) \in Line
  BY <1>1, LinesFit
<1> QED BY <1>2, WriteOwnGrows DEF CompletePending

\* Steps that announce nothing.
LEMMA GrowsKeeps == ASSUME LogInv, Grows, heard' = heard PROVE LogInv'
BY DEF LogInv, Grows, HeardLogged

LEMMA EmitLogs == ASSUME SInv, LogInv, EmitDelta PROVE LogInv'
<1>1. PICK r, k : r = Got.run /\ k = Got.seq
  OBVIOUS
<1>2. r \in Run /\ k \in 1 .. ReplyLen
  BY <1>1, PlainFrame, TakeFits DEF EmitDelta, SInv, IInv, AnswersInv, Fits
<1>3. PICK line : line = AgentLine("ws", r, {<<r, k>>})
  OBVIOUS
<1>4. line \in Line /\ line.run = r /\ r # NoRun
  <2>1. {<<r, k>>} \in Text
    BY <1>2 DEF Text
  <2> QED BY <1>2, <1>3, <2>1, LinesFit, RunAssumption
<1>5. /\ heard' = heard \cup {<<r, k>>}
      /\ (Write(line) /\ UNCHANGED failures) \/ Merges(line) \/ WriteFails(line)
  BY <1>1, <1>3 DEF EmitDelta
<1>6. CASE Write(line) /\ UNCHANGED failures
  <2>1. /\ log' \in Seq(Line) /\ RunOnce' /\ Logged(r)'
        /\ \A q : Logged(q) => Logged(q)'
    BY <1>4, <1>6, WriteGrows DEF LogInv
  <2>2. HeardLogged'
    BY <1>5, <1>6, <2>1 DEF LogInv, HeardLogged
  <2> QED BY <1>6, <2>1, <2>2 DEF LogInv
<1>7. CASE Merges(line) \/ WriteFails(line)
  <2>1. Grows /\ failures' # 0
    BY <1>4, <1>7, MergesGrow, FailsGrow DEF Merges, WriteFails, Fails, LogInv
  <2> QED BY <2>1 DEF Grows, LogInv, HeardLogged
<1> QED BY <1>5, <1>6, <1>7

LEMMA FrameLogs == ASSUME SInv, LogInv, HandleFrame PROVE LogInv'
<1>1. ASSUME NEW type, Take(type), pending # NoReply, Got.run = pending.req
      PROVE  /\ [pending EXCEPT !.final = Latest(@)] \in Reply
             /\ [pending EXCEPT !.run = Got.run, !.accepted = TRUE, !.final = Latest(@)] \in Reply
  <2>1. Got \in Frame /\ Fits(Got) /\ OwnReply(pending)
    BY <1>1, TakeFits DEF SInv, IInv, AnswersInv, PendingInv
  <2> QED BY <1>1, <2>1, RevisedReply DEF OwnReply
<1>2. ASSUME UNCHANGED <<log, failures>> PROVE Grows
  BY <1>2 DEF LogInv, Grows, Logged, RunOnce
<1>3. ASSUME NEW p \in Reply, NEW kind, CompletePending(p, kind) \/ KeepPending(p) PROVE Grows
  BY <1>2, <1>3, CompleteGrows DEF KeepPending
<1>4. CASE RecvDelta
  BY <1>2, <1>4, GrowsKeeps DEF RecvDelta, KeepPending
<1>5. CASE RecvEnd
  <2> DEFINE p == [pending EXCEPT !.final = Latest(@)]
  <2>1. p \in Reply /\ CompletePending(p, "end") /\ heard' = heard
    BY <1>1, <1>5, MatchesOwn DEF RecvEnd
  <2> HIDE DEF p
  <2> QED BY <1>3, <2>1, GrowsKeeps
<1>6. CASE RecvAccepted
  <2> DEFINE p == [pending EXCEPT !.run = Got.run, !.accepted = TRUE, !.final = Latest(@)]
  <2>1. p \in Reply /\ heard' = heard
    BY <1>1, <1>6 DEF RecvAccepted, Answers
  <2>2. CompletePending(p, "accepted") \/ KeepPending(p)
    BY <1>6 DEF RecvAccepted
  <2> HIDE DEF p
  <2> QED BY <1>3, <2>1, <2>2, GrowsKeeps
<1>7. CASE RecvCompleted
  <2> DEFINE p == [pending EXCEPT !.final = Latest(@)]
  <2>1. p \in Reply /\ heard' = heard
    BY <1>1, <1>7 DEF RecvCompleted, Answers
  <2>2. CompletePending(p, "completed") \/ KeepPending(p)
    BY <1>7 DEF RecvCompleted
  <2> HIDE DEF p
  <2> QED BY <1>3, <2>1, <2>2, GrowsKeeps
<1>8. CASE RecvRefused \/ IgnoreFrame \/ RecvClosed
  BY <1>2, <1>8, GrowsKeeps DEF RecvRefused, IgnoreFrame, RecvClosed
<1> QED BY <1>4, <1>5, <1>6, <1>7, <1>8, EmitLogs DEF HandleFrame

LEMMA StepLogs == ASSUME SInv, LogInv, [Next]_vars PROVE LogInv'
<1>1. ASSUME UNCHANGED <<log, failures, heard>> PROVE LogInv'
  BY <1>1, GrowsKeeps DEF LogInv, Grows, Logged, RunOnce
<1>2. ASSUME NEW line \in Line, Write(line), UNCHANGED <<failures, heard>> PROVE LogInv'
  BY <1>2, WriteGrows, GrowsKeeps DEF LogInv, Grows
<1>3. ASSUME log' = log, failures' = failures + 1, heard' = heard PROVE LogInv'
  BY <1>3, GrowsKeeps DEF LogInv, Grows, Logged, RunOnce
<1>4. CASE HandleRequest
  <2>1. ASSUME NEW q \in Own, StartReply(q) PROVE LogInv'
    BY <2>1, LinesFit, WriteOwnGrows, GrowsKeeps DEF StartReply
  <2>2. ASSUME NEW q \in Own, AnswerAtOnce(q) \/ RejectReply(q) PROVE LogInv'
    BY <1>1, <2>2 DEF AnswerAtOnce, RejectReply
  <2> QED BY <1>4, <2>1, <2>2 DEF HandleRequest
<1>5. CASE HandleFrame
  BY <1>5, FrameLogs
<1>6. CASE Start
  BY <1>1, <1>3, <1>6 DEF Start, Fails
<1>7. CASE PollThread
  <2>1. log' = log /\ heard' = heard /\ (failures' = failures \/ failures' = failures + 1)
    BY <1>7 DEF PollThread, Fails
  <2> QED BY <1>1, <1>3, <2>1
<1>8. CASE WatcherTells \/ StdinClosed \/ DrainTicks
  BY <1>1, <1>8 DEF WatcherTells, StdinClosed, DrainTicks
<1>9. CASE Peers
  <2>1. CASE TuiWrites
    BY <1>2, <2>1, LinesFit DEF TuiWrites
  <2>2. ASSUME NEW r \in Run, PeerPersists(r) PROVE LogInv'
    <3>1. Whole(r) \in Text
      BY DEF Whole, PiecesUpto, Text
    <3>2. AgentLine("none", r, Whole(r)) \in Line
      BY <3>1, LinesFit
    <3> QED BY <1>2, <2>2, <3>2 DEF PeerPersists
  <2> QED BY <1>9, <2>1, <2>2 DEF Peers
<1>10. CASE (GatewayNext /\ UNCHANGED serverVars) \/ UNCHANGED vars
  BY <1>1, <1>10 DEF serverVars, vars
<1> QED BY <1>4, <1>5, <1>6, <1>7, <1>8, <1>9, <1>10 DEF Next

\* A run a piece of which was announced has one line in the transcript, its
\* first piece or what another process persisted for it, unless the store
\* failed.  The later pieces are not there (mcp/mod.rs:931-940).
THEOREM HeardIsLogged == Spec => []HeardRunLogged
<1>1. Init => LogInv
  BY DEF Init, LogInv, RunOnce, HeardLogged
<1>2. SInv /\ IInv' /\ LogInv /\ [Next]_vars => SInv' /\ LogInv'
  BY StepStream, StepLogs
<1>3. LogInv => HeardRunLogged
  BY LogInvHeard
<1> QED BY <1>1, <1>2, <1>3, InitStream, ServerInvariant, PTL DEF Spec

-----------------------------------------------------------------------------
(* The cursor, and the types of what the invariants above do not mention.  *)

LoopInv ==
  /\ open \in BOOLEAN /\ noise \in Nat
  /\ mode \in {"start", "select", "poll", "stopped"}
  /\ linked \in BOOLEAN /\ watching \in BOOLEAN /\ changed \in BOOLEAN
  /\ ticks \in 0 .. WatchCap /\ failures \in 0 .. MaxFailures
  /\ heard \in SUBSET (Run \X (1 .. ReplyLen))

\* Nothing past the cursor was told.
ToldInv ==
  /\ lastSeen \in Nat /\ passed \in SUBSET Nat /\ told \in Seq(Nat) /\ TuiToldInOrder
  /\ \A i \in DOMAIN told : told[i] <= lastSeen
  /\ mode = "start" => told = <<>>

\* The steps that tell nothing: the cursor is moved past one line, or to the
\* end of the thread before anything was told.
CursorStays == /\ told' = told /\ (mode' = "start" => mode = "start")
               /\ \/ lastSeen' \in {lastSeen, lastSeen + 1}
                  \/ mode = "start" /\ lastSeen' = Len(log)
               /\ passed' \subseteq passed \cup {lastSeen + 1} \cup DOMAIN log

LEMMA FailsBound == ASSUME LoopInv, Fails PROVE failures' \in 0 .. MaxFailures
BY StoreAssumption DEF Fails, LoopInv

LEMMA WriteOwnLoop ==
  ASSUME LoopInv, NEW line, WriteOwn(line)
  PROVE  /\ lastSeen' \in {lastSeen, lastSeen + 1}
         /\ passed' \subseteq passed \cup {lastSeen + 1}
         /\ changed' \in {changed, watching} /\ failures' \in 0 .. MaxFailures
<1>1. passed' \subseteq passed \cup {lastSeen + 1} /\ lastSeen' \in {lastSeen, lastSeen + 1}
  BY DEF WriteOwn, Past
<1>2. CASE Write(line) /\ UNCHANGED failures
  BY <1>1, <1>2 DEF Write, LoopInv
<1>3. CASE WriteFails(line)
  BY <1>1, <1>3, FailsBound DEF WriteFails, Write
<1>4. CASE Merges(line)
  BY <1>1, <1>4, FailsBound DEF Merges
<1> QED BY <1>2, <1>3, <1>4 DEF WriteOwn

LEMMA FrameLoop == ASSUME SInv, LoopInv, HandleFrame PROVE LoopInv' /\ CursorStays
<1>1. ASSUME NEW type, Take(type)
      PROVE  UNCHANGED <<open, noise, linked, watching, mode, ticks, told>>
  BY <1>1 DEF Take
<1>2. ASSUME NEW type, Take(type), NEW line, WriteOwn(line), heard' = heard
      PROVE  LoopInv' /\ CursorStays
  BY <1>1, <1>2, WriteOwnLoop DEF LoopInv, CursorStays
<1>3. ASSUME NEW type, Take(type), UNCHANGED <<lastSeen, passed, changed, failures, heard>>
      PROVE  LoopInv' /\ CursorStays
  BY <1>1, <1>3 DEF LoopInv, CursorStays
<1>4. ASSUME NEW type, Take(type), NEW p, NEW kind, CompletePending(p, kind) \/ KeepPending(p),
             heard' = heard
      PROVE  LoopInv' /\ CursorStays
  BY <1>2, <1>3, <1>4 DEF CompletePending, KeepPending
<1>5. CASE RecvDelta \/ RecvEnd \/ RecvAccepted \/ RecvCompleted
  BY <1>4, <1>5 DEF RecvDelta, RecvEnd, RecvAccepted, RecvCompleted
<1>6. CASE RecvRefused \/ IgnoreFrame
  BY <1>3, <1>6 DEF RecvRefused, IgnoreFrame
<1>7. CASE EmitDelta
  <2>1. Take("delta") /\ <<Got.run, Got.seq>> \in Run \X (1 .. ReplyLen)
    BY <1>7, PlainFrame, TakeFits DEF EmitDelta, SInv, IInv, AnswersInv, Fits
  <2>2. heard' \in SUBSET (Run \X (1 .. ReplyLen))
    BY <1>7, <2>1 DEF EmitDelta, LoopInv
  <2>3. PICK line : (Write(line) /\ UNCHANGED failures) \/ Merges(line) \/ WriteFails(line)
    BY <1>7 DEF EmitDelta
  <2>4. changed' \in {changed, watching} /\ failures' \in 0 .. MaxFailures
    BY <2>3, FailsBound DEF Write, Merges, WriteFails, LoopInv
  <2>5. lastSeen' = lastSeen /\ passed' = passed
    BY <1>7 DEF EmitDelta
  <2> QED BY <1>1, <2>1, <2>2, <2>4, <2>5 DEF LoopInv, CursorStays
<1>8. CASE RecvClosed
  BY <1>8 DEF RecvClosed, linkVars, gatewayVars, LoopInv, CursorStays
<1> QED BY <1>5, <1>6, <1>7, <1>8 DEF HandleFrame

LEMMA StepLoop ==
  ASSUME SInv, LoopInv, [Next]_vars
  PROVE  LoopInv' /\ (CursorStays \/ PollThread)
<1>1. ASSUME UNCHANGED <<open, noise, linked, watching, mode, ticks, told, lastSeen, changed,
                         failures, heard, passed>>
      PROVE  LoopInv' /\ CursorStays
  BY <1>1 DEF LoopInv, CursorStays
<1>2. WatchCap \in Nat /\ MaxFailures \in Nat
  BY WatchAssumption, StoreAssumption
<1> USE DEF linkVars, gatewayVars, serverVars
<1>3. CASE HandleRequest
  <2>1. ASSUME NEW q \in Own, StartReply(q) PROVE LoopInv' /\ CursorStays
    <3>1. WriteOwn(UserLine("mcp"))
      BY <2>1 DEF StartReply
    <3> QED BY <2>1, <3>1, WriteOwnLoop DEF StartReply, LoopInv, CursorStays
  <2>2. ASSUME NEW q \in Own, AnswerAtOnce(q) \/ RejectReply(q)
        PROVE  LoopInv' /\ CursorStays
    BY <1>1, <2>2 DEF AnswerAtOnce, RejectReply
  <2> QED BY <1>3, <2>1, <2>2 DEF HandleRequest
<1>4. CASE HandleFrame
  BY <1>4, FrameLoop
<1>5. CASE Start
  BY <1>2, <1>5, FailsBound DEF Start, TuiLines, LoopInv, CursorStays
<1>6. CASE StdinClosed
  BY <1>6 DEF StdinClosed, LoopInv, CursorStays
<1>7. CASE WatcherTells
  <2>1. ticks' \in 0 .. WatchCap
    BY <1>2, <1>7 DEF WatcherTells, LoopInv
  <2> QED BY <1>7, <2>1 DEF WatcherTells, LoopInv, CursorStays
<1>8. CASE DrainTicks
  BY <1>2, <1>8 DEF DrainTicks, LoopInv, CursorStays
<1>9. CASE PollThread
  BY <1>2, <1>9, FailsBound DEF PollThread, LoopInv
<1>10. CASE Peers
  <2>1. PICK line : /\ Write(line)
                    /\ UNCHANGED <<linkVars, mode, lastSeen, ticks, told, heard, failures, passed>>
    BY <1>10 DEF Peers, TuiWrites, PeerPersists
  <2>2. changed' \in {changed, watching}
    BY <2>1 DEF Write
  <2> QED BY <2>1, <2>2 DEF LoopInv, CursorStays
<1>11. CASE GatewayNext /\ UNCHANGED serverVars
  <2>1. open' \in {open, FALSE} /\ noise' \in {noise, noise + 1}
    <3>1. CASE Noise \/ Drop
      BY <3>1 DEF Noise, Drop
    <3>2. ASSUME NEW r \in Run, Emit(r) \/ End(r) PROVE open' = open /\ noise' = noise
      BY <3>2 DEF Emit, End
    <3>3. ASSUME NEW r \in Own, Accept(r) \/ AcceptWithText(r) \/ Refuse(r)
                                 \/ \E text \in BOOLEAN : Complete(r, text)
          PROVE  open' = open /\ noise' = noise
      BY <3>3 DEF Accept, AcceptWithText, Refuse, Complete
    <3> QED BY <1>11, <3>1, <3>2, <3>3 DEF GatewayNext
  <2>2. open' \in BOOLEAN
    BY <2>1 DEF LoopInv
  <2>3. noise' \in Nat
    BY <2>1 DEF LoopInv
  <2>4. UNCHANGED <<mode, linked, watching, changed, ticks, failures, heard, told, lastSeen,
                  passed>>
    BY <1>11
  <2> QED BY <2>2, <2>3, <2>4 DEF LoopInv, CursorStays
<1>12. CASE UNCHANGED vars
  BY <1>1, <1>12 DEF vars
<1> QED BY <1>3, <1>4, <1>5, <1>6, <1>7, <1>8, <1>9, <1>10, <1>11, <1>12 DEF Next

\* What a poll tells is new and comes in the order of the thread.
LEMMA NewTuiIs ==
  ASSUME log \in Seq(Line), lastSeen \in Nat
  PROVE  /\ NewTui \in Seq(Nat)
         /\ \A i \in DOMAIN NewTui : lastSeen < NewTui[i] /\ NewTui[i] <= Len(log)
         /\ \A i, j \in DOMAIN NewTui : i < j => NewTui[i] < NewTui[j]
<1> DEFINE S == {i \in lastSeen + 1 .. Len(log) : log[i].source = "tui"}
<1>1. Len(log) \in Nat
  OBVIOUS
<1>2. S \in SUBSET (1 .. Len(log)) /\ \A n \in S : lastSeen < n /\ n <= Len(log) /\ n \in Nat
  BY <1>1
<1>3. IsFiniteSet(S)
  <2> HIDE DEF S
  <2> QED BY <1>1, <1>2, InOrderUpto, FS_Subset
<1>4. /\ S \in SUBSET Nat /\ Cardinality(S) \in Nat
      /\ InOrder(S) \in [1 .. Cardinality(S) -> S]
      /\ \A j, k \in 1 .. Cardinality(S) : j < k => InOrder(S)[j] < InOrder(S)[k]
  <2>1. S \in SUBSET Nat
    BY <1>2
  <2> HIDE DEF S
  <2> QED BY <1>3, <2>1, InOrderIs
<1>5. NewTui = InOrder(S)
  BY DEF NewTui
<1> HIDE DEF S
<1>6. NewTui \in [1 .. Cardinality(S) -> Nat] /\ DOMAIN NewTui = 1 .. Cardinality(S)
  BY <1>4, <1>5
<1>7. NewTui \in Seq(Nat)
  BY <1>4, <1>6
<1> QED BY <1>2, <1>4, <1>5, <1>6, <1>7

LEMMA PollTells ==
  ASSUME log \in Seq(Line), ToldInv, PollThread
  PROVE  ToldInv'
<1>1. CASE UNCHANGED <<told, lastSeen>>
  BY <1>1 DEF PollThread, ToldInv, TuiToldInOrder
<1>2. CASE Len(log) > lastSeen /\ told' = told \o NewTui /\ lastSeen' = Len(log)
  <2>1. PICK new : new = NewTui
    OBVIOUS
  <2>2. /\ new \in Seq(Nat)
        /\ \A i \in DOMAIN new : lastSeen < new[i] /\ new[i] <= Len(log)
        /\ \A i, j \in DOMAIN new : i < j => new[i] < new[j]
    BY <2>1, NewTuiIs DEF ToldInv
  <2>3. /\ told \in Seq(Nat) /\ lastSeen \in Nat /\ Len(log) \in Nat
        /\ \A i \in DOMAIN told : told[i] <= lastSeen
        /\ \A i, j \in DOMAIN told : i < j => told[i] < told[j]
    BY DEF ToldInv, TuiToldInOrder
  <2>4. told' = told \o new
    BY <1>2, <2>1
  <2>5. /\ told' \in Seq(Nat)
        /\ \A i \in DOMAIN told' :
             \/ i \in DOMAIN told /\ told'[i] = told[i]
             \/ i - Len(told) \in DOMAIN new /\ told'[i] = new[i - Len(told)] /\ i > Len(told)
    BY <2>2, <2>3, <2>4
  <2>6. \A i \in DOMAIN told : i \in Nat /\ i <= Len(told)
    BY <2>3
  <2>7. \A i \in DOMAIN told' : told'[i] <= Len(log)
    BY <1>2, <2>2, <2>3, <2>5
  <2>8. ASSUME NEW i \in DOMAIN told', NEW j \in DOMAIN told', i < j
        PROVE  told'[i] < told'[j]
    <3>0. i \in Nat /\ j \in Nat /\ Len(told) \in Nat
      BY <2>3, <2>5
    <3>1. CASE i \in DOMAIN told /\ told'[i] = told[i] /\ j \in DOMAIN told /\ told'[j] = told[j]
      BY <2>3, <2>8, <3>1
    <3>2. CASE /\ i \in DOMAIN told /\ told'[i] = told[i]
               /\ j - Len(told) \in DOMAIN new /\ told'[j] = new[j - Len(told)]
      BY <2>2, <2>3, <3>2
    <3>3. CASE /\ i - Len(told) \in DOMAIN new /\ told'[i] = new[i - Len(told)]
               /\ j - Len(told) \in DOMAIN new /\ told'[j] = new[j - Len(told)]
      BY <2>2, <2>8, <3>0, <3>3
    <3>4. ~(i > Len(told) /\ j \in DOMAIN told)
      BY <2>6, <2>8, <3>0
    <3> QED BY <2>5, <3>1, <3>2, <3>3, <3>4
  <2>9. mode' # "start" /\ passed' \in SUBSET Nat
    BY DEF PollThread, ToldInv
  <2>10. lastSeen' \in Nat /\ \A i \in DOMAIN told' : told'[i] <= lastSeen'
    BY <1>2, <2>3, <2>7
  <2> QED BY <2>5, <2>8, <2>9, <2>10 DEF ToldInv, TuiToldInOrder
<1> QED BY <1>1, <1>2 DEF PollThread

LEMMA StaysTold ==
  ASSUME log \in Seq(Line), ToldInv, CursorStays
  PROVE  ToldInv'
<1>1. passed' \in SUBSET Nat
  BY DEF CursorStays, ToldInv
<1>2. CASE lastSeen' \in {lastSeen, lastSeen + 1}
  <2>1. told' = told /\ told \in Seq(Nat) /\ lastSeen \in Nat /\ (mode' = "start" => told = <<>>)
    BY DEF CursorStays, ToldInv
  <2>2. \A i \in DOMAIN told : told[i] \in Nat /\ told[i] <= lastSeen
    BY <2>1 DEF ToldInv
  <2>3. \A i \in DOMAIN told : told[i] <= lastSeen'
    BY <1>2, <2>1, <2>2
  <2> QED BY <1>1, <1>2, <2>1, <2>3 DEF ToldInv, TuiToldInOrder
<1>3. CASE mode = "start" /\ lastSeen' = Len(log)
  BY <1>1, <1>3 DEF CursorStays, ToldInv, TuiToldInOrder
<1> QED BY <1>2, <1>3 DEF CursorStays

\* The invariants above, together.
ServerInv == SInv /\ LogInv /\ LoopInv /\ ToldInv

LEMMA ServerSteps == Spec => []ServerInv
<1>1. Init => ServerInv
  <2> SUFFICES ASSUME Init PROVE ServerInv
    OBVIOUS
  <2>1. LogInv
    BY DEF Init, LogInv, RunOnce, HeardLogged
  <2>2. LoopInv
    <3>1. 0 \in 0 .. WatchCap /\ 0 \in 0 .. MaxFailures
      BY WatchAssumption, StoreAssumption
    <3> QED BY <3>1 DEF Init, GatewayInit, LoopInv
  <2>3. told = <<>> /\ lastSeen = 0 /\ passed = {}
    BY DEF Init
  <2>4. ToldInv
    BY <2>3 DEF ToldInv, TuiToldInOrder
  <2> QED BY <2>1, <2>2, <2>4, InitStream DEF ServerInv
<1>2. ServerInv /\ IInv' /\ [Next]_vars => ServerInv'
  <2> SUFFICES ASSUME ServerInv, IInv', [Next]_vars PROVE ServerInv'
    OBVIOUS
  <2>1. SInv' /\ LogInv' /\ LoopInv'
    BY StepStream, StepLogs, StepLoop DEF ServerInv
  <2>2. ToldInv'
    BY StepLoop, PollTells, StaysTold DEF ServerInv, LogInv
  <2> QED BY <2>1, <2>2 DEF ServerInv
<1> QED BY <1>1, <1>2, ServerInvariant, PTL DEF Spec

\* Every variable of the server has its type, and the watcher's channel keeps to
\* its capacity (mcp/mod.rs:179-344).
THEOREM ServerTypeCorrect == Spec => []TypeOK
<1>1. ServerInv => TypeOK
  BY DEF ServerInv, SInv, IInv, WireInv, PendingInv, OwnReply, AnswersInv, StreamInv, ResInv,
         Low, High, LogInv, LoopInv, ToldInv, TypeOK
<1> QED BY <1>1, ServerSteps, PTL

\* However the server's own lines, failing reads and dropped events move the
\* cursor, no message typed in the TUI is told twice or out of order
\* (mcp/mod.rs:1003-1038).
THEOREM ToldInOrder == Spec => []TuiToldInOrder
<1>1. ServerInv => TuiToldInOrder
  BY DEF ServerInv, ToldInv
<1> QED BY <1>1, ServerSteps, PTL
=============================================================================
