------------------------------ MODULE AgentChat ------------------------------
(***************************************************************************)
(* GatewayClient::agent_chat of src/src/ws.rs: one `agent` request, and    *)
(* the loop that collects its reply from the frames of the connection.     *)
(* agent_chat_inner and agent_chat_inner_streaming are the same loop; the  *)
(* second also hands each piece to a callback, which is `shown` here.      *)
(*                                                                         *)
(* Text is abstracted to <<run, seq>> pieces.  delta_map is keyed by seq   *)
(* alone, so deltas[k] is the run whose piece was stored last under k.     *)
(***************************************************************************)
EXTENDS Gateway, Selection

CONSTANTS
  Mine,         \* the run of the one request of this connection
  MaxEvents,    \* MAX_EVENTS
  DrainLimit    \* MAX_EVENTS_AFTER_COMPLETION

ASSUME MineAssumption  == Own = {Mine}
ASSUME LimitAssumption == MaxEvents \in Nat /\ DrainLimit \in Nat

VARIABLES
  state,      \* "init", "waiting", and how the call returned: "ok", "error"
  cause,      \* history: what made it return
  runId, deltas, finalText, accepted, completed, count, shown

clientVars == <<state, cause, runId, deltas, finalText, accepted, completed, count, shown>>
vars == <<wire, open, res, sent, ended, cumulative, noise, state, cause, runId, deltas,
          finalText, accepted, completed, count, shown>>

\* final_text: the pieces 1 .. upto of a run.
NoText      == [run |-> NoRun, upto |-> 0]
Upto(r, k)  == [run |-> r, upto |-> k]
Pieces(t)   == [k \in 1 .. t.upto |-> <<t.run, k>>]
Joined      == Picked([k \in 1 .. ReplyLen |-> <<deltas[k], k>>],
                      {k \in 1 .. ReplyLen : deltas[k] # NoRun})

\* The text of the AgentChatResult.
ResultText == IF finalText # NoText THEN Pieces(finalText) ELSE Joined
WholeReply == Pieces(Upto(Mine, ReplyLen))

Init ==
  /\ GatewayInit
  /\ state = "init" /\ cause = "none"
  /\ runId = NoRun
  /\ deltas = [k \in 1 .. ReplyLen |-> NoRun]
  /\ finalText = NoText
  /\ accepted = FALSE /\ completed = FALSE
  /\ count = 0
  /\ shown = <<>>

Return(how, why) == state' = how /\ cause' = why
Continue         == UNCHANGED <<state, cause>>

Send ==
  /\ state = "init"
  /\ IF open
       THEN state' = "waiting" /\ res' = [res EXCEPT ![Mine] = "asked"] /\ UNCHANGED cause
       ELSE Return("error", "send") /\ UNCHANGED res
  /\ UNCHANGED <<wire, open, sent, ended, cumulative, noise,
                 runId, deltas, finalText, accepted, completed, count, shown>>

-----------------------------------------------------------------------------
(* The top of the loop: the two limits on the frames counted.              *)

\* Mutated form of TooMany: the comparison is off by one.
TooManyLate == count > MaxEvents
TooMany == count >= MaxEvents

Drained == completed /\ count >= DrainLimit

GiveUp ==
  /\ state = "waiting" /\ TooMany
  /\ Return("error", "limit")
  /\ UNCHANGED <<gatewayVars, runId, deltas, finalText, accepted, completed, count, shown>>

StopDraining ==
  /\ state = "waiting" /\ ~TooMany /\ Drained
  /\ Return("ok", "drained")
  /\ UNCHANGED <<gatewayVars, runId, deltas, finalText, accepted, completed, count, shown>>

-----------------------------------------------------------------------------
(* The body: the next frame of the connection.                             *)

Got == Head(wire)

Take(type) ==
  /\ state = "waiting" /\ ~TooMany /\ ~Drained
  /\ wire # <<>> /\ Got.type = type
  /\ wire' = Tail(wire)
  /\ count' = count + 1
  /\ UNCHANGED <<open, res, sent, ended, cumulative, noise>>

RecvAccepted ==
  /\ Take("accepted") /\ ~accepted
  /\ runId' = Got.run
  /\ finalText' = IF Got.text THEN Upto(Got.run, ReplyLen) ELSE finalText
  /\ accepted' = TRUE
  /\ IF finalText' # NoText THEN Return("ok", "text") ELSE Continue
  /\ UNCHANGED <<deltas, completed, shown>>

RecvRefused ==
  /\ Take("refused") /\ ~accepted
  /\ Return("error", "refused")
  /\ UNCHANGED <<runId, deltas, finalText, accepted, completed, shown>>

\* Mutated form of RecvCompleted: the second Res ends the loop as well.
RecvCompletedReturns ==
  /\ Take("completed") /\ accepted
  /\ completed' = TRUE
  /\ finalText' = IF Got.text THEN Upto(Got.run, ReplyLen) ELSE finalText
  /\ Return("ok", "text")
  /\ UNCHANGED <<runId, deltas, accepted, shown>>

RecvCompleted ==
  /\ Take("completed") /\ accepted
  /\ completed' = TRUE
  /\ finalText' = IF Got.text THEN Upto(Got.run, ReplyLen) ELSE finalText
  /\ Continue
  /\ UNCHANGED <<runId, deltas, accepted, shown>>

\* The run the events are filtered by: without one, the event's own is taken.
Adopted == IF runId = NoRun THEN Got.run ELSE runId

\* Mutated forms of RecvDelta: the run is not compared; the piece is shown
\* before it is.
RecvDeltaUnfiltered ==
  /\ Take("delta")
  /\ runId' = Adopted
  /\ deltas' = [deltas EXCEPT ![Got.seq] = Got.run]
  /\ shown' = Append(shown, <<Got.run, Got.seq>>)
  /\ finalText' = IF Got.text THEN Upto(Got.run, Got.seq) ELSE finalText
  /\ Continue
  /\ UNCHANGED <<accepted, completed>>

RecvDeltaShownFirst ==
  /\ Take("delta")
  /\ runId' = Adopted
  /\ shown' = Append(shown, <<Got.run, Got.seq>>)
  /\ IF Got.run = Adopted
       THEN /\ deltas' = [deltas EXCEPT ![Got.seq] = Got.run]
            /\ finalText' = IF Got.text THEN Upto(Got.run, Got.seq) ELSE finalText
       ELSE UNCHANGED <<deltas, finalText>>
  /\ Continue
  /\ UNCHANGED <<accepted, completed>>

RecvDelta ==
  /\ Take("delta")
  /\ runId' = Adopted
  /\ IF Got.run = Adopted
       THEN /\ deltas' = [deltas EXCEPT ![Got.seq] = Got.run]
            /\ shown' = Append(shown, <<Got.run, Got.seq>>)
            /\ finalText' = IF Got.text THEN Upto(Got.run, Got.seq) ELSE finalText
       ELSE UNCHANGED <<deltas, shown, finalText>>
  /\ Continue
  /\ UNCHANGED <<accepted, completed>>

\* Mutated form of RecvEnd: it waits for more after the end.
RecvEndIgnored ==
  /\ Take("end")
  /\ runId' = Adopted
  /\ Continue
  /\ UNCHANGED <<deltas, finalText, accepted, completed, shown>>

RecvEnd ==
  /\ Take("end")
  /\ runId' = Adopted
  /\ IF Got.run = Adopted THEN Return("ok", "end") ELSE Continue
  /\ UNCHANGED <<deltas, finalText, accepted, completed, shown>>

RecvNoise ==
  /\ Take("noise")
  /\ Continue
  /\ UNCHANGED <<runId, deltas, finalText, accepted, completed, shown>>

RecvClosed ==
  /\ state = "waiting" /\ ~TooMany /\ ~Drained
  /\ wire = <<>> /\ ~open
  /\ Return("error", "closed")
  /\ UNCHANGED <<gatewayVars, runId, deltas, finalText, accepted, completed, count, shown>>

\* tokio::time::timeout drops the loop wherever it waits.
Timeout ==
  /\ state = "waiting"
  /\ Return("error", "timeout")
  /\ UNCHANGED <<gatewayVars, runId, deltas, finalText, accepted, completed, count, shown>>

Receive == \/ GiveUp \/ StopDraining \/ RecvAccepted \/ RecvRefused \/ RecvCompleted
           \/ RecvDelta \/ RecvEnd \/ RecvNoise \/ RecvClosed

Next == Send \/ Receive \/ Timeout \/ (GatewayNext /\ UNCHANGED clientVars)

Spec == Init /\ [][Next]_vars

\* The task is scheduled while a frame is there, and the gateway finishes what
\* it was asked.  Nothing forces the timeout, the drop or any foreign run.
GatewayServes ==
  \E r \in Own : Accept(r) \/ Refuse(r) \/ Emit(r) \/ End(r)

FairSpec == Spec /\ WF_vars(Receive)
                 /\ WF_vars(GatewayServes /\ UNCHANGED clientVars)

-----------------------------------------------------------------------------
(* Properties.                                                             *)

TypeOK ==
  /\ wire \in Seq(Frame) /\ open \in BOOLEAN
  /\ res \in [Own -> {"none", "asked", "accepted", "refused", "completed"}]
  /\ sent \in [Run -> 0 .. ReplyLen] /\ ended \in SUBSET Run
  /\ cumulative \in BOOLEAN /\ noise \in Nat
  /\ state \in {"init", "waiting", "ok", "error"}
  /\ cause \in {"none", "send", "limit", "drained", "text", "refused", "end",
                "closed", "timeout"}
  /\ runId \in Run \cup {NoRun}
  /\ deltas \in [1 .. ReplyLen -> Run \cup {NoRun}]
  /\ finalText \in [run : Run \cup {NoRun}, upto : Nat]
  /\ accepted \in BOOLEAN /\ completed \in BOOLEAN
  /\ count \in 0 .. MaxEvents
  /\ shown \in Seq(Run \X Nat)

\* "Filter by runId - gateway broadcasts ALL agent events" (ws.rs:723-735):
\* nothing of another client's run gets into the reply, the pieces returned or
\* the pieces shown while streaming.
OnlyOwnRun ==
  /\ runId \in {NoRun, Mine} /\ finalText.run \in {NoRun, Mine}
  /\ \A k \in 1 .. ReplyLen : deltas[k] \in {NoRun, Mine}
  /\ \A i \in DOMAIN shown : shown[i][1] = Mine

\* A call that returns because its run ended, or with a text of its run, returns
\* the whole reply, wherever the completion Res and the other runs' events fell
\* among its events (ws.rs:788-812); and one that stops waiting for the end, at
\* the limit after the completion, returns the reply up to some piece (651-661).
ReplyIsWhole ==
  state = "ok" =>
    IF cause = "drained" THEN \E k \in 0 .. ReplyLen : ResultText = Pieces(Upto(Mine, k))
                         ELSE ResultText = WholeReply

\* When the run ended, what the callback showed is the reply that is returned
\* (ws.rs:360-363, agent_chat_inner_streaming).
ShownIsReply == state = "ok" /\ cause = "end" => shown = ResultText

\* A gateway that serves the request gets the call to return without the help
\* of the timeout: no frame order leaves the loop waiting (ws.rs:645-812).
CallReturns == state = "waiting" ~> state # "waiting"

\* The same comment as of the text that is returned: no piece of it is another
\* client's (ws.rs:723).
ReplyIsOwn ==
  state = "ok" => \A i \in DOMAIN ResultText : ResultText[i][1] = Mine

=============================================================================
