------------------------------- MODULE Gateway -------------------------------
(***************************************************************************)
(* The OpenClaw gateway as the code in src/ meets it on one WebSocket: an  *)
(* external component, modelled from what ws.rs, mcp/mod.rs and ws_task.rs *)
(* expect of it.  It answers an `agent` request with a first Res           *)
(* ("accepted", with a runId), streams the run as `agent` events, and      *)
(* sends a second Res when the run is complete.  It broadcasts the events  *)
(* of every run, those of other clients too.                               *)
(*                                                                         *)
(* A request is named by the run it gets, so that "the Res of my request"  *)
(* is the Res that names my run.  A reply is ReplyLen pieces of text, each *)
(* sent once and in order.                                                 *)
(***************************************************************************)
EXTENDS Naturals, Sequences

CONSTANTS
  Run,          \* runs, by run_id
  Own,          \* the runs of this connection's requests; the rest are foreign
  NoRun,
  ReplyLen,     \* pieces in a reply
  WireCap,      \* bound on the frames in flight
  MaxNoise,     \* bound on the frames that are no part of any run
  QuietStart    \* no foreign event precedes the acceptance of an own request

ASSUME RunAssumption   == Own \subseteq Run /\ NoRun \notin Run
ASSUME BoundAssumption == ReplyLen \in Nat \ {0} /\ WireCap \in Nat /\ MaxNoise \in Nat
ASSUME QuietAssumption == QuietStart \in BOOLEAN

VARIABLES
  wire,        \* frames sent and not yet received, oldest first
  open,        \* the connection is up
  res,         \* per own run: what was answered to its request
  sent,        \* per run: the pieces broadcast
  ended,       \* the runs whose lifecycle end was broadcast
  cumulative,  \* this gateway puts the text so far in each event of a run
  noise        \* how many other frames were sent

gatewayVars == <<wire, open, res, sent, ended, cumulative, noise>>

Frame == [type : {"accepted", "refused", "completed", "delta", "end", "noise"},
          run : Run \cup {NoRun}, seq : Nat, text : BOOLEAN]

\* text: the frame carries the reply so far, or for a Res the whole reply.
ResFrame(type, r, text) == [type |-> type, run |-> r, seq |-> 0, text |-> text]
DeltaFrame(r, k)        == [type |-> "delta", run |-> r, seq |-> k, text |-> cumulative]
EndFrame(r)             == [type |-> "end", run |-> r, seq |-> 0, text |-> cumulative]
NoiseFrame              == [type |-> "noise", run |-> NoRun, seq |-> 0, text |-> FALSE]

Push(f) == /\ open /\ Len(wire) < WireCap
           /\ wire' = Append(wire, f)

GatewayInit ==
  /\ wire = <<>> /\ open = TRUE
  /\ res = [r \in Own |-> "none"]
  /\ sent = [r \in Run |-> 0]
  /\ ended = {}
  /\ cumulative \in BOOLEAN
  /\ noise = 0

Accept(r) ==
  /\ res[r] = "asked"
  /\ Push(ResFrame("accepted", r, FALSE))
  /\ res' = [res EXCEPT ![r] = "accepted"]
  /\ UNCHANGED <<open, sent, ended, cumulative, noise>>

\* "Some gateway versions may include final text directly" (ws.rs:701).
AcceptWithText(r) ==
  /\ res[r] = "asked"
  /\ Push(ResFrame("accepted", r, TRUE))
  /\ res' = [res EXCEPT ![r] = "completed"]
  /\ UNCHANGED <<open, sent, ended, cumulative, noise>>

Refuse(r) ==
  /\ res[r] = "asked"
  /\ Push(ResFrame("refused", r, FALSE))
  /\ res' = [res EXCEPT ![r] = "refused"]
  /\ UNCHANGED <<open, sent, ended, cumulative, noise>>

\* "may arrive before or after streaming events" (ws.rs:788).
Complete(r, text) ==
  /\ res[r] = "accepted"
  /\ Push(ResFrame("completed", r, text))
  /\ res' = [res EXCEPT ![r] = "completed"]
  /\ UNCHANGED <<open, sent, ended, cumulative, noise>>

Streams(r) ==
  /\ r \notin ended
  /\ IF r \in Own THEN res[r] \in {"accepted", "completed"}
                  ELSE QuietStart => \E o \in Own : res[o] \in {"accepted", "completed"}

Emit(r) ==
  /\ Streams(r) /\ sent[r] < ReplyLen
  /\ Push(DeltaFrame(r, sent[r] + 1))
  /\ sent' = [sent EXCEPT ![r] = @ + 1]
  /\ UNCHANGED <<open, res, ended, cumulative, noise>>

End(r) ==
  /\ Streams(r) /\ sent[r] = ReplyLen
  /\ Push(EndFrame(r))
  /\ ended' = ended \cup {r}
  /\ UNCHANGED <<open, res, sent, cumulative, noise>>

\* Ticks, presence, health, tool calls, the Res of other requests.
Noise ==
  /\ noise < MaxNoise
  /\ Push(NoiseFrame)
  /\ noise' = noise + 1
  /\ UNCHANGED <<open, res, sent, ended, cumulative>>

Drop ==
  /\ open /\ open' = FALSE
  /\ UNCHANGED <<wire, res, sent, ended, cumulative, noise>>

GatewayNext ==
  \/ \E r \in Own : \/ Accept(r) \/ AcceptWithText(r) \/ Refuse(r)
                    \/ \E text \in BOOLEAN : Complete(r, text)
  \/ \E r \in Run : Emit(r) \/ End(r)
  \/ Noise \/ Drop
=============================================================================
