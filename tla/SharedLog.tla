------------------------------ MODULE SharedLog ------------------------------
(***************************************************************************)
(* What one thread promises the processes that poll it: a list of messages *)
(* that only grows at its end, with at most one message for each run_id.   *)
(* A reader that remembers how many it has read can ask for the rest.      *)
(***************************************************************************)
EXTENDS Naturals, Sequences

CONSTANTS Msg, NoRun, RunOf

VARIABLE log

Has(m)    == \E i \in DOMAIN log : log[i] = m
HasRun(r) == \E i \in DOMAIN log : RunOf[log[i]] = r

Add(m) ==
  /\ ~Has(m)
  /\ RunOf[m] = NoRun \/ ~HasRun(RunOf[m])
  /\ log' = Append(log, m)

Init == log = <<>>
Next == \E m \in Msg : Add(m)
Spec == Init /\ [][Next]_log
=============================================================================
