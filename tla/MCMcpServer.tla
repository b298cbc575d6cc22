----------------------------- MODULE MCMcpServer -----------------------------
(* Model values for TLC: up to two reply calls and one foreign run.        *)
EXTENDS McpServer, TLC

CONSTANTS ask1, ask2, other

MCOne == {ask1}
MCTwo == {ask1, ask2}
MCOneRuns == {ask1, other}
MCTwoRuns == {ask1, ask2, other}

\* The requests are interchangeable.
MCSymmetry == Permutations({ask1, ask2})
=============================================================================
