------------------------------ MODULE MCDPWaves ------------------------------
(***************************************************************************)
(* Workloads for the data-parallel waves.                                  *)
(***************************************************************************)
EXTENDS DPWaves

CONSTANTS q1, q2

\* Two requests, so that one may arrive while the wave of the other ends; or
\* one that may be aborted, while all engines are paused and resumed.
MCWorkloads ==
  {[requests |-> {q1, q2}, pauses |-> {}, aborts |-> FALSE],
   [requests |-> {q1}, pauses |-> {"abort", "wait", "keep"}, aborts |-> TRUE]}

\* Two requests, one of which may be aborted before its engine has run it.
MCAborts == {[requests |-> {q1, q2}, pauses |-> {}, aborts |-> TRUE]}
=============================================================================
