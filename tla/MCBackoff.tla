----------------------------- MODULE MCBackoff -----------------------------
(***************************************************************************)
(* The delays of one delivery that keeps failing: after attempt n the      *)
(* worker waits backoff(n) and tries attempt n + 1, up to MaxAttempts,     *)
(* which the configuration limits to 1..1000.                              *)
(***************************************************************************)
EXTENDS Backoff

CONSTANT MaxAttempts

VARIABLE attempt

Init == attempt = 1

Retry == /\ attempt < MaxAttempts
         /\ attempt' = attempt + 1

Spec == Init /\ [][Retry]_attempt

\* The wait after every failed attempt is that of the comment in func backoff:
\* it doubles from one second and stays at a minute once it got there.
BackoffCapped ==
    backoffSeconds(attempt) = IF attempt <= 6 THEN 2^(attempt - 1) ELSE 60
===========================================================================
