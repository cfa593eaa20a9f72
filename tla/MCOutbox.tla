----------------------------- MODULE MCOutbox -----------------------------
(***************************************************************************)
(* A small instance of Outbox, with the delays of Backoff: two events for  *)
(* the sink of one merchant, one for the sink of another, which does not   *)
(* confirm what it gets, and a batch of two.                               *)
(***************************************************************************)
EXTENDS Outbox, Backoff

CONSTANTS e1, e2, e3, s1, s2, m1, m2

MCEventMerchant == [e \in {e1, e2, e3} |-> IF e = e3 THEN m2 ELSE m1]
MCSinkMerchant == [s \in {s1, s2} |-> IF s = s1 THEN m1 ELSE m2]
BackoffDelay == [n \in 1..(MaxAttempts - 1) |-> backoffSeconds(n)]
===========================================================================
