---------------------------- MODULE MCSqlStore ----------------------------
(***************************************************************************)
(* A small instance of SqlStore.                                           *)
(***************************************************************************)
EXTENDS SqlStore

CONSTANTS o1, d1, d2, m1, m2, w1, w2, r1

\* Two merchants registered the same viewing key under two wallet ids: the note
\* at the address of invoice o1 is reported once for each wallet.
LateOrder ==
    [o \in {o1} |->
        [merchant |-> m1, amount |-> 2, required |-> 0, ttl |-> 1,
         policy |-> [late |-> "manual_review", partial |-> "accept_partial",
                     over |-> "mark_overpaid"]]]
SameKeyNotes ==
    [d \in {d1, d2} |-> [wallet |-> IF d = d1 THEN w1 ELSE w2, to |-> o1, amount |-> 2]]
TwoWallets == [m \in {m1, m2} |-> IF m = m1 THEN w1 ELSE w2]
===========================================================================
