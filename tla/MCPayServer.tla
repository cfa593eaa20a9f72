---------------------------- MODULE MCPayServer ----------------------------
(***************************************************************************)
(* Small instances of PayServer.                                           *)
(***************************************************************************)
EXTENDS PayServer

CONSTANTS o1, d1, d2, m1, m2, m3, w1, w2

AnOrder(m) ==
    [merchant |-> m, amount |-> 2, required |-> 2, ttl |-> 1,
     policy |-> [late |-> "manual_review", partial |-> "reject_partial",
                 over |-> "manual_review"]]

\* One merchant, one invoice, one note that pays it.
OneOrder == [o \in {o1} |-> AnOrder(m1)]
OneNote == [d \in {d1} |-> [wallet |-> w1, to |-> o1, amount |-> 2]]
OneWallet == [m \in {m1} |-> w1]
OneMerchantSeq == <<m1>>

\* Merchants m2 and m3 share a wallet_id; the note in it pays no invoice.  The
\* invoice is that of m1, who comes first and has a wallet of its own.
LastShared == [m \in {m1, m2, m3} |-> IF m = m1 THEN w1 ELSE w2]
GoodAndStray ==
    [d \in {d1, d2} |->
        IF d = d1 THEN [wallet |-> w1, to |-> o1, amount |-> 2]
                  ELSE [wallet |-> w2, to |-> Nobody, amount |-> 1]]

\* Merchants m1 and m2 were given the same wallet_id; a note in it pays no
\* invoice.  Merchant m3, later in the order, has a wallet and a payment of
\* its own.
SharedWallet == [m \in {m1, m2, m3} |-> IF m = m3 THEN w2 ELSE w1]
ThreeMerchantSeq == <<m1, m2, m3>>
OtherOrder == [o \in {o1} |-> AnOrder(m3)]
StrayAndGood ==
    [d \in {d1, d2} |->
        IF d = d1 THEN [wallet |-> w1, to |-> Nobody, amount |-> 1]
                  ELSE [wallet |-> w2, to |-> o1, amount |-> 2]]
===========================================================================
