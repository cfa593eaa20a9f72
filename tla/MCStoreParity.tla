--------------------------- MODULE MCStoreParity ---------------------------
(***************************************************************************)
(* A small instance of StoreParity: two notes of amounts 2 and 1 pay an    *)
(* invoice of amount 2 exactly, in part and too much, a third is reported  *)
(* without an address, and the clock tells two moments of a second apart.  *)
(* A refund touches no invoice and no deposit, so behaviours with one are  *)
(* followed through one scan event of the first second (RefundsEarly).     *)
(***************************************************************************)
EXTENDS StoreParity

CONSTANTS o1, d1, d2, d3, m1, w1, r1

MCOrder ==
    [o \in Orders |->
        [merchant |-> m1, amount |-> 2, required |-> 2, ttl |-> 1,
         policy |-> [late |-> "mark_paid_late", partial |-> "reject_partial",
                     over |-> "manual_review"]]]
MCOutput ==
    [d \in Outputs |->
        [wallet |-> w1, to |-> IF d \in Unaddressed THEN Nobody ELSE o1,
         amount |-> IF d = d1 THEN 2 ELSE 1]]
MCWalletOf == [m \in Merchants |-> w1]

RefundsEarly ==
    refunds' # [r \in Refunds |-> NoRefund] => now' = 0 /\ \A w \in Wallets : cursor'[w] <= 1
============================================================================
