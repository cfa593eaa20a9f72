--------------------------- MODULE MCMongoStore ---------------------------
(***************************************************************************)
(* A small instance of MongoStore: two notes that pay one invoice exactly, *)
(* in part or too much, and one that is reported without an address.       *)
(***************************************************************************)
EXTENDS MongoStore

CONSTANTS o1, d1, d2, d3, m1, w1, r1

MCOrder ==
    [o \in {o1} |->
        [merchant |-> m1, amount |-> 2, required |-> 2, ttl |-> 1,
         policy |-> [late |-> "manual_review", partial |-> "reject_partial",
                     over |-> "manual_review"]]]
MCOutput ==
    [d \in {d1, d2, d3} |->
        [wallet |-> w1, to |-> IF d = d3 THEN Nobody ELSE o1,
         amount |-> IF d = d1 THEN 2 ELSE 1]]
MCWalletOf == [m \in {m1} |-> w1]
===========================================================================
