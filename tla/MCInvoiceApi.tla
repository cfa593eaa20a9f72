--------------------------- MODULE MCInvoiceApi ---------------------------
(***************************************************************************)
(* Small instances of InvoiceApi: r1 and r2 ask for the same invoice, r3   *)
(* for the same order with another amount, r4 for another order.           *)
(***************************************************************************)
EXTENDS InvoiceApi

CONSTANTS r1, r2, r3, r4, o1, o2

MCOrderOf == [r \in Requests |-> IF r = r4 THEN o2 ELSE o1]
MCAmountOf == [r \in Requests |-> IF r = r3 THEN 2 ELSE 1]
===========================================================================
