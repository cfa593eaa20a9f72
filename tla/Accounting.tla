---------------------------- MODULE Accounting ----------------------------
(***************************************************************************)
(* The invoice arithmetic that every store of juno-pay-server repeats: the *)
(* status of an invoice as a function of what it has received, the event   *)
(* and the review case that a change of status produces, and the two       *)
(* height rules (when a deposit may be credited, when it is confirmed).    *)
(* Nothing here has state; the store modules build their transactions      *)
(* from these operators.                                                   *)
(***************************************************************************)
EXTENDS Integers

\* The values of domain.InvoiceStatus the server can write; no code path
\* writes "canceled".
InvoiceStatuses ==
    {"open", "partial_pending", "pending", "partial_confirmed", "confirmed",
     "overpaid", "expired", "paid_late"}

LatePolicies == {"mark_paid_late", "manual_review", "ignore"}
PartialPolicies == {"accept_partial", "reject_partial"}
OverPolicies == {"mark_overpaid", "manual_review"}

\* Mutant of computeInvoiceStatus: what waits for confirmations pays in full.
computeInvoiceStatusTotal(amount, pending, confirmed, expired, late) ==
    LET total == pending + confirmed
    IN  IF total = 0 /\ expired THEN "expired"
        ELSE IF total = 0 THEN "open"
        ELSE IF confirmed > amount THEN "overpaid"
        ELSE IF total >= amount THEN "confirmed"
        ELSE "partial_pending"

\* The switch of computeInvoiceStatusSQL, case by case and in its order.
computeInvoiceStatus(amount, pending, confirmed, expired, late) ==
    LET total == pending + confirmed
    IN  IF total = 0 /\ expired THEN "expired"
        ELSE IF total = 0 THEN "open"
        ELSE IF confirmed > amount THEN "overpaid"
        ELSE IF confirmed = amount /\ expired /\ late = "mark_paid_late" THEN "paid_late"
        ELSE IF confirmed = amount THEN "confirmed"
        ELSE IF total >= amount THEN "pending"
        ELSE IF confirmed > 0 THEN "partial_confirmed"
        ELSE "partial_pending"

\* Mutant of backfillStatus: an exact payment counts as too much.
backfillStatusOffByOne(amount, pending, confirmed, expires, now, late) ==
    IF confirmed > 0 /\ confirmed >= amount THEN "overpaid"
    ELSE computeInvoiceStatus(amount, pending, confirmed, expires # -1 /\ expires < now, late)

\* Mutant of backfillStatus: a payment that waits for confirmations counts as paid.
backfillStatusTotal(amount, pending, confirmed, expires, now, late) ==
    computeInvoiceStatus(amount, 0, pending + confirmed, expires # -1 /\ expires < now, late)

\* The same decision as the SQL CASE expression that Store.Init runs over all
\* invoices when the server starts.
backfillStatus(amount, pending, confirmed, expires, now, late) ==
    LET past == expires # -1 /\ expires < now
    IN  IF pending + confirmed = 0 /\ past THEN "expired"
        ELSE IF pending + confirmed = 0 THEN "open"
        ELSE IF confirmed > amount THEN "overpaid"
        ELSE IF confirmed = amount
             THEN IF past /\ late = "mark_paid_late" THEN "paid_late" ELSE "confirmed"
        ELSE IF pending + confirmed >= amount THEN "pending"
        ELSE IF confirmed > 0 THEN "partial_confirmed"
        ELSE "partial_pending"

\* The invoice event a change to a status emits ("none": the status is silent).
statusEvent(status) ==
    CASE status = "expired" -> "invoice.expired"
      [] status \in {"confirmed", "paid_late"} -> "invoice.paid"
      [] status = "overpaid" -> "invoice.overpaid"
      [] OTHER -> "none"

\* Mutants of policyReview: overpayment_policy is ignored; a late payment is
\* looked for under its own status only.
policyReviewNoOver(status, expired, exact, policy) ==
    IF status = "partial_confirmed" /\ policy.partial = "reject_partial"
    THEN "partial_payment" ELSE "none"
policyReviewPaidLate(status, expired, exact, policy) ==
    CASE status = "partial_confirmed" /\ policy.partial = "reject_partial" -> "partial_payment"
      [] status = "overpaid" /\ policy.over = "manual_review" -> "overpayment"
      [] status = "paid_late" /\ policy.late = "manual_review" -> "late_payment"
      [] OTHER -> "none"

\* The reason of the review case that the invoice's policies ask for when its
\* status becomes `status` ("none": no case).
policyReview(status, expired, exact, policy) ==
    CASE status = "partial_confirmed" /\ policy.partial = "reject_partial" -> "partial_payment"
      [] status = "overpaid" /\ policy.over = "manual_review" -> "overpayment"
      [] status \in {"confirmed", "paid_late"} /\ expired /\ exact
            /\ policy.late = "manual_review" -> "late_payment"
      [] OTHER -> "none"

\* Only notes mined above the height at which the invoice was created pay it.
CanApplyDeposit(height, createdAfter) == height > createdAfter

\* required_confirmations = 0 is treated as 1.
Required(required) == IF required <= 0 THEN 1 ELSE required

\* A note at `height` has enough confirmations when the best block is `best`.
DeepEnough(best, height, required) ==
    height <= best /\ best - height + 1 >= Required(required)
===========================================================================
