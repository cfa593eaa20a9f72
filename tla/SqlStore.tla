----------------------------- MODULE SqlStore -----------------------------
(***************************************************************************)
(* The SQL store of juno-pay-server (internal/store/sqlstore): the tables  *)
(* invoices, deposits, scan_cursors, invoice_events, review_cases and      *)
(* refunds, and one action per method that writes them.  Each method runs  *)
(* in one database transaction, so an action is the whole method: the row  *)
(* updates, the events it inserts, the review cases it opens and the       *)
(* recomputation of the invoice it ends with.                              *)
(*                                                                         *)
(* The callers are left open: any scan event, any best height, in any      *)
(* order.  PayServer closes the model with the ingest loop and the chain.  *)
(*                                                                         *)
(* A row that does not exist has status "absent".  A set of review cases   *)
(* is exactly what the unique index (merchant, invoice, reason, status)    *)
(* allows; deposit cases are unique per (deposit, reason).                 *)
(***************************************************************************)
EXTENDS StoreTypes

VARIABLES
    now,        \* wall clock (the store calls time.Now)
    invoices,   \* Orders -> row of table invoices
    deposits,   \* Outputs -> row of table deposits
    cursor,     \* Wallets -> scan_cursors.cursor_id, 0 when there is no row
    events,     \* table invoice_events, one record per row
    reviews,    \* table review_cases
    refunds     \* Refunds -> row of table refunds

vars == <<now, invoices, deposits, cursor, events, reviews, refunds>>

Init ==
    /\ now = 0
    /\ invoices = [o \in Orders |-> NoInvoice]
    /\ deposits = [d \in Outputs |-> NoDeposit]
    /\ cursor = [w \in Wallets |-> 0]
    /\ events = {}
    /\ reviews = {}
    /\ refunds = [r \in Refunds |-> NoRefund]

---------------------------------------------------------------------------
Exists(o) == invoices[o].status # "absent"

\* now.Unix() > expires_at
Expired(o) == invoices[o].expires # Null /\ now > invoices[o].expires

\* insertInvoiceEventTx: an event is inserted once per (invoice, type, reference)
\* and a second insertion changes nothing.
EventOf(o, typ, ref) == [invoice |-> o, typ |-> typ, ref |-> ref]

\* SELECT SUM(amount_zat) ... WHERE invoice_id = o AND status IN statuses
Received(deps, o, statuses) ==
    SumAmounts({d \in Outputs : deps[d].invoice = o /\ deps[d].status \in statuses})

\* Mutant of Recomputed: an unconfirmed deposit drops out of the sums.
RecomputedDetectedOnly(deps, o) ==
    LET pending   == Received(deps, o, {"detected"})
        confirmed == Received(deps, o, {"confirmed"})
    IN  [invoices[o] EXCEPT
            !.pending = pending,
            !.confirmed = confirmed,
            !.status = computeInvoiceStatus(Order[o].amount, pending, confirmed,
                                            Expired(o), Order[o].policy.late)]

\* recomputeInvoiceAggregatesTx: the row after it, the event and the review
\* case that it inserts when the status changed.
Recomputed(deps, o) ==
    LET pending   == Received(deps, o, {"detected", "unconfirmed"})
        confirmed == Received(deps, o, {"confirmed"})
    IN  [invoices[o] EXCEPT
            !.pending = pending,
            !.confirmed = confirmed,
            !.status = computeInvoiceStatus(Order[o].amount, pending, confirmed,
                                            Expired(o), Order[o].policy.late)]

StatusChangeEvents(o, row) ==
    IF row.status # invoices[o].status /\ statusEvent(row.status) # "none"
    THEN {EventOf(o, statusEvent(row.status), Nobody)}
    ELSE {}

StatusChangeReviews(o, row) ==
    LET reason == policyReview(row.status, Expired(o), row.confirmed = Order[o].amount,
                               Order[o].policy)
    IN  IF row.status # invoices[o].status /\ reason # "none"
        THEN {[subject |-> o, reason |-> reason, status |-> "open"]}
        ELSE {}

---------------------------------------------------------------------------
\* CreateInvoice for an order that has none yet.  A repeated order changes
\* nothing in the store (InvoiceApi models what the caller gets back).
CreateInvoice(o, best) ==
    /\ ~Exists(o)
    /\ invoices' = [invoices EXCEPT ![o] =
            [status |-> "open", pending |-> 0, confirmed |-> 0, after |-> best,
             expires |-> IF Order[o].ttl = 0 THEN Null ELSE now + Order[o].ttl]]
    /\ events' = events \cup {EventOf(o, "invoice.created", Nobody)}
    /\ UNCHANGED <<now, deposits, cursor, reviews, refunds>>

\* The status a scan event asks for.  DepositConfirmed is juno-scan's own
\* confirmation count, which the store does not trust: it only detects.
incomingStatus(kind) ==
    CASE kind = "DepositUnconfirmed" -> "unconfirmed"
      [] kind = "DepositOrphaned" -> "orphaned"
      [] OTHER -> "detected"

\* Mutant of applyInvoiceID: the address is looked up in every wallet.
applyInvoiceIDAnyWallet(d, height) ==
    LET o == Output[d].to
    IN  IF o # Nobody /\ Exists(o) /\ CanApplyDeposit(height, invoices[o].after)
        THEN o ELSE Nobody

\* The invoice at the note's address, if the note is above created_after_height.
applyInvoiceID(d, height) ==
    LET o == Output[d].to
    IN  IF /\ o # Nobody
           /\ Exists(o)
           /\ WalletOf[Order[o].merchant] = Output[d].wallet
           /\ CanApplyDeposit(height, invoices[o].after)
        THEN o ELSE Nobody

\* Mutants of upsertDeposit: confirmed_height survives a reorganisation; the
\* invoice follows the last event; a confirmed deposit stays confirmed.
upsertDepositKeepHeight(d, height, status, o) ==
    LET old == deposits[d]
    IN  [status |-> IF old.status = "confirmed" /\ status = "detected"
                    THEN "confirmed" ELSE status,
         height |-> height,
         confHeight |-> old.confHeight,
         invoice |-> IF old.invoice # Nobody THEN old.invoice ELSE o]
upsertDepositRelink(d, height, status, o) ==
    LET old == deposits[d]
    IN  [status |-> IF old.status = "confirmed" /\ status = "detected"
                    THEN "confirmed" ELSE status,
         height |-> height,
         confHeight |-> IF status \in {"unconfirmed", "orphaned"} THEN Null ELSE old.confHeight,
         invoice |-> o]
upsertDepositSticky(d, height, status, o) ==
    LET old == deposits[d]
    IN  [status |-> IF old.status = "confirmed" THEN "confirmed" ELSE status,
         height |-> height,
         confHeight |-> IF status \in {"unconfirmed", "orphaned"} THEN Null ELSE old.confHeight,
         invoice |-> IF old.invoice # Nobody THEN old.invoice ELSE o]

\* UPDATE deposits ..., or INSERT when there is no row.
upsertDeposit(d, height, status, o) ==
    LET old == deposits[d]
    IN  [status |-> IF old.status = "confirmed" /\ status = "detected"
                    THEN "confirmed" ELSE status,
         height |-> height,
         confHeight |-> IF status \in {"unconfirmed", "orphaned"} THEN Null ELSE old.confHeight,
         invoice |-> IF old.invoice # Nobody THEN old.invoice ELSE o]

\* The merchants a wallet_id is mapped to; more than one is an error.
MerchantsOf(w) == {m \in Merchants : WalletOf[m] = w}

\* Mutant of unattributedReviews: one open case is enough for all deposits.
unattributedReviewsOnce(d) ==
    IF /\ MerchantsOf(Output[d].wallet) # {}
       /\ ~\E c \in reviews : c.reason = "unknown_address" /\ c.status = "open"
    THEN {[subject |-> d, reason |-> "unknown_address", status |-> "open"]}
    ELSE {}

\* Nobody to credit: a review case, one per deposit ever.
unattributedReviews(d) ==
    IF /\ MerchantsOf(Output[d].wallet) # {}
       /\ ~\E c \in reviews : c.subject = d
    THEN {[subject |-> d, reason |-> "unknown_address", status |-> "open"]}
    ELSE {}

\* The event for a deposit that is (again) in the chain.
DetectionEvents(o, d, status) ==
    IF status = "detected" THEN {EventOf(o, "deposit.detected", d)} ELSE {}

\* applyDepositEventTx.  The invoice is recomputed only when the lookup by
\* address finds one for the height of this event: a deposit credited earlier
\* keeps its invoice_id but takes the unattributed branch.
applyDepositEvent(d, height, status) ==
    LET o    == applyInvoiceID(d, height)
        deps == [deposits EXCEPT ![d] = upsertDeposit(d, height, status, o)]
    IN  /\ deposits' = deps
        /\ \/ /\ o = Nobody
              /\ Cardinality(MerchantsOf(Output[d].wallet)) <= 1
              /\ reviews' = reviews \cup unattributedReviews(d)
              /\ UNCHANGED <<invoices, events>>
           \/ /\ o # Nobody
              /\ invoices' = [invoices EXCEPT ![o] = Recomputed(deps, o)]
              /\ events' = events
                    \cup DetectionEvents(o, d, status)
                    \cup StatusChangeEvents(o, Recomputed(deps, o))
              /\ reviews' = reviews \cup StatusChangeReviews(o, Recomputed(deps, o))

\* ApplyScanEvent: the deposit and the cursor move in one transaction.  An
\* event at or below the cursor is skipped (no step).
ApplyScanEvent(e) ==
    LET w == Output[e.output].wallet
    IN  /\ e.cursor > cursor[w]
        /\ IF e.kind \in DepositKinds
           THEN applyDepositEvent(e.output, e.height, incomingStatus(e.kind))
           ELSE UNCHANGED <<invoices, deposits, events, reviews>>
        /\ cursor' = [cursor EXCEPT ![w] = e.cursor]
        /\ UNCHANGED <<now, refunds>>

\* Mutant of toConfirm: one block too many.
toConfirmLate(best) ==
    {d \in Outputs :
        /\ deposits[d].status = "detected"
        /\ deposits[d].invoice # Nobody
        /\ DeepEnough(best, deposits[d].height + 1, Order[deposits[d].invoice].required)}

\* The credited deposits that the best height confirms.
toConfirm(best) ==
    {d \in Outputs :
        /\ deposits[d].status = "detected"
        /\ deposits[d].invoice # Nobody
        /\ DeepEnough(best, deposits[d].height, Order[deposits[d].invoice].required)}

\* Mutant of confirmedDeposit: the sign of the required depth is wrong.
confirmedDepositSign(d) ==
    [deposits[d] EXCEPT
        !.status = "confirmed",
        !.confHeight = deposits[d].height - Required(Order[deposits[d].invoice].required) - 1]

\* confirmed_height is the height of the block that made the note deep enough.
confirmedDeposit(d) ==
    [deposits[d] EXCEPT
        !.status = "confirmed",
        !.confHeight = deposits[d].height + Required(Order[deposits[d].invoice].required) - 1]

\* UpdateInvoiceConfirmations: confirm, announce each deposit, then recompute
\* every invoice that was touched.
UpdateInvoiceConfirmations(best) ==
    LET ready    == toConfirm(best)
        deps     == [d \in Outputs |->
                        IF d \in ready THEN confirmedDeposit(d) ELSE deposits[d]]
        affected == {deposits[d].invoice : d \in ready}
    IN  /\ deposits' = deps
        /\ invoices' = [o \in Orders |->
                            IF o \in affected THEN Recomputed(deps, o) ELSE invoices[o]]
        /\ events' = events
                \cup {EventOf(deposits[d].invoice, "deposit.confirmed", d) : d \in ready}
                \cup UNION {StatusChangeEvents(o, Recomputed(deps, o)) : o \in affected}
        /\ reviews' = reviews
                \cup UNION {StatusChangeReviews(o, Recomputed(deps, o)) : o \in affected}
        /\ UNCHANGED <<now, cursor, refunds>>

refundEvent(status) == IF status = "sent" THEN "refund.sent" ELSE "refund.requested"

\* CreateRefund: a record only (no coins move), with an event when it names an
\* invoice; that invoice must belong to the merchant.
CreateRefund(r, m, o, status) ==
    /\ refunds[r].status = "absent"
    /\ o # Nobody => Exists(o) /\ Order[o].merchant = m
    /\ refunds' = [refunds EXCEPT ![r] = [merchant |-> m, invoice |-> o, status |-> status]]
    /\ events' = events \cup
            (IF o = Nobody THEN {} ELSE {EventOf(o, refundEvent(status), r)})
    /\ UNCHANGED <<now, invoices, deposits, cursor, reviews>>

\* ResolveReviewCase and RejectReviewCase: an unconditional UPDATE of the
\* status, which the unique index refuses when another case of the same
\* invoice and reason already has that status.
CloseReview(c, status) ==
    LET closed == [c EXCEPT !.status = status]
    IN  /\ closed = c \/ closed \notin reviews
        /\ reviews' = (reviews \ {c}) \cup {closed}
        /\ UNCHANGED <<now, invoices, deposits, cursor, events, refunds>>

ResolveReviewCase(c) == CloseReview(c, "resolved")
RejectReviewCase(c) == CloseReview(c, "rejected")

\* The server starts again: Store.Init rewrites the status of every invoice
\* from its stored sums, and emits nothing.
Restart ==
    /\ invoices' = [o \in Orders |->
            IF ~Exists(o) THEN invoices[o]
            ELSE [invoices[o] EXCEPT !.status =
                    backfillStatus(Order[o].amount, invoices[o].pending,
                                   invoices[o].confirmed, invoices[o].expires, now,
                                   Order[o].policy.late)]]
    /\ UNCHANGED <<now, deposits, cursor, events, reviews, refunds>>

Tick == /\ now < MaxTime
        /\ now' = now + 1
        /\ UNCHANGED <<invoices, deposits, cursor, events, reviews, refunds>>

Next ==
    \/ \E o \in Orders, best \in 0..MaxHeight : CreateInvoice(o, best)
    \/ \E e \in ScanEvents : ApplyScanEvent(e)
    \/ \E best \in 0..MaxHeight : UpdateInvoiceConfirmations(best)
    \/ \E r \in Refunds, m \in Merchants, o \in Orders \cup {Nobody},
          status \in {"requested", "sent"} : CreateRefund(r, m, o, status)
    \/ \E c \in reviews : ResolveReviewCase(c)
    \/ \E c \in reviews : RejectReviewCase(c)
    \/ Restart
    \/ Tick

Spec == Init /\ [][Next]_vars

---------------------------------------------------------------------------
(***************************************************************************)
(* Properties                                                              *)
(***************************************************************************)

\* Every table holds rows of its shape.
TypeOK ==
    /\ now \in Nat
    /\ invoices \in [Orders -> InvoiceRow]
    /\ deposits \in [Outputs -> DepositRow]
    /\ cursor \in [Wallets -> Nat]
    /\ events \subseteq Event
    /\ reviews \subseteq Review
    /\ refunds \in [Refunds -> RefundRow]

\* The merchant hears of every payment: an invoice that stands paid or overpaid
\* has the corresponding event, whatever path (deposit, confirmation, restart
\* backfill, deposit orphaned and back) led to the status.
PaidAnnounced ==
    \A o \in Orders :
        /\ invoices[o].status \in {"confirmed", "paid_late"} =>
              EventOf(o, "invoice.paid", Nobody) \in events
        /\ invoices[o].status = "overpaid" =>
              EventOf(o, "invoice.overpaid", Nobody) \in events

\* No coins disappear: a deposit the store knows of is credited to an invoice or
\* is the subject of a review case, if its wallet belongs to a merchant.
NoSilentDeposit ==
    \A d \in Outputs :
        /\ deposits[d].status # "absent"
        /\ MerchantsOf(Output[d].wallet) # {}
        => \/ deposits[d].invoice # Nobody
           \/ \E c \in reviews : c.subject = d /\ c.reason = "unknown_address"

\* The sums on an invoice are those of the deposits credited to it, each counted
\* once and on the right side, as long as they lie above created_after_height: a
\* credited deposit that a reorganisation moves at or below that height is updated
\* without recomputing its invoice (MemStore does recompute it).
AggregatesExact ==
    \A o \in Orders :
        LET mine == {d \in Outputs : deposits[d].invoice = o}
        IN  (\A d \in mine : CanApplyDeposit(deposits[d].height, invoices[o].after)) =>
              /\ invoices[o].pending =
                    SumAmounts({d \in mine : deposits[d].status \in {"detected", "unconfirmed"}})
              /\ invoices[o].confirmed =
                    SumAmounts({d \in mine : deposits[d].status = "confirmed"})

\* The stored status is what the stored sums say, with the expiry judged now or
\* at some earlier moment: writes by a deposit, by a confirmation and by the
\* start-up backfill (SQL, not Go) agree with one status function.
StatusExplained ==
    \A o \in Orders : Exists(o) =>
        \E late \in {FALSE, Expired(o)} :
            invoices[o].status =
                computeInvoiceStatus(Order[o].amount, invoices[o].pending,
                                     invoices[o].confirmed, late, Order[o].policy.late)

\* A policy that asks for a person gets one: an invoice resting in a status that
\* its policies send to manual review has a case, open or closed.
ReviewsRaised ==
    \A o \in Orders :
        LET HasCase(reason) == \E c \in reviews : c.subject = o /\ c.reason = reason
        IN  /\ invoices[o].status = "partial_confirmed"
               /\ Order[o].policy.partial = "reject_partial" => HasCase("partial_payment")
            /\ invoices[o].status = "overpaid"
               /\ Order[o].policy.over = "manual_review" => HasCase("overpayment")

\* A confirmed deposit is credited, announced and carries its confirmation
\* height, and a deposit that lost its confirmation carries none.
ConfirmedDepositSound ==
    \A d \in Outputs :
        /\ deposits[d].status = "confirmed" <=> deposits[d].confHeight # Null
        /\ deposits[d].status = "confirmed" =>
              /\ deposits[d].invoice # Nobody
              /\ EventOf(deposits[d].invoice, "deposit.confirmed", d) \in events

\* A merchant's events speak of the merchant's own business: a deposit named by an
\* event is one of its wallet and is still credited to that invoice, however often
\* it was orphaned and mined again; a refund event is that of the stored refund.
EventsOwned ==
    \A ev \in events :
        /\ Exists(ev.invoice)
        /\ ev.ref \in Outputs =>
              /\ deposits[ev.ref].invoice = ev.invoice
              /\ Output[ev.ref].wallet = WalletOf[Order[ev.invoice].merchant]
        /\ ev.ref \in Refunds =>
              /\ refunds[ev.ref].invoice = ev.invoice
              /\ refunds[ev.ref].merchant = Order[ev.invoice].merchant
              /\ ev.typ = refundEvent(refunds[ev.ref].status)

\* Under late_payment_policy = manual_review a payment that completes after the
\* expiry is put before a person by the very transaction that completes it.
LatePaymentReviewed ==
    [][\A o \in Orders :
          /\ invoices'[o].status = "confirmed"
          /\ invoices[o].status # "confirmed"
          /\ Expired(o)
          /\ Order[o].policy.late = "manual_review"
          => \E c \in reviews' : c.subject = o /\ c.reason = "late_payment"]_vars

\* Once credited, a deposit never changes hands, through any sequence of
\* reorganisations and repeated events.
AttributionSticky ==
    [][\A d \in Outputs : deposits[d].invoice # Nobody =>
            deposits'[d].invoice = deposits[d].invoice]_vars
===========================================================================
