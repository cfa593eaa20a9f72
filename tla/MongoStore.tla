---------------------------- MODULE MongoStore ----------------------------
(***************************************************************************)
(* The MongoDB store of juno-pay-server (internal/store/mongo): the        *)
(* collections invoices, deposits, scan_cursors, invoice_events,           *)
(* review_cases and refunds.  A collection is a function on the documents  *)
(* that exist; the writes are upserts and conditional updates, each method *)
(* in one session.WithTransaction.  Counters and timestamps are left out.  *)
(*                                                                         *)
(* Call by call the store does what SqlStore does (SameCalls, Implements), *)
(* but for a note that is reported without an address: SqlStore records it *)
(* and opens a review case, this store only moves the scan cursor.         *)
(***************************************************************************)
EXTENDS StoreTypes

\* The unique index on merchant_wallets.wallet_id.
ASSUME WalletIdUnique == \A m, n \in Merchants : WalletOf[m] = WalletOf[n] => m = n

VARIABLES
    now,            \* wall clock
    invoiceDocs,    \* collection invoices, by external order
    depositDocs,    \* collection deposits; invoice = Nobody: no invoice_id field
    scanCursors,    \* collection scan_cursors, by wallet_id
    eventDocs,      \* collection invoice_events: the dedupe_keys
    reviewDocs,     \* collection review_cases
    refundDocs      \* collection refunds

vars == <<now, invoiceDocs, depositDocs, scanCursors, eventDocs, reviewDocs, refundDocs>>

NoDocs == [x \in {} |-> Nobody]

Init ==
    /\ now = 0
    /\ invoiceDocs = NoDocs /\ depositDocs = NoDocs /\ scanCursors = NoDocs
    /\ eventDocs = {} /\ reviewDocs = {}
    /\ refundDocs = NoDocs

---------------------------------------------------------------------------
\* The collection after document key was written, inserted or not.
Write(docs, key, doc) == [k \in DOMAIN docs \cup {key} |-> IF k = key THEN doc ELSE docs[k]]

\* insertInvoiceEvent upserts on the dedupe_key.
invoiceEventDedupeKey(o, typ, ref) == [invoice |-> o, typ |-> typ, ref |-> ref]

\* createReviewCase for an invoice upserts on the open case of that reason.
reviewOf(subject, reason) == [subject |-> subject, reason |-> reason, status |-> "open"]

expired(o) == invoiceDocs[o].expires # Null /\ now > invoiceDocs[o].expires

\* $match invoice_id and status, $group, $sum
sumDeposits(docs, o, statuses) ==
    SumAmounts({d \in DOMAIN docs : docs[d].invoice = o /\ docs[d].status \in statuses})

\* recomputeInvoiceAggregates: the document it writes, and what a change of
\* status inserts.
aggregates(docs, o) ==
    LET pendingSum   == sumDeposits(docs, o, {"detected", "unconfirmed"})
        confirmedSum == sumDeposits(docs, o, {"confirmed"})
    IN  [invoiceDocs[o] EXCEPT
            !.pending = pendingSum, !.confirmed = confirmedSum,
            !.status = computeInvoiceStatus(Order[o].amount, pendingSum, confirmedSum,
                                            expired(o), Order[o].policy.late)]

newEvents(o, doc) ==
    IF doc.status = invoiceDocs[o].status \/ statusEvent(doc.status) = "none" THEN {}
    ELSE {invoiceEventDedupeKey(o, statusEvent(doc.status), Nobody)}

newReviews(o, doc) ==
    LET reason == policyReview(doc.status, expired(o), doc.confirmed = Order[o].amount,
                               Order[o].policy)
    IN  IF doc.status = invoiceDocs[o].status \/ reason = "none" THEN {}
        ELSE {reviewOf(o, reason)}

---------------------------------------------------------------------------
\* A repeated order fails on the unique index and changes nothing.
CreateInvoice(o, best) ==
    /\ o \notin DOMAIN invoiceDocs
    /\ invoiceDocs' = Write(invoiceDocs, o,
            [status |-> "open", pending |-> 0, confirmed |-> 0, after |-> best,
             expires |-> IF Order[o].ttl = 0 THEN Null ELSE now + Order[o].ttl])
    /\ eventDocs' = eventDocs \cup {invoiceEventDedupeKey(o, "invoice.created", Nobody)}
    /\ UNCHANGED <<now, depositDocs, scanCursors, reviewDocs, refundDocs>>

\* Mutant of incomingStatus: an orphaned deposit is taken for an unconfirmed one.
incomingStatusSwapped(kind) ==
    CASE kind \in {"DepositEvent", "DepositConfirmed"} -> "detected"
      [] kind = "DepositUnconfirmed" -> "orphaned"
      [] kind = "DepositOrphaned" -> "unconfirmed"

incomingStatus(kind) ==
    CASE kind \in {"DepositEvent", "DepositConfirmed"} -> "detected"
      [] kind = "DepositUnconfirmed" -> "unconfirmed"
      [] kind = "DepositOrphaned" -> "orphaned"

\* FindOne by (wallet_id, address_hash), then the height rule.
applyInvoiceID(d, height) ==
    LET o == Output[d].to
    IN  IF /\ o \in DOMAIN invoiceDocs
           /\ WalletOf[Order[o].merchant] = Output[d].wallet
           /\ CanApplyDeposit(height, invoiceDocs[o].after)
        THEN o ELSE Nobody

\* finalStatus and finalConfirmedHeight; invoice_id is set on insert only.
upsertDeposit(d, height, incoming, o) ==
    LET found == d \in DOMAIN depositDocs
        keep  == found /\ depositDocs[d].status = "confirmed" /\ incoming = "detected"
    IN  [status |-> IF keep THEN "confirmed" ELSE incoming,
         height |-> height,
         confHeight |-> IF keep THEN depositDocs[d].confHeight ELSE Null,
         invoice |-> IF found THEN depositDocs[d].invoice ELSE o]

\* Mutant of attribute: invoice_id is never set after the insert.
attributeOnInsert(doc, o) == doc

\* The second update: invoice_id is set once, where there is none.
attribute(doc, o) ==
    IF o # Nobody /\ doc.invoice = Nobody THEN [doc EXCEPT !.invoice = o] ELSE doc

\* createReviewCase for a deposit: at most one per deposit and reason, whatever
\* its status.
unknownAddress(d) ==
    IF /\ \E m \in Merchants : WalletOf[m] = Output[d].wallet
       /\ ~\E c \in reviewDocs : c.subject = d /\ c.reason = "unknown_address"
    THEN {reviewOf(d, "unknown_address")}
    ELSE {}

\* What follows the lookup: the deposit, then the case or the invoice.
recordDeposit(d, height, incoming) ==
    LET o    == applyInvoiceID(d, height)
        docs == Write(depositDocs, d, attribute(upsertDeposit(d, height, incoming, o), o))
    IN  /\ depositDocs' = docs
        /\ \/ /\ o = Nobody
              /\ reviewDocs' = reviewDocs \cup unknownAddress(d)
              /\ UNCHANGED <<invoiceDocs, eventDocs>>
           \/ /\ o # Nobody
              /\ invoiceDocs' = Write(invoiceDocs, o, aggregates(docs, o))
              /\ eventDocs' = eventDocs
                    \cup {invoiceEventDedupeKey(o, "deposit.detected", x) :
                            x \in IF incoming = "detected" THEN {d} ELSE {}}
                    \cup newEvents(o, aggregates(docs, o))
              /\ reviewDocs' = reviewDocs \cup newReviews(o, aggregates(docs, o))

\* A report without an address returns before anything is looked up or written.
applyDepositEvent(d, height, incoming) ==
    \/ /\ d \in Unaddressed
       /\ UNCHANGED <<invoiceDocs, depositDocs, eventDocs, reviewDocs>>
    \/ /\ d \notin Unaddressed
       /\ recordDeposit(d, height, incoming)

lastCursor(w) == IF w \in DOMAIN scanCursors THEN scanCursors[w] ELSE 0

ApplyScanEvent(e) ==
    LET w == Output[e.output].wallet
    IN  /\ e.cursor > lastCursor(w)
        /\ \/ /\ e.kind \in DepositKinds
              /\ applyDepositEvent(e.output, e.height, incomingStatus(e.kind))
           \/ /\ e.kind \notin DepositKinds
              /\ UNCHANGED <<invoiceDocs, depositDocs, eventDocs, reviewDocs>>
        /\ scanCursors' = Write(scanCursors, w, e.cursor)
        /\ UNCHANGED <<now, refundDocs>>

\* The deposits the cursor of UpdateInvoiceConfirmations returns and keeps.
confirmable(best) ==
    {d \in DOMAIN depositDocs :
        /\ depositDocs[d].status = "detected"
        /\ depositDocs[d].invoice \in DOMAIN invoiceDocs
        /\ DeepEnough(best, depositDocs[d].height, Order[depositDocs[d].invoice].required)}

confirmedDoc(d) ==
    [depositDocs[d] EXCEPT
        !.status = "confirmed",
        !.confHeight =
            depositDocs[d].height + Required(Order[depositDocs[d].invoice].required) - 1]

UpdateInvoiceConfirmations(best) ==
    LET ready    == confirmable(best)
        docs     == [d \in DOMAIN depositDocs |->
                        IF d \in ready THEN confirmedDoc(d) ELSE depositDocs[d]]
        affected == {depositDocs[d].invoice : d \in ready}
    IN  /\ depositDocs' = docs
        /\ invoiceDocs' = [o \in DOMAIN invoiceDocs |->
                              IF o \in affected THEN aggregates(docs, o) ELSE invoiceDocs[o]]
        /\ eventDocs' = eventDocs
              \cup {invoiceEventDedupeKey(depositDocs[d].invoice, "deposit.confirmed", d) :
                        d \in ready}
              \cup UNION {newEvents(o, aggregates(docs, o)) : o \in affected}
        /\ reviewDocs' = reviewDocs \cup UNION {newReviews(o, aggregates(docs, o)) : o \in affected}
        /\ UNCHANGED <<now, scanCursors, refundDocs>>

\* The event that goes with a refund of the given status.
refundEvent(status) == IF status = "sent" THEN "refund.sent" ELSE "refund.requested"

CreateRefund(r, m, o, status) ==
    /\ r \notin DOMAIN refundDocs
    /\ o # Nobody => o \in DOMAIN invoiceDocs /\ Order[o].merchant = m
    /\ refundDocs' = Write(refundDocs, r, [merchant |-> m, invoice |-> o, status |-> status])
    /\ eventDocs' = eventDocs \cup
            {invoiceEventDedupeKey(x, refundEvent(status), r) : x \in {o} \ {Nobody}}
    /\ UNCHANGED <<now, invoiceDocs, depositDocs, scanCursors, reviewDocs>>

\* UpdateOne on the case; the unique index refuses a second case of the same
\* invoice, reason and status.
updateReviewCaseStatus(c, status) ==
    LET closed == [c EXCEPT !.status = status]
    IN  /\ closed = c \/ closed \notin reviewDocs
        /\ reviewDocs' = (reviewDocs \ {c}) \cup {closed}
        /\ UNCHANGED <<now, invoiceDocs, depositDocs, scanCursors, eventDocs, refundDocs>>

Tick == /\ now < MaxTime
        /\ now' = now + 1
        /\ UNCHANGED <<invoiceDocs, depositDocs, scanCursors, eventDocs, reviewDocs, refundDocs>>

\* Store.Init only ensures the indexes: a restart leaves the documents alone.
Next ==
    \/ \E o \in Orders, best \in 0..MaxHeight : CreateInvoice(o, best)
    \/ \E e \in ScanEvents : ApplyScanEvent(e)
    \/ \E best \in 0..MaxHeight : UpdateInvoiceConfirmations(best)
    \/ \E r \in Refunds, m \in Merchants, o \in Orders \cup {Nobody},
          status \in {"requested", "sent"} : CreateRefund(r, m, o, status)
    \/ \E c \in reviewDocs, status \in {"resolved", "rejected"} :
          updateReviewCaseStatus(c, status)
    \/ Tick

Spec == Init /\ [][Next]_vars

---------------------------------------------------------------------------
(***************************************************************************)
(* Properties                                                              *)
(***************************************************************************)

\* The rows of the SQL tables that a collection stands for.
Rows(docs, keys, none) == [k \in keys |-> IF k \in DOMAIN docs THEN docs[k] ELSE none]

Sql == INSTANCE SqlStore WITH
    invoices <- Rows(invoiceDocs, Orders, NoInvoice),
    deposits <- Rows(depositDocs, Outputs, NoDeposit),
    cursor   <- Rows(scanCursors, Wallets, 0),
    events   <- eventDocs,
    reviews  <- reviewDocs,
    refunds  <- Rows(refundDocs, Refunds, NoRefund)

\* The scan event SqlStore would have to be given to do what this store does with
\* e: the same one, unless it reports a note without an address.
AsSql(e) ==
    IF e.kind \in DepositKinds /\ e.output \in Unaddressed
    THEN [e EXCEPT !.kind = "Other"] ELSE e

\* A call leaves the rows that the same call with the same arguments leaves in the
\* SQL store: upserts, set-once updates and the missing fields of documents add up.
\* The one exception is a report without an address, which this store treats as
\* SQL treats an event it does not know: no deposit, no case, only the cursor.
SameCalls ==
    [][/\ \A o \in Orders, best \in 0..MaxHeight :
             CreateInvoice(o, best) => Sql!CreateInvoice(o, best)
       /\ \A e \in ScanEvents : ApplyScanEvent(e) => Sql!ApplyScanEvent(AsSql(e))
       /\ \A best \in 0..MaxHeight :
             UpdateInvoiceConfirmations(best) => Sql!UpdateInvoiceConfirmations(best)
       /\ \A r \in Refunds, m \in Merchants, o \in Orders \cup {Nobody},
             status \in {"requested", "sent"} :
             CreateRefund(r, m, o, status) => Sql!CreateRefund(r, m, o, status)
       /\ \A c \in reviewDocs :
             /\ updateReviewCaseStatus(c, "resolved") => Sql!ResolveReviewCase(c)
             /\ updateReviewCaseStatus(c, "rejected") => Sql!RejectReviewCase(c)]_vars

\* So every behaviour of the MongoDB store is one of the SQL store, and what holds
\* of all behaviours of SqlStore holds here; NoSilentDeposit among it, which speaks
\* of recorded deposits and hence not of notes without an address.
Implements == Sql!Spec
===========================================================================
