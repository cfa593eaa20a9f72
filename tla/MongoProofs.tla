---------------------------- MODULE MongoProofs ----------------------------
(***************************************************************************)
(* The MongoDB store implements the SQL store, for every set of invoices,  *)
(* notes, wallets, merchants, refunds and policies.                        *)
(***************************************************************************)
EXTENDS MongoStore, FiniteSetTheorems, TLAPS

USE ConstantsAssumption

\* A document of invoices.
InvoiceDoc(doc) ==
    /\ doc = [status |-> doc.status, pending |-> doc.pending, confirmed |-> doc.confirmed,
              after |-> doc.after, expires |-> doc.expires]
    /\ doc.status \in InvoiceStatuses

\* Documents exist for known keys and have the fields that were written.
InvoiceShape ==
    /\ DOMAIN invoiceDocs \subseteq Orders
    /\ \A o \in DOMAIN invoiceDocs : InvoiceDoc(invoiceDocs[o])
DepositShape ==
    /\ DOMAIN depositDocs \subseteq Outputs
    /\ \A d \in DOMAIN depositDocs :
          depositDocs[d] \in DepositRow /\ depositDocs[d].status \in DepositStatuses
CursorShape == DOMAIN scanCursors \subseteq Wallets
RefundShape ==
    /\ DOMAIN refundDocs \subseteq Refunds
    /\ \A r \in DOMAIN refundDocs : refundDocs[r].status \in {"requested", "sent"}

\* A deposit has a confirmation height exactly while it is confirmed.
ConfirmationHeights ==
    \A d \in DOMAIN depositDocs :
        depositDocs[d].status = "confirmed" <=> depositDocs[d].confHeight # Null

\* A credited deposit is credited to an invoice that exists.
CreditsExist ==
    \A d \in DOMAIN depositDocs :
        depositDocs[d].invoice # Nobody => depositDocs[d].invoice \in DOMAIN invoiceDocs

\* A case whose subject is a deposit is about its unknown address.
DepositCases ==
    \A c \in reviewDocs :
        c \in Review /\ (c.subject \in Outputs => c.reason = "unknown_address")

\* The inductive invariant.
Inv ==
    /\ InvoiceShape /\ DepositShape /\ CursorShape /\ RefundShape
    /\ ConfirmationHeights
    /\ CreditsExist
    /\ DepositCases

---------------------------------------------------------------------------
(* The instance of SqlStore shares the constants and the accounting rules. *)

\* The constant operators of the two stores are the same.
LEMMA SharedConstants ==
  /\ Sql!Null = Null
  /\ Sql!NoInvoice = NoInvoice /\ Sql!NoDeposit = NoDeposit /\ Sql!NoRefund = NoRefund
  /\ Sql!DepositKinds = DepositKinds /\ Sql!ScanEvents = ScanEvents
  BY DEF Sql!Null, Null, Sql!NoInvoice, NoInvoice, Sql!NoDeposit, NoDeposit, Sql!NoRefund,
         NoRefund, Sql!DepositKinds, DepositKinds, Sql!ScanEvents, ScanEvents

\* Both stores add up amounts in the same way.
LEMMA SameSum ==
  ASSUME NEW S
  PROVE  Sql!SumAmounts(S) = SumAmounts(S)
  BY DEF Sql!SumAmounts, SumAmounts, Sql!MapThenSumSet, MapThenSumSet, Sql!MapThenFoldSet,
         MapThenFoldSet

\* The row at a key is its document, or the empty row.
LEMMA RowsAt ==
  ASSUME NEW docs, NEW keys, NEW none, NEW k \in keys
  PROVE  Rows(docs, keys, none)[k] = IF k \in DOMAIN docs THEN docs[k] ELSE none
  BY DEF Rows

\* Writing a document is updating or inserting its row.
LEMMA RowsWrite ==
  ASSUME NEW docs, NEW keys, NEW none, NEW k \in keys, NEW doc
  PROVE  Rows(Write(docs, k, doc), keys, none) = [Rows(docs, keys, none) EXCEPT ![k] = doc]
  BY DEF Rows, Write

\* An invoice exists in both stores, and expires in both, at the same time.
LEMMA SameInvoice ==
  ASSUME Inv, NEW o \in Orders
  PROVE  /\ Sql!Exists(o) <=> o \in DOMAIN invoiceDocs
         /\ o \in DOMAIN invoiceDocs => (Sql!Expired(o) <=> expired(o))
<1>1. o \in DOMAIN invoiceDocs => invoiceDocs[o].status # "absent"
  BY DEF Inv, InvoiceShape, InvoiceDoc, InvoiceStatuses
<1>2. Sql!Exists(o) <=> o \in DOMAIN invoiceDocs
  BY <1>1, RowsAt DEF Sql!Exists, NoInvoice
<1>3. o \in DOMAIN invoiceDocs => (Sql!Expired(o) <=> expired(o))
  BY RowsAt, SharedConstants DEF Sql!Expired, expired
<1> QED BY <1>2, <1>3

\* The lookup by address finds the same invoice.
LEMMA SameLookup ==
  ASSUME Inv, NEW d \in Outputs, NEW height
  PROVE  /\ Sql!applyInvoiceID(d, height) = applyInvoiceID(d, height)
         /\ applyInvoiceID(d, height) # Nobody =>
              applyInvoiceID(d, height) \in DOMAIN invoiceDocs
         /\ applyInvoiceID(d, height) \in Orders \cup {Nobody}
<1> DEFINE o == Output[d].to
<1>1. o \in Orders \cup {Nobody}
  BY DEF OutputRow
<1>2. DOMAIN invoiceDocs \subseteq Orders
  BY DEF Inv, InvoiceShape
<1>3. CASE o = Nobody
  BY <1>2, <1>3 DEF Sql!applyInvoiceID, applyInvoiceID
<1>4. CASE o \in Orders
  <2>1. Sql!Exists(o) <=> o \in DOMAIN invoiceDocs
    BY <1>4, SameInvoice
  <2>2. o \in DOMAIN invoiceDocs => Rows(invoiceDocs, Orders, NoInvoice)[o] = invoiceDocs[o]
    BY <1>4, RowsAt
  <2> QED BY <1>4, <2>1, <2>2 DEF Sql!applyInvoiceID, applyInvoiceID, Sql!CanApplyDeposit,
                                  CanApplyDeposit
<1> QED BY <1>1, <1>3, <1>4

\* The upsert and the set-once update leave the row of UPDATE or INSERT.
LEMMA SameUpsert ==
  ASSUME Inv, NEW d \in Outputs, NEW height \in Nat,
         NEW status \in {"detected", "unconfirmed", "orphaned"},
         NEW o \in Orders \cup {Nobody}, o # Nobody => o \in DOMAIN invoiceDocs
  PROVE  LET doc == attribute(upsertDeposit(d, height, status, o), o)
         IN  /\ Sql!upsertDeposit(d, height, status, o) = doc
             /\ doc \in DepositRow /\ doc.status \in DepositStatuses
             /\ doc.status = "confirmed" <=> doc.confHeight # Null
             /\ doc.invoice # Nobody => doc.invoice \in DOMAIN invoiceDocs
<1> DEFINE found == d \in DOMAIN depositDocs
           old == IF found THEN depositDocs[d] ELSE NoDeposit
           keep == old.status = "confirmed" /\ status = "detected"
           row == [status |-> IF keep THEN "confirmed" ELSE status,
                   height |-> height,
                   confHeight |-> IF keep THEN old.confHeight ELSE Null,
                   invoice |-> IF old.invoice # Nobody THEN old.invoice ELSE o]
<1>1. Rows(depositDocs, Outputs, NoDeposit)[d] = old
  BY RowsAt
<1>2. old \in DepositRow /\ (old.status = "confirmed" <=> old.confHeight # Null)
      /\ (old.invoice # Nobody => old.invoice \in DOMAIN invoiceDocs)
  BY DEF Inv, DepositShape, ConfirmationHeights, CreditsExist, NoDeposit, DepositRow
<1>3. Sql!upsertDeposit(d, height, status, o) = row
  <2>1. status = "detected" \/ status \in {"unconfirmed", "orphaned"}
    OBVIOUS
  <2>2. Sql!upsertDeposit(d, height, status, o) =
          [status |-> IF keep THEN "confirmed" ELSE status,
           height |-> height,
           confHeight |-> IF status \in {"unconfirmed", "orphaned"} THEN Null
                          ELSE old.confHeight,
           invoice |-> IF old.invoice # Nobody THEN old.invoice ELSE o]
    BY <1>1, SharedConstants DEF Sql!upsertDeposit
  <2>3. (IF status \in {"unconfirmed", "orphaned"} THEN Null ELSE old.confHeight)
          = (IF keep THEN old.confHeight ELSE Null)
    BY <1>2, <2>1
  <2> QED BY <2>2, <2>3
<1>4. attribute(upsertDeposit(d, height, status, o), o) = row
  <2>1. CASE found
    BY <2>1, <1>2 DEF attribute, upsertDeposit
  <2>2. CASE ~found
    BY <2>2 DEF attribute, upsertDeposit, NoDeposit
  <2> QED BY <2>1, <2>2
<1>5. row \in DepositRow /\ row.status \in DepositStatuses
  BY <1>2 DEF DepositRow, DepositStatuses
<1>6. row.status = "confirmed" <=> row.confHeight # Null
  BY <1>2
<1>7. row.invoice # Nobody => row.invoice \in DOMAIN invoiceDocs
  BY <1>2
<1> QED BY <1>3, <1>4, <1>5, <1>6, <1>7

---------------------------------------------------------------------------
(* The recomputation of an invoice. *)

\* The sum over the documents of an invoice is the sum over its rows.
LEMMA SameReceived ==
  ASSUME NEW docs, DOMAIN docs \subseteq Outputs, NEW o \in Orders, NEW statuses
  PROVE  Sql!Received(Rows(docs, Outputs, NoDeposit), o, statuses) = sumDeposits(docs, o, statuses)
<1> DEFINE rows == Rows(docs, Outputs, NoDeposit)
           S == {d \in Outputs : rows[d].invoice = o /\ rows[d].status \in statuses}
           T == {d \in DOMAIN docs : docs[d].invoice = o /\ docs[d].status \in statuses}
<1>1. \A d \in Outputs : rows[d] = IF d \in DOMAIN docs THEN docs[d] ELSE NoDeposit
  BY RowsAt
<1>2. NoDeposit.invoice = Nobody /\ o # Nobody
  BY DEF NoDeposit
<1>3. S = T
  <2> HIDE DEF rows
  <2> QED BY <1>1, <1>2
<1>4. Sql!SumAmounts(S) = SumAmounts(S)
  <2> HIDE DEF S
  <2> QED BY SameSum, Zenon
<1> QED BY <1>3, <1>4, Zenon DEF Sql!Received, sumDeposits

\* The recomputed document is the recomputed row.
LEMMA SameAggregates ==
  ASSUME Inv, NEW o \in DOMAIN invoiceDocs, NEW docs, DOMAIN docs \subseteq Outputs
  PROVE  Sql!Recomputed(Rows(docs, Outputs, NoDeposit), o) = aggregates(docs, o)
<1> DEFINE rows == Rows(docs, Outputs, NoDeposit)
           pending == sumDeposits(docs, o, {"detected", "unconfirmed"})
           confirmed == sumDeposits(docs, o, {"confirmed"})
<1>1. o \in Orders
  BY DEF Inv, InvoiceShape
<1>2. Sql!Received(rows, o, {"detected", "unconfirmed"}) = pending
      /\ Sql!Received(rows, o, {"confirmed"}) = confirmed
  BY <1>1, SameReceived
<1>3. Rows(invoiceDocs, Orders, NoInvoice)[o] = invoiceDocs[o]
  BY <1>1, RowsAt
<1>4. Sql!Expired(o) = expired(o)
  BY <1>1, SharedConstants, <1>3 DEF Sql!Expired, expired
<1>5. Sql!computeInvoiceStatus(Order[o].amount, pending, confirmed, Sql!Expired(o),
                               Order[o].policy.late)
        = computeInvoiceStatus(Order[o].amount, pending, confirmed, expired(o),
                               Order[o].policy.late)
  <2> HIDE DEF pending, confirmed
  <2> QED BY <1>4, Zenon DEF Sql!computeInvoiceStatus, computeInvoiceStatus
<1> HIDE DEF pending, confirmed, rows
<1>6. Sql!Recomputed(rows, o) =
        [invoiceDocs[o] EXCEPT
            !.pending = pending, !.confirmed = confirmed,
            !.status = computeInvoiceStatus(Order[o].amount, pending, confirmed,
                                            expired(o), Order[o].policy.late)]
  BY <1>2, <1>3, <1>5, Zenon DEF Sql!Recomputed
<1>7. aggregates(docs, o) =
        [invoiceDocs[o] EXCEPT
            !.pending = pending, !.confirmed = confirmed,
            !.status = computeInvoiceStatus(Order[o].amount, pending, confirmed,
                                            expired(o), Order[o].policy.late)]
  BY Zenon DEF aggregates, pending, confirmed
<1> QED BY <1>6, <1>7, Zenon DEF rows

\* A change of status inserts the same event and the same review case.
LEMMA SameInserts ==
  ASSUME Inv, NEW o \in DOMAIN invoiceDocs, NEW doc
  PROVE  /\ Sql!StatusChangeEvents(o, doc) = newEvents(o, doc)
         /\ Sql!StatusChangeReviews(o, doc) = newReviews(o, doc)
<1>1. o \in Orders
  BY DEF Inv, InvoiceShape
<1>2. Rows(invoiceDocs, Orders, NoInvoice)[o] = invoiceDocs[o]
  BY <1>1, RowsAt
<1>3. Sql!Expired(o) = expired(o)
  BY <1>1, SharedConstants, <1>2 DEF Sql!Expired, expired
<1>4. Sql!statusEvent(doc.status) = statusEvent(doc.status)
  BY Zenon DEF Sql!statusEvent, statusEvent
<1>5. Sql!policyReview(doc.status, Sql!Expired(o), doc.confirmed = Order[o].amount, Order[o].policy)
        = policyReview(doc.status, expired(o), doc.confirmed = Order[o].amount, Order[o].policy)
  BY <1>3, Zenon DEF Sql!policyReview, policyReview
<1>6. Sql!StatusChangeEvents(o, doc) = newEvents(o, doc)
  BY <1>2, <1>4 DEF Sql!StatusChangeEvents, newEvents, Sql!EventOf, invoiceEventDedupeKey
<1> DEFINE reason == policyReview(doc.status, expired(o), doc.confirmed = Order[o].amount,
                                  Order[o].policy)
<1>7. Sql!StatusChangeReviews(o, doc) =
        IF doc.status # invoiceDocs[o].status /\ reason # "none"
        THEN {[subject |-> o, reason |-> reason, status |-> "open"]} ELSE {}
  BY <1>2, <1>5, Zenon DEF Sql!StatusChangeReviews
<1>8. newReviews(o, doc) =
        IF doc.status = invoiceDocs[o].status \/ reason = "none" THEN {}
        ELSE {[subject |-> o, reason |-> reason, status |-> "open"]}
  BY Zenon DEF newReviews, reviewOf
<1> HIDE DEF reason
<1>9. Sql!StatusChangeReviews(o, doc) = newReviews(o, doc)
  BY <1>7, <1>8
<1> QED BY <1>6, <1>9

---------------------------------------------------------------------------
(* What a written document does to the invariant. *)

\* A document of the right shape keeps the collection of invoices in shape and
\* the others where they are.
LEMMA InvoiceWritten ==
  ASSUME Inv, NEW o \in Orders, NEW doc, InvoiceDoc(doc),
         invoiceDocs' = Write(invoiceDocs, o, doc)
  PROVE  InvoiceShape' /\ DOMAIN invoiceDocs \subseteq DOMAIN invoiceDocs'
<1>1. /\ DOMAIN invoiceDocs' = DOMAIN invoiceDocs \cup {o}
      /\ invoiceDocs'[o] = doc
      /\ \A x \in DOMAIN invoiceDocs : x # o => invoiceDocs'[x] = invoiceDocs[x]
  BY DEF Write
<1>2. InvoiceShape
  BY DEF Inv
<1> QED BY <1>1, <1>2 DEF InvoiceShape

\* The recomputed document has the shape of one.
LEMMA AggregatesShape ==
  ASSUME Inv, NEW o \in DOMAIN invoiceDocs, NEW docs
  PROVE  InvoiceDoc(aggregates(docs, o))
<1> DEFINE pending == sumDeposits(docs, o, {"detected", "unconfirmed"})
           confirmed == sumDeposits(docs, o, {"confirmed"})
           status == computeInvoiceStatus(Order[o].amount, pending, confirmed,
                                          expired(o), Order[o].policy.late)
<1>1. aggregates(docs, o) = [invoiceDocs[o] EXCEPT
            !.pending = pending, !.confirmed = confirmed, !.status = status]
  BY Zenon DEF aggregates
<1>2. status \in InvoiceStatuses
  <2> HIDE DEF pending, confirmed
  <2> QED BY Zenon DEF computeInvoiceStatus, InvoiceStatuses
<1>3. InvoiceDoc(invoiceDocs[o])
  BY DEF Inv, InvoiceShape
<1> HIDE DEF pending, confirmed, status
<1> QED BY <1>1, <1>2, <1>3 DEF InvoiceDoc

\* The cases that a recomputation opens are about the invoice.
LEMMA NewReviewsShape ==
  ASSUME NEW o \in Orders, NEW doc, NEW c \in newReviews(o, doc)
  PROVE  c \in Review /\ c.subject \notin Outputs
<1> DEFINE reason == policyReview(doc.status, expired(o), doc.confirmed = Order[o].amount,
                                  Order[o].policy)
<1>1. newReviews(o, doc) =
        IF doc.status = invoiceDocs[o].status \/ reason = "none" THEN {}
        ELSE {[subject |-> o, reason |-> reason, status |-> "open"]}
  BY Zenon DEF newReviews, reviewOf
<1>2. reason \in Reasons \cup {"none"}
  BY Zenon DEF policyReview, Reasons
<1> HIDE DEF reason
<1> QED BY <1>1, <1>2 DEF Review

---------------------------------------------------------------------------
(* The actions: each preserves the invariant and is a step of SqlStore. *)

\* The insert of CreateInvoice is SQL's INSERT.
LEMMA CreateInvoiceStep ==
  ASSUME Inv, NEW o \in Orders, NEW best, CreateInvoice(o, best)
  PROVE  Inv' /\ Sql!CreateInvoice(o, best)
<1> DEFINE doc == [status |-> "open", pending |-> 0, confirmed |-> 0, after |-> best,
                   expires |-> IF Order[o].ttl = 0 THEN Null ELSE now + Order[o].ttl]
<1>1. invoiceDocs' = Write(invoiceDocs, o, doc)
  BY DEF CreateInvoice
<1>2. InvoiceDoc(doc)
  BY DEF InvoiceDoc, InvoiceStatuses
<1>3. Rows(invoiceDocs', Orders, NoInvoice) = [Rows(invoiceDocs, Orders, NoInvoice) EXCEPT ![o] = doc]
  <2> HIDE DEF doc
  <2> QED BY <1>1, RowsWrite
<1>4. ~Sql!Exists(o)
  BY SameInvoice DEF CreateInvoice
<1>5. Sql!CreateInvoice(o, best)
  BY <1>3, <1>4, SharedConstants DEF Sql!CreateInvoice, CreateInvoice, Sql!EventOf,
     invoiceEventDedupeKey
<1>6. InvoiceShape' /\ DOMAIN invoiceDocs \subseteq DOMAIN invoiceDocs'
  <2> HIDE DEF doc
  <2> QED BY <1>1, <1>2, InvoiceWritten
<1>7. Inv'
  BY <1>6 DEF CreateInvoice, Inv, DepositShape, CursorShape, RefundShape, ConfirmationHeights,
     CreditsExist, DepositCases
<1> QED BY <1>5, <1>7

\* CreateRefund, with and without an invoice, records the same refund and event.
LEMMA CreateRefundStep ==
  ASSUME Inv, NEW r \in Refunds, NEW m \in Merchants, NEW o \in Orders \cup {Nobody},
         NEW status \in {"requested", "sent"}, CreateRefund(r, m, o, status)
  PROVE  Inv' /\ Sql!CreateRefund(r, m, o, status)
<1> DEFINE doc == [merchant |-> m, invoice |-> o, status |-> status]
<1>1. refundDocs' = Write(refundDocs, r, doc) /\ r \notin DOMAIN refundDocs
  BY DEF CreateRefund
<1>2. Rows(refundDocs', Refunds, NoRefund) = [Rows(refundDocs, Refunds, NoRefund) EXCEPT ![r] = doc]
  <2> HIDE DEF doc
  <2> QED BY <1>1, RowsWrite
<1>3. Rows(refundDocs, Refunds, NoRefund)[r].status = "absent"
  BY <1>1, RowsAt DEF NoRefund
<1>4. o # Nobody => Sql!Exists(o) /\ Order[o].merchant = m
  BY SameInvoice DEF CreateRefund
<1>5. {invoiceEventDedupeKey(x, refundEvent(status), r) : x \in {o} \ {Nobody}}
        = IF o = Nobody THEN {} ELSE {Sql!EventOf(o, Sql!refundEvent(status), r)}
  BY DEF invoiceEventDedupeKey, refundEvent, Sql!EventOf, Sql!refundEvent
<1>6. Sql!CreateRefund(r, m, o, status)
  BY <1>2, <1>3, <1>4, <1>5, SharedConstants DEF Sql!CreateRefund, CreateRefund
<1>7. RefundShape'
  <2>1. /\ DOMAIN refundDocs' = DOMAIN refundDocs \cup {r}
        /\ refundDocs'[r] = doc
        /\ \A x \in DOMAIN refundDocs : x # r => refundDocs'[x] = refundDocs[x]
    <3> HIDE DEF doc
    <3> QED BY <1>1 DEF Write
  <2> QED BY <2>1 DEF Inv, RefundShape
<1>8. Inv'
  BY <1>7 DEF CreateRefund, Inv, InvoiceShape, DepositShape, CursorShape, ConfirmationHeights,
     CreditsExist, DepositCases
<1> QED BY <1>6, <1>8

\* updateReviewCaseStatus serves both ResolveReviewCase and RejectReviewCase.
LEMMA UpdateReviewCaseStep ==
  ASSUME Inv, NEW c \in reviewDocs, NEW status \in {"resolved", "rejected"},
         updateReviewCaseStatus(c, status)
  PROVE  Inv' /\ (Sql!ResolveReviewCase(c) \/ Sql!RejectReviewCase(c))
<1>1. Sql!CloseReview(c, status)
  BY DEF updateReviewCaseStatus, Sql!CloseReview
<1>2. Sql!ResolveReviewCase(c) \/ Sql!RejectReviewCase(c)
  BY <1>1 DEF Sql!ResolveReviewCase, Sql!RejectReviewCase
<1>3. DepositCases'
  BY DEF Inv, DepositCases, updateReviewCaseStatus, Review
<1>4. Inv'
  BY <1>3 DEF updateReviewCaseStatus, Inv, InvoiceShape, DepositShape, CursorShape, RefundShape,
     ConfirmationHeights, CreditsExist
<1> QED BY <1>2, <1>4

\* A wallet belongs to at most one merchant.
LEMMA OneMerchant ==
  ASSUME NEW w
  PROVE  Sql!Cardinality(Sql!MerchantsOf(w)) <= 1
<1> DEFINE S == Sql!MerchantsOf(w)
<1>1. S = {} \/ \E m : S = {m}
  BY WalletIdUnique DEF Sql!MerchantsOf
<1>2. S = {} => Cardinality(S) = 0
  BY FS_EmptySet, Zenon
<1>3. ASSUME NEW m, S = {m} PROVE Cardinality(S) = 1
  BY <1>3, FS_Singleton, Zenon
<1>4. Sql!Cardinality(S) = Cardinality(S)
  <2> HIDE DEF S
  <2> QED BY Zenon DEF Sql!Cardinality, Cardinality, Sql!IsFiniteSet, IsFiniteSet
<1> QED BY <1>1, <1>2, <1>3, <1>4

\* A note that nobody can be credited with opens the same case.
LEMMA SameUnknownAddress ==
  ASSUME Inv, NEW d \in Outputs
  PROVE  /\ Sql!unattributedReviews(d) = unknownAddress(d)
         /\ \A c \in unknownAddress(d) : c \in Review /\ c.reason = "unknown_address"
<1>1. (\E m \in Merchants : WalletOf[m] = Output[d].wallet) <=>
        Sql!MerchantsOf(Output[d].wallet) # {}
  BY DEF Sql!MerchantsOf
<1>2. (\E c \in reviewDocs : c.subject = d /\ c.reason = "unknown_address") <=>
        (\E c \in reviewDocs : c.subject = d)
  BY DEF Inv, DepositCases
<1>3. Sql!unattributedReviews(d) = unknownAddress(d)
  BY <1>1, <1>2 DEF Sql!unattributedReviews, unknownAddress, reviewOf
<1>4. \A c \in unknownAddress(d) : c \in Review /\ c.reason = "unknown_address"
  BY DEF unknownAddress, reviewOf, Review, Reasons
<1> QED BY <1>3, <1>4

\* recordDeposit: the same deposit, invoice, events and cases, whether or not the
\* lookup finds an invoice.
LEMMA DepositStep ==
  ASSUME Inv, NEW d \in Outputs, NEW height \in Nat,
         NEW status \in {"detected", "unconfirmed", "orphaned"},
         recordDeposit(d, height, status)
  PROVE  /\ Sql!applyDepositEvent(d, height, status)
         /\ InvoiceShape' /\ DepositShape' /\ ConfirmationHeights'
         /\ CreditsExist' /\ DepositCases'
<1> DEFINE o == applyInvoiceID(d, height)
           doc == attribute(upsertDeposit(d, height, status, o), o)
           docs == Write(depositDocs, d, doc)
           rows == Rows(depositDocs, Outputs, NoDeposit)
           deps == [rows EXCEPT ![d] = doc]
<1>1. o = Sql!applyInvoiceID(d, height) /\ o \in Orders \cup {Nobody}
      /\ (o # Nobody => o \in DOMAIN invoiceDocs)
  BY SameLookup
<1>2. Sql!upsertDeposit(d, height, status, o) = doc
      /\ doc \in DepositRow /\ doc.status \in DepositStatuses
      /\ (doc.status = "confirmed" <=> doc.confHeight # Null)
      /\ (doc.invoice # Nobody => doc.invoice \in DOMAIN invoiceDocs)
  <2> HIDE DEF o
  <2> QED BY <1>1, SameUpsert
<1>3. depositDocs' = docs
  BY DEF recordDeposit
<1> HIDE DEF doc
<1>4. Rows(docs, Outputs, NoDeposit) = deps
  BY RowsWrite
<1>5. DOMAIN docs = DOMAIN depositDocs \cup {d} /\ docs[d] = doc
      /\ \A x \in DOMAIN depositDocs : x # d => docs[x] = depositDocs[x]
  BY DEF Write
<1>6. DOMAIN docs \subseteq Outputs
  BY <1>5 DEF Inv, DepositShape
<1> HIDE DEF docs
<1>7. DepositShape' /\ ConfirmationHeights'
  BY <1>2, <1>3, <1>5, <1>6 DEF Inv, DepositShape, ConfirmationHeights
<1>8. DOMAIN invoiceDocs \subseteq DOMAIN invoiceDocs' => CreditsExist'
  BY <1>2, <1>3, <1>5 DEF Inv, CreditsExist
<1>9. CASE o = Nobody
  <2>1. reviewDocs' = reviewDocs \cup unknownAddress(d) /\ UNCHANGED <<invoiceDocs, eventDocs>>
    BY <1>9, Zenon DEF recordDeposit
  <2>2. InvoiceShape' /\ CreditsExist'
    BY <2>1, <1>8 DEF Inv, InvoiceShape
  <2>3. DepositCases'
    BY <2>1, SameUnknownAddress DEF Inv, DepositCases
  <2>4. Sql!Cardinality(Sql!MerchantsOf(Output[d].wallet)) <= 1
    BY OneMerchant
  <2>5. reviewDocs' = reviewDocs \cup Sql!unattributedReviews(d)
    BY <2>1, SameUnknownAddress
  <2>6. UNCHANGED <<Rows(invoiceDocs, Orders, NoInvoice), eventDocs>>
    BY <2>1
  <2>7. Sql!applyDepositEvent(d, height, status)
    BY <1>1, <1>2, <1>3, <1>4, <1>9, <2>4, <2>5, <2>6, Zenon DEF Sql!applyDepositEvent, rows, deps
  <2> QED BY <1>7, <2>2, <2>3, <2>7
<1>10. CASE o # Nobody
  <2> DEFINE new == aggregates(docs, o)
             seen == IF status = "detected" THEN {d} ELSE {}
  <2>1. o \in DOMAIN invoiceDocs /\ o \in Orders
    BY <1>1, <1>10
  <2>2. /\ invoiceDocs' = Write(invoiceDocs, o, new)
        /\ eventDocs' = eventDocs
              \cup {invoiceEventDedupeKey(o, "deposit.detected", x) : x \in seen}
              \cup newEvents(o, new)
        /\ reviewDocs' = reviewDocs \cup newReviews(o, new)
    BY <1>10, Zenon DEF recordDeposit, docs, doc
  <2>3. Sql!Recomputed(deps, o) = new
    BY <2>1, <1>4, <1>6, SameAggregates
  <2>4. InvoiceDoc(new)
    BY <2>1, AggregatesShape
  <2> HIDE DEF new, o
  <2>5. Sql!StatusChangeEvents(o, new) = newEvents(o, new)
        /\ Sql!StatusChangeReviews(o, new) = newReviews(o, new)
    BY <2>1, SameInserts
  <2>6. {invoiceEventDedupeKey(o, "deposit.detected", x) : x \in seen}
          = Sql!DetectionEvents(o, d, status)
    BY DEF Sql!DetectionEvents, invoiceEventDedupeKey, Sql!EventOf
  <2>7. Rows(invoiceDocs', Orders, NoInvoice) = [Rows(invoiceDocs, Orders, NoInvoice) EXCEPT ![o] = new]
    <3>1. Rows(Write(invoiceDocs, o, new), Orders, NoInvoice)
            = [Rows(invoiceDocs, Orders, NoInvoice) EXCEPT ![o] = new]
      BY <2>1 DEF Rows, Write
    <3> QED BY <2>2, <3>1, Zenon
  <2>8. Sql!applyDepositEvent(d, height, status)
    <3> HIDE DEF seen
    <3>1. Rows(invoiceDocs', Orders, NoInvoice) =
            [Rows(invoiceDocs, Orders, NoInvoice) EXCEPT ![o] = Sql!Recomputed(deps, o)]
      BY <2>3, <2>7, Zenon
    <3>2. eventDocs' = eventDocs \cup Sql!DetectionEvents(o, d, status)
                        \cup Sql!StatusChangeEvents(o, Sql!Recomputed(deps, o))
      BY <2>2, <2>3, <2>5, <2>6, Zenon
    <3>3. reviewDocs' = reviewDocs \cup Sql!StatusChangeReviews(o, Sql!Recomputed(deps, o))
      BY <2>2, <2>3, <2>5, Zenon
    <3> QED BY <1>1, <1>2, <1>3, <1>4, <1>10, <3>1, <3>2, <3>3, Zenon
            DEF Sql!applyDepositEvent, rows, deps
  <2>9. InvoiceShape' /\ CreditsExist'
    BY <2>1, <2>2, <2>4, <1>8, InvoiceWritten
  <2>10. DepositCases'
    BY <2>1, <2>2, NewReviewsShape DEF Inv, DepositCases
  <2> QED BY <1>7, <2>8, <2>9, <2>10
<1> QED BY <1>9, <1>10

\* ApplyScanEvent: the deposit and the scan cursor move together, once per cursor; for a
\* note without an address the cursor moves alone.
LEMMA ApplyScanEventStep ==
  ASSUME Inv, NEW e \in ScanEvents, ApplyScanEvent(e)
  PROVE  Inv' /\ AsSql(e) \in ScanEvents /\ Sql!ApplyScanEvent(AsSql(e))
<1> DEFINE w == Output[e.output].wallet
           d == e.output
<1>1. d \in Outputs /\ e.height \in Nat /\ w \in Wallets
  BY DEF ScanEvents, OutputRow
<1>2. e.cursor > lastCursor(w) /\ scanCursors' = Write(scanCursors, w, e.cursor)
      /\ UNCHANGED <<now, refundDocs>>
  BY Zenon DEF ApplyScanEvent
<1>3. Rows(scanCursors, Wallets, 0)[w] = lastCursor(w)
  <2> HIDE DEF w
  <2> QED BY <1>1, RowsAt DEF lastCursor
<1>4. Rows(scanCursors', Wallets, 0) = [Rows(scanCursors, Wallets, 0) EXCEPT ![w] = e.cursor]
  <2> HIDE DEF w
  <2> QED BY <1>1, <1>2 DEF Rows, Write
<1>5. CursorShape' /\ RefundShape'
  <2>1. DOMAIN scanCursors' = DOMAIN scanCursors \cup {w}
    BY <1>2 DEF Write
  <2> QED BY <1>1, <1>2, <2>1 DEF Inv, CursorShape, RefundShape
<1>6. CASE e.kind \in DepositKinds /\ d \notin Unaddressed
  <2>0. AsSql(e) = e
    BY <1>6 DEF AsSql
  <2>1. incomingStatus(e.kind) \in {"detected", "unconfirmed", "orphaned"}
        /\ Sql!incomingStatus(e.kind) = incomingStatus(e.kind)
    BY <1>6 DEF DepositKinds, incomingStatus, Sql!incomingStatus
  <2>2. recordDeposit(d, e.height, incomingStatus(e.kind))
    BY <1>6, Zenon DEF ApplyScanEvent, applyDepositEvent
  <2>3. Sql!applyDepositEvent(d, e.height, incomingStatus(e.kind))
        /\ InvoiceShape' /\ DepositShape' /\ ConfirmationHeights' /\ CreditsExist' /\ DepositCases'
    <3> HIDE DEF d
    <3> QED BY <1>1, <2>1, <2>2, DepositStep
  <2>4. Sql!ApplyScanEvent(e)
    BY <1>2, <1>3, <1>4, <1>6, <2>1, <2>3, SharedConstants, Zenon DEF Sql!ApplyScanEvent
  <2> QED BY <1>5, <2>0, <2>3, <2>4 DEF Inv
<1>7. CASE e.kind \notin DepositKinds \/ d \in Unaddressed
  <2> DEFINE f == AsSql(e)
  <2>0. /\ f \in ScanEvents
        /\ f.cursor = e.cursor /\ f.output = d /\ f.kind \notin DepositKinds
    BY <1>7 DEF AsSql, ScanEvents, DepositKinds
  <2>1. UNCHANGED <<invoiceDocs, depositDocs, eventDocs, reviewDocs>>
    BY <1>7, Zenon DEF ApplyScanEvent, applyDepositEvent
  <2> HIDE DEF f
  <2>2. Sql!ApplyScanEvent(f)
    BY <1>2, <1>3, <1>4, <2>0, <2>1, SharedConstants, Zenon DEF Sql!ApplyScanEvent
  <2>3. Inv'
    BY <1>5, <2>1 DEF Inv, InvoiceShape, DepositShape, ConfirmationHeights, CreditsExist,
       DepositCases
  <2> QED BY <2>0, <2>2, <2>3 DEF f
<1> QED BY <1>6, <1>7

\* The deposits to confirm, and what becomes of them, are the same.
LEMMA SameConfirmed ==
  ASSUME Inv, NEW best \in Nat
  PROVE  /\ Sql!toConfirm(best) = confirmable(best)
         /\ \A d \in confirmable(best) :
              /\ d \in DOMAIN depositDocs
              /\ depositDocs[d].invoice \in DOMAIN invoiceDocs
              /\ Sql!confirmedDeposit(d) = confirmedDoc(d)
              /\ confirmedDoc(d) \in DepositRow
              /\ confirmedDoc(d).status = "confirmed"
              /\ confirmedDoc(d).confHeight # Null
              /\ confirmedDoc(d).invoice = depositDocs[d].invoice
<1> DEFINE rows == Rows(depositDocs, Outputs, NoDeposit)
<1>1. \A d \in Outputs : rows[d] = IF d \in DOMAIN depositDocs THEN depositDocs[d] ELSE NoDeposit
  BY RowsAt
<1>2. /\ DOMAIN depositDocs \subseteq Outputs /\ DOMAIN invoiceDocs \subseteq Orders
      /\ \A d \in DOMAIN depositDocs :
            /\ depositDocs[d] \in DepositRow
            /\ depositDocs[d].invoice # Nobody => depositDocs[d].invoice \in DOMAIN invoiceDocs
  BY DEF Inv, InvoiceShape, DepositShape, CreditsExist
<1> HIDE DEF rows
<1>3. Sql!toConfirm(best) = {d \in Outputs :
        /\ rows[d].status = "detected"
        /\ rows[d].invoice # Nobody
        /\ DeepEnough(best, rows[d].height, Order[rows[d].invoice].required)}
  BY Zenon DEF Sql!toConfirm, Sql!DeepEnough, Sql!Required, DeepEnough, Required, rows
<1>4. Sql!toConfirm(best) = confirmable(best)
  BY <1>1, <1>2, <1>3 DEF confirmable, NoDeposit
<1>5. ASSUME NEW d \in confirmable(best)
      PROVE  /\ d \in DOMAIN depositDocs
             /\ depositDocs[d].invoice \in DOMAIN invoiceDocs
             /\ Sql!confirmedDeposit(d) = confirmedDoc(d)
             /\ confirmedDoc(d) \in DepositRow
             /\ confirmedDoc(d).status = "confirmed"
             /\ confirmedDoc(d).confHeight # Null
             /\ confirmedDoc(d).invoice = depositDocs[d].invoice
  <2> DEFINE h == depositDocs[d].height + Required(Order[depositDocs[d].invoice].required) - 1
  <2>1. d \in DOMAIN depositDocs /\ depositDocs[d].invoice \in DOMAIN invoiceDocs
    BY DEF confirmable
  <2>2. depositDocs[d] \in DepositRow /\ Order[depositDocs[d].invoice] \in OrderRow
    BY <2>1, <1>2
  <2>3. h \in Nat
    BY <2>2 DEF DepositRow, OrderRow, Required
  <2>4. confirmedDoc(d) = [depositDocs[d] EXCEPT !.status = "confirmed", !.confHeight = h]
    BY Zenon DEF confirmedDoc
  <2>5. Sql!confirmedDeposit(d) = confirmedDoc(d)
    <3>1. rows[d] = depositDocs[d]
      BY <1>1, <1>2, <2>1
    <3>2. Sql!Required(Order[depositDocs[d].invoice].required)
            = Required(Order[depositDocs[d].invoice].required)
      BY Zenon DEF Sql!Required, Required
    <3>3. Sql!confirmedDeposit(d) = [rows[d] EXCEPT
             !.status = "confirmed",
             !.confHeight = rows[d].height + Sql!Required(Order[rows[d].invoice].required) - 1]
      BY Zenon DEF Sql!confirmedDeposit, rows
    <3>4. rows[d].height + Sql!Required(Order[rows[d].invoice].required) - 1 = h
      BY <3>1, <3>2, Zenon
    <3> DEFINE k == rows[d].height + Sql!Required(Order[rows[d].invoice].required) - 1
    <3>5. Sql!confirmedDeposit(d) = [rows[d] EXCEPT !.status = "confirmed", !.confHeight = k]
          /\ k = h
      BY <3>3, <3>4, Zenon
    <3> HIDE DEF h, k
    <3> QED BY <2>2, <2>4, <3>1, <3>5 DEF DepositRow
  <2> HIDE DEF h
  <2>6. confirmedDoc(d) = [status |-> "confirmed", height |-> depositDocs[d].height,
                           confHeight |-> h, invoice |-> depositDocs[d].invoice]
    BY <2>2, <2>4 DEF DepositRow
  <2>7. confirmedDoc(d) \in DepositRow
    BY <2>2, <2>3, <2>6 DEF DepositRow, DepositStatuses
  <2>8. h # Null
    BY <2>3 DEF Null
  <2> QED BY <2>1, <2>5, <2>6, <2>7, <2>8
<1> QED BY <1>4, <1>5

\* UpdateInvoiceConfirmations confirms the same deposits and recomputes the same
\* invoices, which exist because credits do.
LEMMA UpdateConfirmationsStep ==
  ASSUME Inv, NEW best \in Nat, UpdateInvoiceConfirmations(best)
  PROVE  Inv' /\ Sql!UpdateInvoiceConfirmations(best)
<1> DEFINE ready == confirmable(best)
           docs == [d \in DOMAIN depositDocs |->
                       IF d \in ready THEN confirmedDoc(d) ELSE depositDocs[d]]
           affected == {depositDocs[d].invoice : d \in ready}
           rows == Rows(depositDocs, Outputs, NoDeposit)
           irows == Rows(invoiceDocs, Orders, NoInvoice)
           sready == Sql!toConfirm(best)
           deps == [d \in Outputs |-> IF d \in sready THEN Sql!confirmedDeposit(d) ELSE rows[d]]
           saffected == {rows[d].invoice : d \in sready}
<1>1. /\ depositDocs' = docs
      /\ invoiceDocs' = [o \in DOMAIN invoiceDocs |->
                             IF o \in affected THEN aggregates(docs, o) ELSE invoiceDocs[o]]
      /\ eventDocs' = eventDocs
            \cup {invoiceEventDedupeKey(depositDocs[d].invoice, "deposit.confirmed", d) : d \in ready}
            \cup UNION {newEvents(o, aggregates(docs, o)) : o \in affected}
      /\ reviewDocs' = reviewDocs \cup UNION {newReviews(o, aggregates(docs, o)) : o \in affected}
      /\ UNCHANGED <<now, scanCursors, refundDocs>>
  BY Zenon DEF UpdateInvoiceConfirmations
<1>2. /\ sready = ready
      /\ \A d \in ready :
           /\ d \in DOMAIN depositDocs
           /\ depositDocs[d].invoice \in DOMAIN invoiceDocs
           /\ Sql!confirmedDeposit(d) = confirmedDoc(d)
           /\ confirmedDoc(d) \in DepositRow
           /\ confirmedDoc(d).status = "confirmed"
           /\ confirmedDoc(d).confHeight # Null
           /\ confirmedDoc(d).invoice = depositDocs[d].invoice
  BY SameConfirmed
<1>3. DOMAIN depositDocs \subseteq Outputs /\ DOMAIN invoiceDocs \subseteq Orders
  BY DEF Inv, InvoiceShape, DepositShape
<1>4. \A d \in Outputs : rows[d] = IF d \in DOMAIN depositDocs THEN depositDocs[d] ELSE NoDeposit
  BY RowsAt
<1>5. affected \subseteq DOMAIN invoiceDocs
  BY <1>2
<1>6. affected = saffected
  <2> HIDE DEF ready, sready, rows
  <2> QED BY <1>2, <1>3, <1>4
<1>7. Rows(docs, Outputs, NoDeposit) = deps
  <2>1. \A d \in Outputs : Rows(docs, Outputs, NoDeposit)[d] =
              IF d \in DOMAIN depositDocs THEN docs[d] ELSE NoDeposit
    BY RowsAt
  <2>2. \A d \in Outputs : Rows(docs, Outputs, NoDeposit)[d] = deps[d]
    <3> HIDE DEF ready, sready, rows
    <3> QED BY <1>2, <1>4, <2>1
  <2> HIDE DEF ready, sready, rows, docs
  <2> QED BY <2>2 DEF Rows
<1>8. \A o \in affected : Sql!Recomputed(deps, o) = aggregates(docs, o)
  <2>1. DOMAIN docs \subseteq Outputs
    BY <1>3
  <2> HIDE DEF docs, deps, affected
  <2> QED BY <1>5, <1>7, <2>1, SameAggregates
<1>9. \A o \in affected : InvoiceDoc(aggregates(docs, o))
  <2> HIDE DEF docs, affected
  <2> QED BY <1>5, AggregatesShape
<1>10. \A o \in affected :
         /\ Sql!StatusChangeEvents(o, Sql!Recomputed(deps, o)) = newEvents(o, aggregates(docs, o))
         /\ Sql!StatusChangeReviews(o, Sql!Recomputed(deps, o)) = newReviews(o, aggregates(docs, o))
  <2> HIDE DEF docs, deps, affected
  <2> QED BY <1>5, <1>8, SameInserts
<1>11. Inv'
  <2>1. DepositShape' /\ ConfirmationHeights'
    <3> HIDE DEF ready
    <3> QED BY <1>1, <1>2 DEF Inv, DepositShape, ConfirmationHeights, DepositStatuses
  <2>2. InvoiceShape' /\ DOMAIN invoiceDocs' = DOMAIN invoiceDocs
    <3> HIDE DEF affected, docs
    <3> QED BY <1>1, <1>9 DEF Inv, InvoiceShape
  <2>3. CreditsExist'
    <3> HIDE DEF ready
    <3> QED BY <1>1, <1>2, <2>2 DEF Inv, CreditsExist
  <2>4. DepositCases'
    <3> HIDE DEF affected, docs
    <3>1. \A o \in affected : \A c \in newReviews(o, aggregates(docs, o)) :
            c \in Review /\ c.subject \notin Outputs
      BY <1>3, <1>5, NewReviewsShape
    <3> QED BY <1>1, <3>1 DEF Inv, DepositCases
  <2>5. CursorShape' /\ RefundShape'
    BY <1>1 DEF Inv, CursorShape, RefundShape
  <2> QED BY <2>1, <2>2, <2>3, <2>4, <2>5 DEF Inv
<1>12. Rows(invoiceDocs', Orders, NoInvoice) =
         [o \in Orders |-> IF o \in saffected THEN Sql!Recomputed(deps, o) ELSE irows[o]]
  <2> HIDE DEF affected, saffected, docs, deps
  <2> QED BY <1>1, <1>3, <1>5, <1>6, <1>8 DEF Rows
<1>13. {invoiceEventDedupeKey(depositDocs[d].invoice, "deposit.confirmed", d) : d \in ready}
         = {Sql!EventOf(rows[d].invoice, "deposit.confirmed", d) : d \in sready}
  <2> HIDE DEF ready, sready, rows
  <2> QED BY <1>2, <1>3, <1>4 DEF invoiceEventDedupeKey, Sql!EventOf
<1>14. UNION {newEvents(o, aggregates(docs, o)) : o \in affected}
         = UNION {Sql!StatusChangeEvents(o, Sql!Recomputed(deps, o)) : o \in saffected}
  <2> HIDE DEF affected, saffected, docs, deps
  <2> QED BY <1>6, <1>10
<1>15. UNION {newReviews(o, aggregates(docs, o)) : o \in affected}
         = UNION {Sql!StatusChangeReviews(o, Sql!Recomputed(deps, o)) : o \in saffected}
  <2> HIDE DEF affected, saffected, docs, deps
  <2> QED BY <1>6, <1>10
<1>16. Sql!UpdateInvoiceConfirmations(best)
  <2>1. Rows(depositDocs', Outputs, NoDeposit) = deps
    BY <1>1, <1>7, Zenon
  <2>2. eventDocs' = eventDocs
          \cup {Sql!EventOf(rows[d].invoice, "deposit.confirmed", d) : d \in sready}
          \cup UNION {Sql!StatusChangeEvents(o, Sql!Recomputed(deps, o)) : o \in saffected}
    BY <1>1, <1>13, <1>14, Zenon
  <2>3. reviewDocs' = reviewDocs
          \cup UNION {Sql!StatusChangeReviews(o, Sql!Recomputed(deps, o)) : o \in saffected}
    BY <1>1, <1>15, Zenon
  <2>4. UNCHANGED <<now, Rows(scanCursors, Wallets, 0), Rows(refundDocs, Refunds, NoRefund)>>
    BY <1>1
  <2> QED BY <1>12, <2>1, <2>2, <2>3, <2>4, Zenon
          DEF Sql!UpdateInvoiceConfirmations
<1> QED BY <1>11, <1>16

\* Time passes in both.
LEMMA TickStep ==
  ASSUME Inv, Tick
  PROVE  Inv' /\ Sql!Tick
<1>1. Sql!Tick
  BY DEF Tick, Sql!Tick
<1>2. Inv'
  BY DEF Tick, Inv, InvoiceShape, DepositShape, CursorShape, RefundShape, ConfirmationHeights,
     CreditsExist, DepositCases
<1> QED BY <1>1, <1>2

---------------------------------------------------------------------------
(* The refinement. *)

\* The empty collections satisfy the invariant and stand for the empty tables.
LEMMA InitRefines ==
  ASSUME Init
  PROVE  Inv /\ Sql!Init
<1>1. /\ DOMAIN invoiceDocs = {} /\ DOMAIN depositDocs = {}
      /\ DOMAIN scanCursors = {} /\ DOMAIN refundDocs = {}
  BY DEF Init, NoDocs
<1>2. Inv
  BY <1>1 DEF Init, Inv, InvoiceShape, DepositShape, CursorShape, RefundShape,
     ConfirmationHeights, CreditsExist, DepositCases
<1>3. Sql!Init
  BY <1>1, SharedConstants DEF Init, Sql!Init, Rows
<1> QED BY <1>2, <1>3

\* Every step keeps the invariant and is a step of SqlStore or leaves its tables alone.
LEMMA NextRefines ==
  ASSUME Inv, [Next]_vars
  PROVE  Inv' /\ [Sql!Next]_(Sql!vars)
<1>1. ASSUME NEW o \in Orders, NEW best \in 0..MaxHeight, CreateInvoice(o, best)
      PROVE  Inv' /\ Sql!Next
  BY <1>1, CreateInvoiceStep, Zenon DEF Sql!Next
<1>2. ASSUME NEW e \in ScanEvents, ApplyScanEvent(e)
      PROVE  Inv' /\ Sql!Next
  BY <1>2, ApplyScanEventStep, SharedConstants, Zenon DEF Sql!Next
<1>3. ASSUME NEW best \in 0..MaxHeight, UpdateInvoiceConfirmations(best)
      PROVE  Inv' /\ Sql!Next
  <2>1. best \in Nat
    BY SMT
  <2> QED BY <1>3, <2>1, UpdateConfirmationsStep, Zenon DEF Sql!Next
<1>4. ASSUME NEW r \in Refunds, NEW m \in Merchants, NEW o \in Orders \cup {Nobody},
             NEW status \in {"requested", "sent"}, CreateRefund(r, m, o, status)
      PROVE  Inv' /\ Sql!Next
  <2>1. Inv' /\ Sql!CreateRefund(r, m, o, status)
    BY <1>4, CreateRefundStep
  <2> QED BY <2>1 DEF Sql!Next
<1>5. ASSUME NEW c \in reviewDocs, NEW status \in {"resolved", "rejected"},
             updateReviewCaseStatus(c, status)
      PROVE  Inv' /\ Sql!Next
  <2>1. Inv' /\ (Sql!ResolveReviewCase(c) \/ Sql!RejectReviewCase(c))
    BY <1>5, UpdateReviewCaseStep, Zenon
  <2> QED BY <2>1, Zenon DEF Sql!Next
<1>6. CASE Tick
  BY <1>6, TickStep, Zenon DEF Sql!Next
<1>7. CASE UNCHANGED vars
  <2>1. Inv'
    BY <1>7 DEF vars, Inv, InvoiceShape, DepositShape, CursorShape, RefundShape,
       ConfirmationHeights, CreditsExist, DepositCases
  <2>2. UNCHANGED Sql!vars
    BY <1>7 DEF vars, Sql!vars
  <2> QED BY <2>1, <2>2
<1> QED BY <1>1, <1>2, <1>3, <1>4, <1>5, <1>6, <1>7 DEF Next

\* The documents keep their shape, and credits and confirmation heights are
\* consistent, in every reachable state of mongo.go's transactions.
THEOREM InvHolds == Spec => []Inv
<1>1. Init => Inv
  BY InitRefines
<1>2. Inv /\ [Next]_vars => Inv'
  BY NextRefines
<1> QED BY <1>1, <1>2, PTL DEF Spec

\* Call by call the MongoDB store does what the SQL store does with the same
\* arguments; a report without an address is to it an event of no known kind.
THEOREM SameCallsHold == Spec => SameCalls
<1> DEFINE Step ==
      /\ \A o \in Orders, best \in 0..MaxHeight :
            CreateInvoice(o, best) => Sql!CreateInvoice(o, best)
      /\ \A e \in ScanEvents : ApplyScanEvent(e) => Sql!ApplyScanEvent(AsSql(e))
      /\ \A best \in 0..MaxHeight :
            UpdateInvoiceConfirmations(best) => Sql!UpdateInvoiceConfirmations(best)
      /\ \A r \in Refunds, m \in Merchants, o \in Orders \cup {Nobody},
            status \in {"requested", "sent"} :
            CreateRefund(r, m, o, status) => Sql!CreateRefund(r, m, o, status)
      /\ \A c \in reviewDocs :
            /\ updateReviewCaseStatus(c, "resolved") => Sql!ResolveReviewCase(c)
            /\ updateReviewCaseStatus(c, "rejected") => Sql!RejectReviewCase(c)
<1>1. ASSUME Inv PROVE Step
  <2>1. ASSUME NEW o \in Orders, NEW best \in 0..MaxHeight, CreateInvoice(o, best)
        PROVE  Sql!CreateInvoice(o, best)
    BY <1>1, <2>1, CreateInvoiceStep, Zenon
  <2>2. ASSUME NEW e \in ScanEvents, ApplyScanEvent(e) PROVE Sql!ApplyScanEvent(AsSql(e))
    BY <1>1, <2>2, ApplyScanEventStep, Zenon
  <2>3. ASSUME NEW best \in 0..MaxHeight, UpdateInvoiceConfirmations(best)
        PROVE  Sql!UpdateInvoiceConfirmations(best)
    <3>1. best \in Nat
      BY SMT
    <3> QED BY <1>1, <2>3, <3>1, UpdateConfirmationsStep, Zenon
  <2>4. ASSUME NEW r \in Refunds, NEW m \in Merchants, NEW o \in Orders \cup {Nobody},
               NEW status \in {"requested", "sent"}, CreateRefund(r, m, o, status)
        PROVE  Sql!CreateRefund(r, m, o, status)
    BY <1>1, <2>4, CreateRefundStep
  <2>5. ASSUME NEW c \in reviewDocs
        PROVE  /\ updateReviewCaseStatus(c, "resolved") => Sql!ResolveReviewCase(c)
               /\ updateReviewCaseStatus(c, "rejected") => Sql!RejectReviewCase(c)
    BY DEF updateReviewCaseStatus, Sql!ResolveReviewCase, Sql!RejectReviewCase, Sql!CloseReview
  <2> QED BY <2>1, <2>2, <2>3, <2>4, <2>5
<1> QED BY <1>1, InvHolds, PTL DEF SameCalls

\* Every behaviour of the MongoDB store is a behaviour of the SQL store, so that what
\* SqlStore promises of what it recorded (announced payments, exact sums, sticky
\* attribution...) holds whichever driver the server was started with.
THEOREM ImplementsSql == Spec => Implements
<1>1. Init => Inv /\ Sql!Init
  BY InitRefines
<1>2. Inv /\ [Next]_vars => Inv' /\ [Sql!Next]_(Sql!vars)
  BY NextRefines
<1> QED BY <1>1, <1>2, PTL DEF Spec, Implements, Sql!Spec
=============================================================================
