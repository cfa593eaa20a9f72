--------------------------- MODULE SqlStoreProofs ---------------------------
(***************************************************************************)
(* What the SQL store promises, for every set of invoices, notes, wallets, *)
(* merchants and policies, and for any order of its transactions: payments *)
(* are announced, no deposit is silent, statuses follow the sums, policies *)
(* raise their review cases and events name their own merchant's business. *)
(***************************************************************************)
EXTENDS SqlStore, FiniteSetTheorems, WellFoundedInduction, TLAPS

\* A nonempty family of subsets of a finite set has a minimal member: the
\* induction over sets of notes is an argument from a least counterexample.
LEMMA LeastSet ==
  ASSUME NEW S, IsFiniteSet(S), NEW T \in SUBSET (SUBSET S), T # {}
  PROVE  \E x \in T : \A y \in T : y \subseteq x => y = x
<1>1. IsWellFoundedOn(StrictSubsetOrdering(S), SUBSET S)
  BY FS_StrictSubsetOrderingWellFounded, FS_FiniteSubsetsOfFinite
<1>2. \E x \in T : \A y \in T : ~(<<y, x>> \in StrictSubsetOrdering(S))
  BY <1>1, WFMin
<1>3. \A x, y \in SUBSET S : y \subseteq x /\ y # x => <<y, x>> \in StrictSubsetOrdering(S)
  BY DEF StrictSubsetOrdering
<1> QED BY <1>2, <1>3

USE ConstantsAssumption

\* An invoice row as far as the proofs need it: the two sums are left open,
\* because nothing here depends on what a sum over deposits adds up to.
RowShape(row) ==
    /\ row = [status |-> row.status, pending |-> row.pending, confirmed |-> row.confirmed,
              after |-> row.after, expires |-> row.expires]
    /\ row.status \in InvoiceStatuses \cup {"absent"}
    /\ row.after \in Nat
    /\ row.expires \in Nat \cup {Null}

\* TypeOK without the claim that the sums are natural numbers.
Shape ==
    /\ now \in Nat
    /\ DOMAIN invoices = Orders
    /\ invoices = [o \in Orders |-> invoices[o]]
    /\ \A o \in Orders : RowShape(invoices[o])
    /\ deposits \in [Outputs -> DepositRow]
    /\ cursor \in [Wallets -> Nat]
    /\ events \subseteq Event
    /\ reviews \subseteq Review
    /\ refunds \in [Refunds -> RefundRow]

\* A credited deposit is credited to the existing invoice at whose address the
\* note lies, in the wallet of that invoice's merchant.
CreditedToAddressee ==
    \A d \in Outputs : deposits[d].invoice # Nobody =>
        /\ deposits[d].invoice = Output[d].to
        /\ Exists(deposits[d].invoice)
        /\ Output[d].wallet = WalletOf[Order[deposits[d].invoice].merchant]

\* A case whose subject is a deposit is about its unknown address.
DepositCases ==
    \A c \in reviews : c.subject \in Outputs => c.reason = "unknown_address"

\* A refund that was not created names no invoice.
RefundsWritten ==
    \A r \in Refunds : refunds[r].status = "absent" => refunds[r].invoice = Nobody

\* The inductive invariant.
Inv ==
    /\ Shape
    /\ StatusExplained
    /\ PaidAnnounced
    /\ ReviewsRaised
    /\ NoSilentDeposit
    /\ ConfirmedDepositSound
    /\ EventsOwned
    /\ CreditedToAddressee
    /\ DepositCases
    /\ RefundsWritten

---------------------------------------------------------------------------
(* The status function *)

\* The status of an existing invoice is one of InvoiceStatuses.
LEMMA ComputeStatusType ==
  ASSUME NEW amount, NEW pending, NEW confirmed, NEW expired, NEW late
  PROVE  computeInvoiceStatus(amount, pending, confirmed, expired, late) \in InvoiceStatuses
  BY DEF computeInvoiceStatus, InvoiceStatuses

\* Judging the expiry again can move a status only between open and expired, or
\* between confirmed and paid_late: what was announced and reviewed stays so.
LEMMA ExpiryOnly ==
  ASSUME NEW amount, NEW pending, NEW confirmed, NEW late, NEW a \in BOOLEAN, NEW b \in BOOLEAN
  PROVE  LET s == computeInvoiceStatus(amount, pending, confirmed, a, late)
             t == computeInvoiceStatus(amount, pending, confirmed, b, late)
         IN  /\ s \in {"confirmed", "paid_late"} <=> t \in {"confirmed", "paid_late"}
             /\ s = "overpaid" <=> t = "overpaid"
             /\ s = "partial_confirmed" <=> t = "partial_confirmed"
             /\ s = "paid_late" => late = "mark_paid_late"
  BY DEF computeInvoiceStatus

\* The SQL CASE expression of Store.Init and the Go function agree on every row.
LEMMA BackfillAgrees ==
  ASSUME Shape, NEW o \in Orders
  PROVE  backfillStatus(Order[o].amount, invoices[o].pending, invoices[o].confirmed,
                        invoices[o].expires, now, Order[o].policy.late)
           = computeInvoiceStatus(Order[o].amount, invoices[o].pending, invoices[o].confirmed,
                                  Expired(o), Order[o].policy.late)
<1>1. now \in Nat /\ invoices[o].expires \in Nat \cup {Null}
  BY DEF Shape, RowShape
<1>2. Expired(o) <=> (invoices[o].expires # -1 /\ invoices[o].expires < now)
  BY <1>1 DEF Expired, Null
<1> QED BY <1>2 DEF backfillStatus, computeInvoiceStatus

---------------------------------------------------------------------------
(* Recomputing an invoice *)

\* recomputeInvoiceAggregatesTx keeps the row's shape, height and expiry, and its
\* status is that of the sums it writes, with the expiry judged now.
LEMMA RecomputedRow ==
  ASSUME Shape, NEW ACTION deps, NEW o \in Orders
  PROVE  LET row == Recomputed(deps, o)
         IN  /\ RowShape(row)
             /\ row.status # "absent"
             /\ row.after = invoices[o].after
             /\ row.expires = invoices[o].expires
             /\ row.status = computeInvoiceStatus(Order[o].amount, row.pending, row.confirmed,
                                                  Expired(o), Order[o].policy.late)
<1> DEFINE pending == Received(deps, o, {"detected", "unconfirmed"})
           confirmed == Received(deps, o, {"confirmed"})
           status == computeInvoiceStatus(Order[o].amount, pending, confirmed,
                                          Expired(o), Order[o].policy.late)
           row == Recomputed(deps, o)
<1>1. status \in InvoiceStatuses
  BY ComputeStatusType
<1>2. RowShape(invoices[o])
  BY DEF Shape
<1>3. row = [invoices[o] EXCEPT !.pending = pending, !.confirmed = confirmed, !.status = status]
  BY DEF Recomputed
<1> HIDE DEF pending, confirmed, status, row
<1>4. row = [status |-> status, pending |-> pending, confirmed |-> confirmed,
             after |-> invoices[o].after, expires |-> invoices[o].expires]
  BY <1>2, <1>3 DEF RowShape
<1>5. /\ row.status = status /\ row.pending = pending /\ row.confirmed = confirmed
      /\ row.after = invoices[o].after /\ row.expires = invoices[o].expires
  BY <1>4
<1>6. RowShape(row)
  BY <1>1, <1>2, <1>4, <1>5 DEF RowShape
<1>7. row.status # "absent"
  BY <1>1, <1>5 DEF InvoiceStatuses
<1>8. row.status = computeInvoiceStatus(Order[o].amount, row.pending, row.confirmed,
                                        Expired(o), Order[o].policy.late)
  BY <1>5 DEF status
<1> QED BY <1>5, <1>6, <1>7, <1>8 DEF row

\* What a change of status inserts is an event or a case of the invoice itself.
LEMMA StatusChangeRows ==
  ASSUME NEW o \in Orders, NEW ACTION row
  PROVE  /\ \A ev \in StatusChangeEvents(o, row) :
               ev \in Event /\ ev.invoice = o /\ ev.ref = Nobody
         /\ \A c \in StatusChangeReviews(o, row) : c \in Review /\ c.subject = o
<1>1. statusEvent(row.status) # "none" => statusEvent(row.status) \in EventTypes
  BY DEF statusEvent, EventTypes
<1>2. ASSUME NEW reason,
             reason = policyReview(row.status, Expired(o), row.confirmed = Order[o].amount,
                                   Order[o].policy),
             reason # "none"
      PROVE  reason \in Reasons
  BY <1>2 DEF policyReview, Reasons
<1>3. \A ev \in StatusChangeEvents(o, row) : ev \in Event /\ ev.invoice = o /\ ev.ref = Nobody
  BY <1>1 DEF StatusChangeEvents, EventOf, Event
<1>4. \A c \in StatusChangeReviews(o, row) : c \in Review /\ c.subject = o
  BY <1>2 DEF StatusChangeReviews, Review
<1> QED BY <1>3, <1>4

\* The invoices' part of a transaction that recomputes the invoices of A and
\* inserts what their changes of status ask for.
LEMMA RecomputeStep ==
  ASSUME Inv, NEW ACTION deps, NEW ACTION A, A \subseteq Orders, \A o \in A : Exists(o),
         now' = now,
         invoices' = [o \in Orders |-> IF o \in A THEN Recomputed(deps, o) ELSE invoices[o]],
         events \subseteq events',
         \A o \in A : StatusChangeEvents(o, Recomputed(deps, o)) \subseteq events',
         \A c \in reviews : \E x \in reviews' : x.subject = c.subject /\ x.reason = c.reason,
         \A o \in A : StatusChangeReviews(o, Recomputed(deps, o)) \subseteq reviews'
  PROVE  /\ DOMAIN invoices' = Orders
         /\ invoices' = [o \in Orders |-> invoices'[o]]
         /\ \A o \in Orders : RowShape(invoices'[o]) /\ (Exists(o)' <=> Exists(o))
         /\ StatusExplained' /\ PaidAnnounced' /\ ReviewsRaised'
<1>1. \A o \in A : invoices'[o] = Recomputed(deps, o)
  OBVIOUS
<1>2. \A o \in Orders \ A : invoices'[o] = invoices[o]
  OBVIOUS
<1>3. \A o \in Orders : RowShape(invoices'[o]) /\ (Exists(o)' <=> Exists(o))
                          /\ invoices'[o].expires = invoices[o].expires
                          /\ (Expired(o)' <=> Expired(o))
  <2> SUFFICES ASSUME NEW o \in Orders
               PROVE  RowShape(invoices'[o]) /\ (Exists(o)' <=> Exists(o))
                        /\ invoices'[o].expires = invoices[o].expires
    BY DEF Expired
  <2>1. CASE o \in A
    BY <1>1, <2>1, RecomputedRow DEF Inv, Exists
  <2>2. CASE o \notin A
    BY <1>2, <2>2 DEF Inv, Shape, Exists
  <2> QED BY <2>1, <2>2
<1>4. StatusExplained'
  <2> SUFFICES ASSUME NEW o \in Orders, Exists(o)'
               PROVE  \E late \in {FALSE, Expired(o)'} : invoices'[o].status =
                        computeInvoiceStatus(Order[o].amount, invoices'[o].pending,
                            invoices'[o].confirmed, late, Order[o].policy.late)
    BY DEF StatusExplained
  <2>1. CASE o \in A
    BY <1>1, <1>3, <2>1, RecomputedRow DEF Inv, Expired
  <2>2. CASE o \notin A
    BY <1>2, <1>3, <2>2 DEF Inv, StatusExplained, Expired, Exists
  <2> QED BY <2>1, <2>2
<1>5. PaidAnnounced'
  <2> SUFFICES ASSUME NEW o \in Orders
               PROVE  /\ invoices'[o].status \in {"confirmed", "paid_late"} =>
                            EventOf(o, "invoice.paid", Nobody) \in events'
                      /\ invoices'[o].status = "overpaid" =>
                            EventOf(o, "invoice.overpaid", Nobody) \in events'
    BY DEF PaidAnnounced, EventOf
  <2>1. CASE invoices'[o].status = invoices[o].status
    BY <2>1 DEF Inv, PaidAnnounced
  <2>2. CASE o \in A /\ invoices'[o].status # invoices[o].status
    <3>1. statusEvent(invoices'[o].status) # "none" =>
            EventOf(o, statusEvent(invoices'[o].status), Nobody) \in events'
      BY <1>1, <2>2 DEF StatusChangeEvents
    <3> QED BY <3>1 DEF statusEvent
  <2> QED BY <1>2, <2>1, <2>2
<1>6. ReviewsRaised'
  <2> SUFFICES ASSUME NEW o \in Orders
               PROVE  /\ /\ invoices'[o].status = "partial_confirmed"
                         /\ Order[o].policy.partial = "reject_partial"
                         => \E c \in reviews' : c.subject = o /\ c.reason = "partial_payment"
                      /\ /\ invoices'[o].status = "overpaid"
                         /\ Order[o].policy.over = "manual_review"
                         => \E c \in reviews' : c.subject = o /\ c.reason = "overpayment"
    BY DEF ReviewsRaised
  <2>1. CASE invoices'[o].status = invoices[o].status
    BY <2>1 DEF Inv, ReviewsRaised
  <2>2. CASE o \in A /\ invoices'[o].status # invoices[o].status
    <3> DEFINE row == Recomputed(deps, o)
               reason == policyReview(row.status, Expired(o), row.confirmed = Order[o].amount,
                                      Order[o].policy)
    <3>1. reason # "none" =>
            [subject |-> o, reason |-> reason, status |-> "open"] \in reviews'
      BY <1>1, <2>2 DEF StatusChangeReviews
    <3>2. CASE row.status = "partial_confirmed" /\ Order[o].policy.partial = "reject_partial"
      <4>1. reason = "partial_payment"
        BY <3>2 DEF policyReview
      <4> QED BY <3>1, <3>2, <4>1, <1>1, <2>2
    <3>3. CASE row.status = "overpaid" /\ Order[o].policy.over = "manual_review"
      <4>1. reason = "overpayment"
        BY <3>3 DEF policyReview
      <4> QED BY <3>1, <3>3, <4>1, <1>1, <2>2
    <3> QED BY <3>2, <3>3, <1>1, <2>2
  <2> QED BY <1>2, <2>1, <2>2
<1> QED BY <1>3, <1>4, <1>5, <1>6

\* The same for a transaction that writes no invoice and drops no event or case.
LEMMA InvoicesUntouched ==
  ASSUME Inv, UNCHANGED <<now, invoices>>, events \subseteq events',
         \A c \in reviews : \E x \in reviews' : x.subject = c.subject /\ x.reason = c.reason
  PROVE  StatusExplained' /\ PaidAnnounced' /\ ReviewsRaised'
<1>1. StatusExplained'
  BY DEF Inv, StatusExplained, Exists, Expired
<1>2. PaidAnnounced'
  BY DEF Inv, PaidAnnounced, EventOf
<1>3. ReviewsRaised'
  BY DEF Inv, ReviewsRaised
<1> QED BY <1>1, <1>2, <1>3

---------------------------------------------------------------------------
(* The actions *)

\* The database starts empty.
LEMMA InitInv == Init => Inv
<1> SUFFICES ASSUME Init PROVE Inv
  OBVIOUS
<1>1. Shape
  <2>1. NoDeposit \in DepositRow /\ NoRefund \in RefundRow /\ RowShape(NoInvoice)
    BY DEF NoDeposit, DepositRow, NoRefund, RefundRow, RowShape, NoInvoice
  <2> QED BY <2>1 DEF Init, Shape
<1>2. StatusExplained /\ PaidAnnounced /\ ReviewsRaised
  BY DEF Init, StatusExplained, PaidAnnounced, ReviewsRaised, NoInvoice, Exists
<1>3. NoSilentDeposit /\ ConfirmedDepositSound /\ CreditedToAddressee
  BY DEF Init, NoSilentDeposit, ConfirmedDepositSound, CreditedToAddressee, NoDeposit
<1>4. EventsOwned /\ DepositCases /\ RefundsWritten
  BY DEF Init, EventsOwned, DepositCases, RefundsWritten, NoRefund
<1> QED BY <1>1, <1>2, <1>3, <1>4 DEF Inv

\* CreateInvoice opens an invoice that nothing refers to yet.
LEMMA CreateInvoiceInv ==
  ASSUME Inv, NEW o \in Orders, NEW best \in 0..MaxHeight, CreateInvoice(o, best)
  PROVE  Inv'
<1> DEFINE row == [status |-> "open", pending |-> 0, confirmed |-> 0, after |-> best,
                   expires |-> IF Order[o].ttl = 0 THEN Null ELSE now + Order[o].ttl]
           ev == EventOf(o, "invoice.created", Nobody)
<1>1. /\ invoices' = [invoices EXCEPT ![o] = row]
      /\ events' = events \cup {ev}
      /\ UNCHANGED <<now, deposits, cursor, reviews, refunds>>
  BY DEF CreateInvoice
<1>2. invoices'[o] = row /\ \A x \in Orders : x # o => invoices'[x] = invoices[x]
  BY <1>1 DEF Inv, Shape
<1>3. DOMAIN invoices' = Orders /\ invoices' = [x \in Orders |-> invoices'[x]]
  BY <1>1 DEF Inv, Shape
<1>4. RowShape(row)
  <2>1. Order[o].ttl \in Nat
    BY DEF OrderRow
  <2>2. row.expires \in Nat \cup {Null}
    BY <2>1 DEF Inv, Shape
  <2> QED BY <2>2 DEF RowShape, InvoiceStatuses
<1>5. ev \in Event /\ ev.invoice = o /\ ev.ref = Nobody
  BY DEF EventOf, Event, EventTypes
<1> HIDE DEF ev
<1>6. \A x \in Orders : Exists(x) => Exists(x)'
  BY <1>2 DEF Exists
<1>7. Shape'
  BY <1>1, <1>2, <1>3, <1>4, <1>5 DEF Inv, Shape
<1>8. StatusExplained'
  <2>1. "open" = computeInvoiceStatus(Order[o].amount, 0, 0, FALSE, Order[o].policy.late)
    BY DEF computeInvoiceStatus
  <2>2. row.status = "open" /\ row.pending = 0 /\ row.confirmed = 0
    OBVIOUS
  <2> HIDE DEF row
  <2> QED BY <1>1, <1>2, <2>1, <2>2 DEF Inv, StatusExplained, Exists, Expired
<1>9. PaidAnnounced' /\ ReviewsRaised'
  BY <1>1, <1>2 DEF Inv, PaidAnnounced, ReviewsRaised, EventOf
<1>10. NoSilentDeposit' /\ ConfirmedDepositSound' /\ DepositCases'
  BY <1>1 DEF Inv, NoSilentDeposit, ConfirmedDepositSound, DepositCases, EventOf
<1>11. CreditedToAddressee'
  BY <1>1, <1>6 DEF Inv, CreditedToAddressee, Shape, DepositRow
<1>12. EventsOwned'
  <2>1. Exists(o)'
    BY <1>2 DEF Exists
  <2> QED BY <1>1, <1>5, <1>6, <2>1 DEF Inv, EventsOwned, Shape, Event
<1>13. RefundsWritten'
  BY <1>1 DEF Inv, RefundsWritten
<1> QED BY <1>7, <1>8, <1>9, <1>10, <1>11, <1>12, <1>13 DEF Inv

\* CreateRefund names an invoice of its merchant, and only a new refund.
LEMMA CreateRefundInv ==
  ASSUME Inv, NEW r \in Refunds, NEW m \in Merchants, NEW o \in Orders \cup {Nobody},
         NEW status \in {"requested", "sent"}, CreateRefund(r, m, o, status)
  PROVE  Inv'
<1> DEFINE row == [merchant |-> m, invoice |-> o, status |-> status]
           new == IF o = Nobody THEN {} ELSE {EventOf(o, refundEvent(status), r)}
<1>1. /\ refunds' = [refunds EXCEPT ![r] = row]
      /\ events' = events \cup new
      /\ UNCHANGED <<now, invoices, deposits, cursor, reviews>>
  BY DEF CreateRefund
<1>2. row \in RefundRow
  BY DEF RefundRow
<1>3. \A ev \in new : /\ ev \in Event /\ ev.invoice = o /\ o # Nobody /\ ev.ref = r
                      /\ ev.typ = refundEvent(status)
  BY DEF EventOf, Event, EventTypes, refundEvent
<1> HIDE DEF new
<1>4. refunds'[r] = row /\ \A x \in Refunds : x # r => refunds'[x] = refunds[x]
  BY <1>1 DEF Inv, Shape
<1>5. Shape'
  BY <1>1, <1>2, <1>3 DEF Inv, Shape
<1>6. StatusExplained' /\ PaidAnnounced' /\ ReviewsRaised'
  BY <1>1, InvoicesUntouched
<1>7. NoSilentDeposit' /\ ConfirmedDepositSound' /\ DepositCases' /\ CreditedToAddressee'
  BY <1>1 DEF Inv, NoSilentDeposit, ConfirmedDepositSound, DepositCases, CreditedToAddressee,
              EventOf, Exists
<1>8. EventsOwned'
  <2> SUFFICES ASSUME NEW ev \in events'
               PROVE  /\ Exists(ev.invoice)'
                      /\ ev.ref \in Outputs =>
                            /\ deposits'[ev.ref].invoice = ev.invoice
                            /\ Output[ev.ref].wallet = WalletOf[Order[ev.invoice].merchant]
                      /\ ev.ref \in Refunds =>
                            /\ refunds'[ev.ref].invoice = ev.invoice
                            /\ refunds'[ev.ref].merchant = Order[ev.invoice].merchant
                            /\ ev.typ = refundEvent(refunds'[ev.ref].status)
    BY DEF EventsOwned
  <2>1. CASE ev \in events
    <3>1. ev.ref # r
      <4>1. refunds[r].status = "absent" /\ refunds[r] \in RefundRow
        BY DEF CreateRefund, Inv, Shape
      <4> QED BY <4>1, <2>1 DEF Inv, EventsOwned, RefundsWritten, Shape, Event
    <3> QED BY <1>1, <1>4, <2>1, <3>1 DEF Inv, EventsOwned, Exists
  <2>2. CASE ev \in new
    BY <1>1, <1>3, <1>4, <2>2 DEF CreateRefund, Exists
  <2> QED BY <1>1, <2>1, <2>2
<1>9. RefundsWritten'
  BY <1>1, <1>4 DEF Inv, RefundsWritten
<1> QED BY <1>5, <1>6, <1>7, <1>8, <1>9 DEF Inv

\* A note credited to o by this event lies at o's address and in the wallet of
\* o's merchant, and o exists.
LEMMA ApplyInvoiceId ==
  ASSUME NEW d \in Outputs, NEW height
  PROVE  /\ applyInvoiceID(d, height) \in Orders \cup {Nobody}
         /\ applyInvoiceID(d, height) # Nobody =>
              /\ applyInvoiceID(d, height) = Output[d].to
              /\ Exists(Output[d].to)
              /\ Output[d].wallet = WalletOf[Order[Output[d].to].merchant]
  BY DEF applyInvoiceID, OutputRow

\* The UPDATE or INSERT of the deposits table keeps a credited invoice, and takes
\* confirmed_height away with the confirmation.
LEMMA UpsertDeposit ==
  ASSUME Inv, NEW d \in Outputs, NEW height \in Nat,
         NEW status \in {"detected", "unconfirmed", "orphaned"},
         NEW o, o = applyInvoiceID(d, height)
  PROVE  LET row == upsertDeposit(d, height, status, o)
         IN  /\ row \in DepositRow
             /\ row.status # "absent"
             /\ row.status = "confirmed" =>
                  deposits[d].status = "confirmed" /\ row.invoice = deposits[d].invoice
             /\ row.status = "confirmed" <=> row.confHeight # Null
             /\ deposits[d].invoice # Nobody => row.invoice = deposits[d].invoice
             /\ deposits[d].invoice = Nobody => row.invoice = o
             /\ o # Nobody => row.invoice = o
<1> DEFINE row == upsertDeposit(d, height, status, o)
<1>1. deposits[d] \in DepositRow
  BY DEF Inv, Shape
<1>2. o \in Orders \cup {Nobody} /\ (o # Nobody => o = Output[d].to)
  BY ApplyInvoiceId
<1>3. /\ row.status = IF deposits[d].status = "confirmed" /\ status = "detected"
                      THEN "confirmed" ELSE status
      /\ row.confHeight = IF status \in {"unconfirmed", "orphaned"} THEN Null
                          ELSE deposits[d].confHeight
      /\ row.invoice = IF deposits[d].invoice # Nobody THEN deposits[d].invoice ELSE o
  BY DEF upsertDeposit
<1>4. row \in DepositRow
  BY <1>1, <1>2 DEF upsertDeposit, DepositRow, DepositStatuses
<1> HIDE DEF row
<1>5. row.status # "absent"
  BY <1>3
<1>6. deposits[d].status = "confirmed" <=> deposits[d].confHeight # Null
  BY DEF Inv, ConfirmedDepositSound
<1>7. row.status = "confirmed" <=> row.confHeight # Null
  BY <1>3, <1>6
<1>8. deposits[d].status = "confirmed" => deposits[d].invoice # Nobody
  BY DEF Inv, ConfirmedDepositSound
<1>9. deposits[d].invoice # Nobody => deposits[d].invoice = Output[d].to
  BY DEF Inv, CreditedToAddressee
<1> QED BY <1>2, <1>3, <1>4, <1>5, <1>7, <1>8, <1>9 DEF row

\* ApplyScanEvent with a deposit event: credited or put before a person.
LEMMA ApplyDepositInv ==
  ASSUME Inv, NEW d \in Outputs, NEW height \in Nat,
         NEW status \in {"detected", "unconfirmed", "orphaned"},
         applyDepositEvent(d, height, status),
         cursor' \in [Wallets -> Nat], UNCHANGED <<now, refunds>>
  PROVE  Inv'
<1> DEFINE o == applyInvoiceID(d, height)
           row == upsertDeposit(d, height, status, o)
           deps == [deposits EXCEPT ![d] = row]
<1>1. deposits' = deps
  BY DEF applyDepositEvent
<1>2. /\ row \in DepositRow /\ row.status # "absent"
      /\ row.status = "confirmed" =>
           deposits[d].status = "confirmed" /\ row.invoice = deposits[d].invoice
      /\ row.status = "confirmed" <=> row.confHeight # Null
      /\ deposits[d].invoice # Nobody => row.invoice = deposits[d].invoice
      /\ deposits[d].invoice = Nobody => row.invoice = o
      /\ o # Nobody => row.invoice = o
  BY UpsertDeposit
<1>3. /\ o \in Orders \cup {Nobody}
      /\ o # Nobody => /\ o \in Orders /\ o = Output[d].to /\ Exists(o)
                       /\ Output[d].wallet = WalletOf[Order[o].merchant]
  BY ApplyInvoiceId
<1>4. \/ /\ o = Nobody
         /\ reviews' = reviews \cup unattributedReviews(d)
         /\ UNCHANGED <<invoices, events>>
      \/ /\ o # Nobody
         /\ invoices' = [invoices EXCEPT ![o] = Recomputed(deps, o)]
         /\ events' = events \cup DetectionEvents(o, d, status)
                \cup StatusChangeEvents(o, Recomputed(deps, o))
         /\ reviews' = reviews \cup StatusChangeReviews(o, Recomputed(deps, o))
  BY DEF applyDepositEvent
<1> HIDE DEF o, row, deps
<1>5. /\ deposits' \in [Outputs -> DepositRow]
      /\ deposits'[d] = row
      /\ \A x \in Outputs : x # d => deposits'[x] = deposits[x]
  BY <1>1, <1>2 DEF Inv, Shape, deps
<1>6. events \subseteq events' /\ reviews \subseteq reviews'
  BY <1>4
<1>7. /\ DOMAIN invoices' = Orders
      /\ invoices' = [x \in Orders |-> invoices'[x]]
      /\ \A x \in Orders : RowShape(invoices'[x]) /\ (Exists(x)' <=> Exists(x))
      /\ StatusExplained' /\ PaidAnnounced' /\ ReviewsRaised'
  <2>1. CASE o = Nobody
    <3>1. UNCHANGED <<now, invoices>>
      BY <1>4, <2>1
    <3>2. StatusExplained' /\ PaidAnnounced' /\ ReviewsRaised'
      BY <1>6, <3>1, InvoicesUntouched
    <3> QED BY <3>1, <3>2 DEF Inv, Shape, Exists
  <2>2. CASE o # Nobody
    <3> DEFINE touched == {o}
    <3> HIDE DEF touched
    <3>1. invoices' = [x \in Orders |-> IF x \in touched THEN Recomputed(deps, x) ELSE invoices[x]]
      BY <1>3, <1>4, <2>2 DEF Inv, Shape, touched
    <3>2. \A x \in touched : StatusChangeEvents(x, Recomputed(deps, x)) \subseteq events'
      BY <1>4, <2>2 DEF touched
    <3>3. \A x \in touched : StatusChangeReviews(x, Recomputed(deps, x)) \subseteq reviews'
      BY <1>4, <2>2 DEF touched
    <3>4. touched \subseteq Orders /\ \A x \in touched : Exists(x)
      BY <1>3, <2>2 DEF touched
    <3>5. \A c \in reviews : \E x \in reviews' : x.subject = c.subject /\ x.reason = c.reason
      BY <1>6
    <3> QED BY <1>6, <3>1, <3>2, <3>3, <3>4, <3>5, RecomputeStep, Zenon
  <2> QED BY <2>1, <2>2
<1>8. \A ev \in events' \ events :
        /\ ev \in Event /\ o # Nobody /\ ev.invoice = o
        /\ ev.ref \in {d, Nobody}
  <2>1. \A ev \in DetectionEvents(o, d, status) :
          o \in Orders => ev \in Event /\ ev.invoice = o /\ ev.ref = d
    BY DEF DetectionEvents, EventOf, Event, EventTypes
  <2> QED BY <1>3, <1>4, <2>1, StatusChangeRows
<1>9. \A c \in reviews' \ reviews :
        c \in Review /\ (c.subject \in Outputs => c.reason = "unknown_address")
  <2>1. \A c \in unattributedReviews(d) :
          c \in Review /\ c.reason = "unknown_address"
    BY DEF unattributedReviews, Review, Reasons
  <2> QED BY <1>3, <1>4, <2>1, StatusChangeRows
<1>10. Shape'
  BY <1>5, <1>7, <1>8, <1>9 DEF Inv, Shape
<1>11. DepositCases' /\ RefundsWritten'
  BY <1>9 DEF Inv, DepositCases, RefundsWritten
<1>12. NoSilentDeposit'
  <2> SUFFICES ASSUME NEW x \in Outputs, deposits'[x].status # "absent",
                      MerchantsOf(Output[x].wallet) # {}
               PROVE  \/ deposits'[x].invoice # Nobody
                      \/ \E c \in reviews' : c.subject = x /\ c.reason = "unknown_address"
    BY DEF NoSilentDeposit, MerchantsOf
  <2>1. CASE x # d
    BY <1>5, <1>6, <2>1 DEF Inv, NoSilentDeposit
  <2>2. CASE x = d /\ o # Nobody
    BY <1>2, <1>5, <2>2
  <2>3. CASE x = d /\ o = Nobody
    <3>1. CASE \E c \in reviews : c.subject = d
      BY <1>6, <2>3, <3>1 DEF Inv, DepositCases
    <3>2. CASE ~\E c \in reviews : c.subject = d
      <4> DEFINE case == [subject |-> d, reason |-> "unknown_address", status |-> "open"]
      <4>1. MerchantsOf(Output[d].wallet) # {}
        BY <2>3
      <4>2. case \in unattributedReviews(d)
        BY <3>2, <4>1 DEF unattributedReviews
      <4>3. case \in reviews'
        BY <1>4, <2>3, <4>2
      <4> QED BY <2>3, <4>3
    <3> QED BY <3>1, <3>2
  <2> QED BY <2>1, <2>2, <2>3
<1>13. ConfirmedDepositSound'
  BY <1>2, <1>5, <1>6 DEF Inv, ConfirmedDepositSound, EventOf
<1>14. CreditedToAddressee'
  <2> SUFFICES ASSUME NEW x \in Outputs, deposits'[x].invoice # Nobody
               PROVE  /\ deposits'[x].invoice = Output[x].to
                      /\ invoices'[deposits'[x].invoice].status # "absent"
                      /\ Output[x].wallet = WalletOf[Order[deposits'[x].invoice].merchant]
    BY DEF CreditedToAddressee, Exists
  <2>1. deposits'[x].invoice \in Orders
    BY <1>5 DEF DepositRow
  <2>2. CASE deposits'[x].invoice = deposits[x].invoice
    BY <1>7, <2>1, <2>2 DEF Inv, CreditedToAddressee, Exists
  <2>3. CASE x = d /\ deposits'[x].invoice = o
    BY <1>3, <1>7, <2>1, <2>3 DEF Exists
  <2> QED BY <1>2, <1>5, <2>2, <2>3
<1>15. EventsOwned'
  <2> SUFFICES ASSUME NEW ev \in events'
               PROVE  /\ Exists(ev.invoice)'
                      /\ ev.ref \in Outputs =>
                            /\ deposits'[ev.ref].invoice = ev.invoice
                            /\ Output[ev.ref].wallet = WalletOf[Order[ev.invoice].merchant]
                      /\ ev.ref \in Refunds =>
                            /\ refunds'[ev.ref].invoice = ev.invoice
                            /\ refunds'[ev.ref].merchant = Order[ev.invoice].merchant
                            /\ ev.typ = refundEvent(refunds'[ev.ref].status)
    BY DEF EventsOwned, Exists
  <2>1. ev.invoice \in Orders
    BY <1>10 DEF Shape, Event
  <2>2. CASE ev \in events
    <3>1. ev.ref \in Outputs => deposits[ev.ref].invoice = ev.invoice
      BY <2>2 DEF Inv, EventsOwned
    <3>2. ev.ref \in Outputs => deposits'[ev.ref].invoice = ev.invoice
      BY <1>2, <1>5, <2>1, <3>1
    <3> QED BY <1>7, <2>1, <2>2, <3>2 DEF Inv, EventsOwned, Exists
  <2>3. CASE ev \notin events
    BY <1>2, <1>3, <1>5, <1>7, <1>8, <2>3 DEF Exists
  <2> QED BY <2>2, <2>3
<1> QED BY <1>7, <1>10, <1>11, <1>12, <1>13, <1>14, <1>15 DEF Inv

\* Nothing but the clock, the cursor or the state of a case changes.
LEMMA NoRowWritten ==
  ASSUME Inv, now' \in Nat, now' >= now, cursor' \in [Wallets -> Nat], reviews' \subseteq Review,
         \A c \in reviews : \E x \in reviews' : x.subject = c.subject /\ x.reason = c.reason,
         \A x \in reviews' : \E c \in reviews : x.subject = c.subject /\ x.reason = c.reason,
         UNCHANGED <<invoices, deposits, events, refunds>>
  PROVE  Inv'
<1>1. Shape'
  BY DEF Inv, Shape
<1>2. StatusExplained'
  <2> SUFFICES ASSUME NEW o \in Orders, Exists(o)'
               PROVE  \E late \in {FALSE, Expired(o)'} : invoices'[o].status =
                        computeInvoiceStatus(Order[o].amount, invoices'[o].pending,
                            invoices'[o].confirmed, late, Order[o].policy.late)
    BY DEF StatusExplained
  <2>1. Expired(o) => Expired(o)'
    BY DEF Inv, Shape, RowShape, Expired, Null
  <2>2. Exists(o)
    BY DEF Exists
  <2>3. PICK late \in {FALSE, Expired(o)} : invoices[o].status =
          computeInvoiceStatus(Order[o].amount, invoices[o].pending,
                               invoices[o].confirmed, late, Order[o].policy.late)
    BY <2>2 DEF Inv, StatusExplained
  <2>4. late \in {FALSE, Expired(o)'}
    BY <2>1 DEF Expired
  <2> QED BY <2>3, <2>4
<1>3. PaidAnnounced' /\ CreditedToAddressee' /\ RefundsWritten'
  BY DEF Inv, PaidAnnounced, CreditedToAddressee, RefundsWritten, Exists, EventOf
<1>4. ReviewsRaised'
  BY DEF Inv, ReviewsRaised
<1>5. NoSilentDeposit' /\ DepositCases'
  BY DEF Inv, NoSilentDeposit, DepositCases, MerchantsOf
<1>6. ConfirmedDepositSound'
  BY DEF Inv, ConfirmedDepositSound, EventOf
<1>7. EventsOwned'
  BY DEF Inv, EventsOwned, Exists
<1> QED BY <1>1, <1>2, <1>3, <1>4, <1>5, <1>6, <1>7 DEF Inv

\* ApplyScanEvent: an event of another kind only moves the cursor.
LEMMA ApplyScanEventInv ==
  ASSUME Inv, NEW e \in ScanEvents, ApplyScanEvent(e)
  PROVE  Inv'
<1>1. e.output \in Outputs /\ e.height \in Nat /\ e.cursor \in Nat
  BY DEF ScanEvents
<1>2. cursor' \in [Wallets -> Nat]
  BY <1>1 DEF ApplyScanEvent, Inv, Shape
<1>3. incomingStatus(e.kind) \in {"detected", "unconfirmed", "orphaned"}
  BY DEF incomingStatus
<1>4. CASE e.kind \in DepositKinds
  <2>1. applyDepositEvent(e.output, e.height, incomingStatus(e.kind)) /\ UNCHANGED <<now, refunds>>
    BY <1>4 DEF ApplyScanEvent
  <2> QED BY <1>1, <1>2, <1>3, <2>1, ApplyDepositInv
<1>5. CASE e.kind \notin DepositKinds
  <2>1. UNCHANGED <<now, invoices, deposits, events, reviews, refunds>>
    BY <1>5 DEF ApplyScanEvent
  <2>2. now' \in Nat /\ now' >= now /\ reviews' \subseteq Review
    BY <2>1 DEF Inv, Shape
  <2> QED BY <1>2, <2>1, <2>2, NoRowWritten
<1> QED BY <1>4, <1>5

\* Closing a case keeps its subject and its reason.
LEMMA CloseReviewInv ==
  ASSUME Inv, NEW c \in reviews, NEW status \in {"resolved", "rejected"}, CloseReview(c, status)
  PROVE  Inv'
<1> DEFINE closed == [c EXCEPT !.status = status]
<1>1. reviews' = (reviews \ {c}) \cup {closed}
      /\ UNCHANGED <<now, invoices, deposits, cursor, events, refunds>>
  BY DEF CloseReview
<1>2. c \in Review
  BY DEF Inv, Shape
<1>3. closed \in Review /\ closed.subject = c.subject /\ closed.reason = c.reason
  BY <1>2 DEF Review
<1> HIDE DEF closed
<1>4. now' \in Nat /\ now' >= now /\ cursor' \in [Wallets -> Nat] /\ reviews' \subseteq Review
  BY <1>1, <1>3 DEF Inv, Shape
<1>5. \A y \in reviews : \E x \in reviews' : x.subject = y.subject /\ x.reason = y.reason
  BY <1>1, <1>3
<1>6. \A x \in reviews' : \E y \in reviews : x.subject = y.subject /\ x.reason = y.reason
  BY <1>1, <1>3
<1> QED BY <1>1, <1>4, <1>5, <1>6, NoRowWritten

\* Time only passes.
LEMMA TickInv ==
  ASSUME Inv, Tick
  PROVE  Inv'
<1>1. now' \in Nat /\ now' >= now /\ cursor' \in [Wallets -> Nat] /\ reviews' \subseteq Review
  BY DEF Tick, Inv, Shape
<1> QED BY <1>1, NoRowWritten DEF Tick

\* The backfill of Store.Init rewrites the status of an existing invoice to what
\* its sums say now; by ExpiryOnly it announces nothing that was not announced.
LEMMA RestartRow ==
  ASSUME Inv, Restart, NEW o \in Orders
  PROVE  /\ RowShape(invoices'[o])
         /\ Exists(o)' <=> Exists(o)
         /\ ~Exists(o) => invoices'[o] = invoices[o]
         /\ invoices'[o].expires = invoices[o].expires
         /\ Exists(o) => /\ invoices'[o].pending = invoices[o].pending
                         /\ invoices'[o].confirmed = invoices[o].confirmed
                         /\ invoices'[o].status =
                              computeInvoiceStatus(Order[o].amount, invoices[o].pending,
                                  invoices[o].confirmed, Expired(o), Order[o].policy.late)
<1>1. CASE ~Exists(o)
  <2>1. invoices'[o] = invoices[o]
    BY <1>1 DEF Restart
  <2> QED BY <1>1, <2>1 DEF Inv, Shape, Exists
<1>2. CASE Exists(o)
  <2> DEFINE status == backfillStatus(Order[o].amount, invoices[o].pending,
                                      invoices[o].confirmed, invoices[o].expires, now,
                                      Order[o].policy.late)
             fresh == computeInvoiceStatus(Order[o].amount, invoices[o].pending,
                                  invoices[o].confirmed, Expired(o), Order[o].policy.late)
  <2>1. RowShape(invoices[o]) /\ now \in Nat
    BY DEF Inv, Shape
  <2>2. status = fresh
    BY BackfillAgrees DEF Inv
  <2>3. fresh \in InvoiceStatuses
    BY ComputeStatusType
  <2>4. invoices'[o] = [invoices[o] EXCEPT !.status = status]
    BY <1>2 DEF Restart
  <2> HIDE DEF status, fresh
  <2>5. invoices'[o] = [status |-> status, pending |-> invoices[o].pending,
                        confirmed |-> invoices[o].confirmed, after |-> invoices[o].after,
                        expires |-> invoices[o].expires]
    BY <2>1, <2>4 DEF RowShape
  <2>6. RowShape(invoices'[o])
    BY <2>1, <2>2, <2>3, <2>5 DEF RowShape
  <2>7. invoices'[o].status # "absent"
    BY <2>2, <2>3, <2>5 DEF InvoiceStatuses
  <2> QED BY <1>2, <2>2, <2>5, <2>6, <2>7 DEF Exists, fresh
<1> QED BY <1>1, <1>2

\* An invoice stands paid, overpaid or partly paid after a restart only if it did before.
LEMMA RestartStatus ==
  ASSUME Inv, Restart, NEW o \in Orders
  PROVE  /\ invoices'[o].status \in {"confirmed", "paid_late"} =>
               invoices[o].status \in {"confirmed", "paid_late"}
         /\ invoices'[o].status = "overpaid" => invoices[o].status = "overpaid"
         /\ invoices'[o].status = "partial_confirmed" =>
               invoices[o].status = "partial_confirmed"
         /\ invoices[o].status = "paid_late" => Order[o].policy.late = "mark_paid_late"
<1>1. CASE ~Exists(o)
  BY <1>1, RestartRow DEF Exists
<1>2. CASE Exists(o)
  <2>1. PICK late \in {FALSE, Expired(o)} : invoices[o].status =
          computeInvoiceStatus(Order[o].amount, invoices[o].pending,
                               invoices[o].confirmed, late, Order[o].policy.late)
    BY <1>2 DEF Inv, StatusExplained
  <2>2. late \in BOOLEAN /\ Expired(o) \in BOOLEAN
    BY DEF Expired
  <2>3. invoices'[o].status =
          computeInvoiceStatus(Order[o].amount, invoices[o].pending,
                               invoices[o].confirmed, Expired(o), Order[o].policy.late)
    BY <1>2, RestartRow
  <2> QED BY <2>1, <2>2, <2>3, ExpiryOnly
<1> QED BY <1>1, <1>2

\* Store.Init writes statuses only, and by RestartStatus none that needs an event.
LEMMA RestartInv ==
  ASSUME Inv, Restart
  PROVE  Inv'
<1>1. UNCHANGED <<now, deposits, cursor, events, reviews, refunds>>
  BY DEF Restart
<1>2. DOMAIN invoices' = Orders /\ invoices' = [o \in Orders |-> invoices'[o]]
  BY DEF Restart
<1>3. \A o \in Orders : Exists(o)' <=> Exists(o)
  BY RestartRow
<1>4. Shape'
  BY <1>1, <1>2, RestartRow DEF Inv, Shape
<1>5. StatusExplained'
  <2> SUFFICES ASSUME NEW o \in Orders, Exists(o)'
               PROVE  \E late \in {FALSE, Expired(o)'} : invoices'[o].status =
                        computeInvoiceStatus(Order[o].amount, invoices'[o].pending,
                            invoices'[o].confirmed, late, Order[o].policy.late)
    BY DEF StatusExplained
  <2>1. Expired(o)' = Expired(o)
    BY <1>1, RestartRow DEF Expired
  <2> QED BY <1>3, <2>1, RestartRow
<1>6. PaidAnnounced'
  BY <1>1, RestartStatus DEF Inv, PaidAnnounced, EventOf
<1>7. ReviewsRaised'
  BY <1>1, RestartStatus DEF Inv, ReviewsRaised
<1>8. NoSilentDeposit' /\ ConfirmedDepositSound' /\ DepositCases' /\ RefundsWritten'
  BY <1>1 DEF Inv, NoSilentDeposit, ConfirmedDepositSound, DepositCases, RefundsWritten,
              EventOf, MerchantsOf
<1>9. CreditedToAddressee'
  BY <1>1, <1>3 DEF Inv, CreditedToAddressee, Shape, DepositRow, Exists
<1>10. EventsOwned'
  BY <1>1, <1>3 DEF Inv, EventsOwned, Shape, Event, Exists
<1> QED BY <1>4, <1>5, <1>6, <1>7, <1>8, <1>9, <1>10 DEF Inv

\* UpdateInvoiceConfirmations confirms credited deposits, announces each one and
\* recomputes their invoices.
LEMMA UpdateInvoiceConfirmationsInv ==
  ASSUME Inv, NEW best \in 0..MaxHeight, UpdateInvoiceConfirmations(best)
  PROVE  Inv'
<1> DEFINE ready    == toConfirm(best)
           deps     == [d \in Outputs |->
                           IF d \in ready THEN confirmedDeposit(d) ELSE deposits[d]]
           affected == {deposits[d].invoice : d \in ready}
           notices  == {EventOf(deposits[d].invoice, "deposit.confirmed", d) : d \in ready}
<1>1. /\ deposits' = deps
      /\ invoices' = [o \in Orders |->
                          IF o \in affected THEN Recomputed(deps, o) ELSE invoices[o]]
      /\ events' = events \cup notices
              \cup UNION {StatusChangeEvents(o, Recomputed(deps, o)) : o \in affected}
      /\ reviews' = reviews
              \cup UNION {StatusChangeReviews(o, Recomputed(deps, o)) : o \in affected}
      /\ UNCHANGED <<now, cursor, refunds>>
  BY DEF UpdateInvoiceConfirmations
<1>2. ready \subseteq Outputs /\ \A d \in ready : deposits[d].invoice # Nobody
  BY DEF toConfirm
<1>3. \A d \in ready :
        /\ confirmedDeposit(d) \in DepositRow
        /\ confirmedDeposit(d).status = "confirmed"
        /\ confirmedDeposit(d).confHeight # Null
        /\ confirmedDeposit(d).invoice = deposits[d].invoice
  <2> SUFFICES ASSUME NEW d \in ready
               PROVE  /\ confirmedDeposit(d) \in DepositRow
                      /\ confirmedDeposit(d).status = "confirmed"
                      /\ confirmedDeposit(d).confHeight # Null
                      /\ confirmedDeposit(d).invoice = deposits[d].invoice
    OBVIOUS
  <2>1. deposits[d] \in DepositRow /\ deposits[d].invoice \in Orders
    BY <1>2 DEF Inv, Shape, DepositRow
  <2>2. Required(Order[deposits[d].invoice].required) \in Nat \ {0}
    BY <2>1 DEF Required, OrderRow
  <2>3. /\ deposits[d].height \in Nat
        /\ deposits[d].height + Required(Order[deposits[d].invoice].required) - 1 \in Nat
    BY <2>1, <2>2 DEF DepositRow
  <2> DEFINE height == deposits[d].height + Required(Order[deposits[d].invoice].required) - 1
  <2>4. confirmedDeposit(d) = [deposits[d] EXCEPT !.status = "confirmed", !.confHeight = height]
    BY DEF confirmedDeposit
  <2> HIDE DEF height
  <2>5. confirmedDeposit(d) = [status |-> "confirmed", height |-> deposits[d].height,
                               confHeight |-> height, invoice |-> deposits[d].invoice]
    BY <2>1, <2>4 DEF DepositRow
  <2>6. height \in Nat /\ height # Null
    BY <2>3 DEF height, Null
  <2> QED BY <2>1, <2>3, <2>5, <2>6 DEF DepositRow, DepositStatuses
<1>4. affected \subseteq Orders /\ \A o \in affected : Exists(o)
  BY <1>2 DEF Inv, CreditedToAddressee, Shape, DepositRow
<1>5. \A ev \in notices : \E d \in ready :
        /\ ev \in Event /\ ev.invoice = deposits[d].invoice /\ ev.ref = d
  BY <1>2, <1>4 DEF EventOf, Event, EventTypes
<1>6. \A d \in ready : EventOf(deposits[d].invoice, "deposit.confirmed", d) \in notices
  OBVIOUS
<1> HIDE DEF ready, deps, affected, notices
<1>7. /\ deposits' \in [Outputs -> DepositRow]
      /\ \A d \in Outputs : /\ deposits'[d].invoice = deposits[d].invoice
                            /\ d \in ready => deposits'[d] = confirmedDeposit(d)
                            /\ d \notin ready => deposits'[d] = deposits[d]
  BY <1>1, <1>2, <1>3 DEF Inv, Shape, deps
<1>8. events \subseteq events' /\ notices \subseteq events' /\ reviews \subseteq reviews'
  BY <1>1
<1>9. /\ DOMAIN invoices' = Orders
      /\ invoices' = [o \in Orders |-> invoices'[o]]
      /\ \A o \in Orders : RowShape(invoices'[o]) /\ (Exists(o)' <=> Exists(o))
      /\ StatusExplained' /\ PaidAnnounced' /\ ReviewsRaised'
  <2>1. \A o \in affected : StatusChangeEvents(o, Recomputed(deps, o)) \subseteq events'
    BY <1>1
  <2>2. \A o \in affected : StatusChangeReviews(o, Recomputed(deps, o)) \subseteq reviews'
    BY <1>1
  <2>3. \A c \in reviews : \E x \in reviews' : x.subject = c.subject /\ x.reason = c.reason
    BY <1>8
  <2>4. now' = now
    BY <1>1
  <2> QED BY <1>1, <1>4, <1>8, <2>1, <2>2, <2>3, <2>4, RecomputeStep, Zenon
<1>10. \A ev \in events' \ events :
         /\ ev \in Event /\ Exists(ev.invoice)
         /\ ev.ref = Nobody \/ \E d \in ready : ev.invoice = deposits[d].invoice /\ ev.ref = d
  <2> SUFFICES ASSUME NEW ev \in events' \ events
               PROVE  /\ ev \in Event /\ Exists(ev.invoice)
                      /\ ev.ref = Nobody \/ \E d \in ready :
                            ev.invoice = deposits[d].invoice /\ ev.ref = d
    OBVIOUS
  <2>1. CASE ev \in notices
    <3>1. PICK d \in ready : ev \in Event /\ ev.invoice = deposits[d].invoice /\ ev.ref = d
      BY <1>5, <2>1
    <3>2. deposits[d].invoice \in affected
      BY DEF affected
    <3> QED BY <1>4, <3>1, <3>2
  <2>2. CASE \E o \in affected : ev \in StatusChangeEvents(o, Recomputed(deps, o))
    BY <1>4, <2>2, StatusChangeRows
  <2> QED BY <1>1, <2>1, <2>2
<1>11. \A c \in reviews' \ reviews : c \in Review /\ c.subject \in Orders
  BY <1>1, <1>4, StatusChangeRows
<1>12. Shape'
  BY <1>1, <1>7, <1>9, <1>10, <1>11 DEF Inv, Shape
<1>13. DepositCases' /\ RefundsWritten'
  BY <1>1, <1>11 DEF Inv, DepositCases, RefundsWritten
<1>14. NoSilentDeposit'
  BY <1>2, <1>7, <1>8 DEF Inv, NoSilentDeposit, MerchantsOf
<1>15. ConfirmedDepositSound'
  <2> SUFFICES ASSUME NEW d \in Outputs
               PROVE  /\ deposits'[d].status = "confirmed" <=> deposits'[d].confHeight # Null
                      /\ deposits'[d].status = "confirmed" =>
                            /\ deposits'[d].invoice # Nobody
                            /\ EventOf(deposits'[d].invoice, "deposit.confirmed", d) \in events'
    BY DEF ConfirmedDepositSound, EventOf
  <2>1. CASE d \in ready
    BY <1>2, <1>3, <1>6, <1>7, <1>8, <2>1
  <2>2. CASE d \notin ready
    BY <1>7, <1>8, <2>2 DEF Inv, ConfirmedDepositSound
  <2> QED BY <2>1, <2>2
<1>16. CreditedToAddressee'
  BY <1>7, <1>9 DEF Inv, CreditedToAddressee, Exists, Shape, DepositRow
<1>17. EventsOwned'
  <2> SUFFICES ASSUME NEW ev \in events'
               PROVE  /\ Exists(ev.invoice)'
                      /\ ev.ref \in Outputs =>
                            /\ deposits'[ev.ref].invoice = ev.invoice
                            /\ Output[ev.ref].wallet = WalletOf[Order[ev.invoice].merchant]
                      /\ ev.ref \in Refunds =>
                            /\ refunds'[ev.ref].invoice = ev.invoice
                            /\ refunds'[ev.ref].merchant = Order[ev.invoice].merchant
                            /\ ev.typ = refundEvent(refunds'[ev.ref].status)
    BY DEF EventsOwned, Exists
  <2>1. ev.invoice \in Orders
    BY <1>12 DEF Shape, Event
  <2>2. CASE ev \in events
    BY <1>1, <1>7, <1>9, <2>1, <2>2 DEF Inv, EventsOwned
  <2>3. CASE ev \notin events
    <3>1. Exists(ev.invoice)'
      BY <1>9, <1>10, <2>1, <2>3
    <3>2. ev.ref \notin Refunds
      BY <1>2, <1>10, <2>3
    <3>3. ASSUME ev.ref \in Outputs
          PROVE  /\ deposits'[ev.ref].invoice = ev.invoice
                 /\ Output[ev.ref].wallet = WalletOf[Order[ev.invoice].merchant]
      BY <1>2, <1>7, <1>10, <2>3, <3>3 DEF Inv, CreditedToAddressee
    <3> QED BY <3>1, <3>2, <3>3
  <2> QED BY <2>2, <2>3
<1> QED BY <1>9, <1>12, <1>13, <1>14, <1>15, <1>16, <1>17 DEF Inv

---------------------------------------------------------------------------
(* The theorems *)

\* Every transaction of the store preserves the invariant.
LEMMA NextInv == Inv /\ [Next]_vars => Inv'
<1> SUFFICES ASSUME Inv, [Next]_vars PROVE Inv'
  OBVIOUS
<1>1. ASSUME NEW o \in Orders, NEW best \in 0..MaxHeight, CreateInvoice(o, best) PROVE Inv'
  BY <1>1, CreateInvoiceInv
<1>2. ASSUME NEW e \in ScanEvents, ApplyScanEvent(e) PROVE Inv'
  BY <1>2, ApplyScanEventInv
<1>3. ASSUME NEW best \in 0..MaxHeight, UpdateInvoiceConfirmations(best) PROVE Inv'
  BY <1>3, UpdateInvoiceConfirmationsInv
<1>4. ASSUME NEW r \in Refunds, NEW m \in Merchants, NEW o \in Orders \cup {Nobody},
             NEW status \in {"requested", "sent"}, CreateRefund(r, m, o, status)
      PROVE  Inv'
  BY <1>4, CreateRefundInv
<1>5. ASSUME NEW c \in reviews, ResolveReviewCase(c) \/ RejectReviewCase(c) PROVE Inv'
  BY <1>5, CloseReviewInv DEF ResolveReviewCase, RejectReviewCase
<1>6. CASE Restart
  BY <1>6, RestartInv
<1>7. CASE Tick
  BY <1>7, TickInv
<1>8. CASE UNCHANGED vars
  <2>1. now' \in Nat /\ now' >= now /\ cursor' \in [Wallets -> Nat] /\ reviews' \subseteq Review
    BY <1>8 DEF vars, Inv, Shape
  <2> QED BY <1>8, <2>1, NoRowWritten DEF vars
<1> QED BY <1>1, <1>2, <1>3, <1>4, <1>5, <1>6, <1>7, <1>8 DEF Next

\* The invariant holds in every reachable state.
THEOREM InvHolds == Spec => []Inv
  BY InitInv, NextInv, PTL DEF Spec

\* An invoice that stands paid or overpaid has been announced as such, whichever
\* of the deposit, confirmation and start-up writers set its status.
THEOREM PaidAnnouncedHolds == Spec => []PaidAnnounced
  BY InvHolds, PTL DEF Inv

\* Deposits, confirmations and the start-up backfill write the status that the
\* stored sums have under the one status function.
THEOREM StatusExplainedHolds == Spec => []StatusExplained
  BY InvHolds, PTL DEF Inv

\* A deposit that the store has recorded is credited or before a person.
THEOREM NoSilentDepositHolds == Spec => []NoSilentDeposit
  BY InvHolds, PTL DEF Inv

\* A policy that asks for a manual review of partial payments or overpayments
\* gets one.
THEOREM ReviewsRaisedHolds == Spec => []ReviewsRaised
  BY InvHolds, PTL DEF Inv

\* A confirmed deposit is credited, announced and has its confirmation height.
THEOREM ConfirmedDepositSoundHolds == Spec => []ConfirmedDepositSound
  BY InvHolds, PTL DEF Inv

\* A merchant's events name deposits and refunds of its own invoices only.
THEOREM EventsOwnedHolds == Spec => []EventsOwned
  BY InvHolds, PTL DEF Inv

\* Once credited, a deposit never changes hands.
THEOREM AttributionStickyHolds == Spec => AttributionSticky
<1> DEFINE Kept == \A d \in Outputs : deposits[d].invoice # Nobody =>
                       deposits'[d].invoice = deposits[d].invoice
<1>1. ASSUME Inv, [Next]_vars PROVE [Kept]_vars
  <2>1. ASSUME NEW e \in ScanEvents, ApplyScanEvent(e) PROVE Kept
    <3>1. CASE e.kind \in DepositKinds
      <4> DEFINE o == applyInvoiceID(e.output, e.height)
                 row == upsertDeposit(e.output, e.height, incomingStatus(e.kind), o)
      <4>1. deposits' = [deposits EXCEPT ![e.output] = row]
        BY <2>1, <3>1 DEF ApplyScanEvent, applyDepositEvent
      <4>2. deposits[e.output].invoice # Nobody => row.invoice = deposits[e.output].invoice
        BY DEF upsertDeposit
      <4> HIDE DEF row
      <4> QED BY <1>1, <4>1, <4>2 DEF Inv, Shape
    <3>2. CASE e.kind \notin DepositKinds
      BY <2>1, <3>2 DEF ApplyScanEvent
    <3> QED BY <3>1, <3>2
  <2>2. ASSUME NEW best \in 0..MaxHeight, UpdateInvoiceConfirmations(best) PROVE Kept
    <3>1. \A d \in Outputs : deposits[d] \in DepositRow
      BY <1>1 DEF Inv, Shape
    <3>2. \A d \in Outputs : confirmedDeposit(d).invoice = deposits[d].invoice
      BY <3>1 DEF confirmedDeposit, DepositRow
    <3>3. \A d \in Outputs : deposits'[d] \in {confirmedDeposit(d), deposits[d]}
      BY <2>2 DEF UpdateInvoiceConfirmations
    <3> QED BY <3>2, <3>3
  <2>3. CASE UNCHANGED deposits
    BY <2>3
  <2> QED BY <1>1, <2>1, <2>2, <2>3
        DEF Next, CreateInvoice, CreateRefund, ResolveReviewCase, RejectReviewCase, CloseReview,
            Restart, Tick
<1>2. Spec => [][Kept]_vars
  BY <1>1, InvHolds, PTL DEF Spec
<1> QED BY <1>2 DEF AttributionSticky

\* The transaction that completes a payment after the expiry opens the case that
\* late_payment_policy = manual_review asks for.
THEOREM LatePaymentReviewedHolds == Spec => LatePaymentReviewed
<1> DEFINE Late(o) == /\ invoices'[o].status = "confirmed"
                      /\ invoices[o].status # "confirmed"
                      /\ Expired(o)
                      /\ Order[o].policy.late = "manual_review"
           Reviewed(o) == \E c \in reviews' : c.subject = o /\ c.reason = "late_payment"
           Good == \A o \in Orders : Late(o) => Reviewed(o)
<1>1. ASSUME Inv, NEW ACTION deps, NEW o \in Orders, Late(o),
             invoices'[o] = Recomputed(deps, o),
             StatusChangeReviews(o, Recomputed(deps, o)) \subseteq reviews'
      PROVE  Reviewed(o)
  <2> DEFINE row == Recomputed(deps, o)
  <2>1. row.status = computeInvoiceStatus(Order[o].amount, row.pending, row.confirmed,
                                          Expired(o), Order[o].policy.late)
    BY <1>1, RecomputedRow DEF Inv
  <2>2. row.status = "confirmed"
    BY <1>1
  <2> HIDE DEF row
  <2>3. row.confirmed = Order[o].amount
    BY <2>1, <2>2 DEF computeInvoiceStatus
  <2>4. policyReview(row.status, Expired(o), row.confirmed = Order[o].amount, Order[o].policy)
          = "late_payment"
    BY <1>1, <2>2, <2>3 DEF policyReview
  <2>5. StatusChangeReviews(o, row)
          = {[subject |-> o, reason |-> "late_payment", status |-> "open"]}
    BY <1>1, <2>2, <2>4 DEF StatusChangeReviews
  <2> QED BY <1>1, <2>5 DEF row
<1>2. ASSUME Inv, [Next]_vars PROVE [Good]_vars
  <2>1. ASSUME NEW x \in Orders, NEW best \in 0..MaxHeight, CreateInvoice(x, best) PROVE Good
    BY <1>2, <2>1 DEF CreateInvoice, Inv, Shape
  <2>2. ASSUME NEW e \in ScanEvents, ApplyScanEvent(e) PROVE Good
    <3> SUFFICES ASSUME NEW o \in Orders, Late(o) PROVE Reviewed(o)
      OBVIOUS
    <3> DEFINE x == applyInvoiceID(e.output, e.height)
               deps == [deposits EXCEPT ![e.output] =
                           upsertDeposit(e.output, e.height, incomingStatus(e.kind), x)]
    <3>1. invoices' # invoices
      OBVIOUS
    <3>2. /\ invoices' = [invoices EXCEPT ![x] = Recomputed(deps, x)]
          /\ reviews' = reviews \cup StatusChangeReviews(x, Recomputed(deps, x))
      BY <2>2, <3>1 DEF ApplyScanEvent, applyDepositEvent
    <3> HIDE DEF x, deps
    <3>3. o = x
      BY <1>2, <3>2 DEF Inv, Shape
    <3>4. invoices'[o] = Recomputed(deps, o)
      BY <1>2, <3>2, <3>3 DEF Inv, Shape
    <3>5. StatusChangeReviews(o, Recomputed(deps, o)) \subseteq reviews'
      BY <3>2, <3>3
    <3> HIDE DEF Late, Reviewed
    <3> QED BY <1>1, <1>2, <3>4, <3>5
  <2>3. ASSUME NEW best \in 0..MaxHeight, UpdateInvoiceConfirmations(best) PROVE Good
    <3> SUFFICES ASSUME NEW o \in Orders, Late(o) PROVE Reviewed(o)
      OBVIOUS
    <3> DEFINE ready == toConfirm(best)
               deps == [d \in Outputs |->
                           IF d \in ready THEN confirmedDeposit(d) ELSE deposits[d]]
               affected == {deposits[d].invoice : d \in ready}
    <3>1. /\ invoices' = [y \in Orders |->
                            IF y \in affected THEN Recomputed(deps, y) ELSE invoices[y]]
          /\ reviews' = reviews \cup
                UNION {StatusChangeReviews(y, Recomputed(deps, y)) : y \in affected}
      BY <2>3 DEF UpdateInvoiceConfirmations
    <3> HIDE DEF ready, deps, affected
    <3>2. o \in affected
      BY <3>1
    <3>3. invoices'[o] = Recomputed(deps, o)
      BY <3>1, <3>2
    <3>4. StatusChangeReviews(o, Recomputed(deps, o)) \subseteq reviews'
      BY <3>1, <3>2
    <3> HIDE DEF Late, Reviewed
    <3> QED BY <1>1, <1>2, <3>3, <3>4
  <2>4. CASE Restart
    BY <1>2, <2>4, RestartStatus
  <2>5. CASE UNCHANGED invoices
    BY <2>5
  <2> QED BY <1>2, <2>1, <2>2, <2>3, <2>4, <2>5
        DEF Next, CreateRefund, ResolveReviewCase, RejectReviewCase, CloseReview, Tick
<1>3. Spec => [][Good]_vars
  BY <1>2, InvHolds, PTL DEF Spec
<1> QED BY <1>3 DEF LatePaymentReviewed

---------------------------------------------------------------------------
(* The sums *)

\* The fold behind SumAmounts: the note it takes first, one step of it, and the
\* functions that satisfy its recursive definition on the subsets of S.
First(s) == CHOOSE y \in s : TRUE
SumBody(f, s) == IF s = {} THEN 0 ELSE Output[First(s)].amount + f[s \ {First(s)}]
IsSum(f, S) == f = [s \in SUBSET S |-> SumBody(f, s)]

LEMMA FirstMember ==
  ASSUME NEW s, s # {}
  PROVE  First(s) \in s
  BY DEF First

\* The recursive definition determines the sum of each set.
LEMMA SumUnique ==
  ASSUME NEW T \in SUBSET Outputs, NEW U \in SUBSET Outputs, NEW f, NEW g,
         IsSum(f, T), IsSum(g, U), NEW s \in SUBSET T, s \in SUBSET U
  PROVE  f[s] = g[s]
<1> DEFINE Bad == {t \in SUBSET Outputs : t \in SUBSET T /\ t \in SUBSET U /\ f[t] # g[t]}
<1> SUFFICES ASSUME Bad # {} PROVE FALSE
  OBVIOUS
<1>1. PICK t \in Bad : \A u \in Bad : u \subseteq t => u = t
  <2>1. Bad \in SUBSET (SUBSET Outputs)
    OBVIOUS
  <2> HIDE DEF Bad
  <2> QED BY <2>1, LeastSet, FiniteOutputs
<1> DEFINE x == First(t)
           u == t \ {x}
<1>2. t \in SUBSET T /\ t \in SUBSET U /\ f[t] # g[t] /\ t \in SUBSET Outputs
  OBVIOUS
<1>3. f[t] = SumBody(f, t) /\ g[t] = SumBody(g, t)
  BY <1>2 DEF IsSum
<1>4. t # {}
  BY <1>2, <1>3 DEF SumBody
<1>5. x \in t
  BY <1>4, FirstMember
<1>6. f[u] = g[u]
  BY <1>1, <1>2, <1>5
<1>7. f[t] = Output[x].amount + f[u] /\ g[t] = Output[x].amount + g[u]
  BY <1>3, <1>4 DEF SumBody
<1> QED BY <1>2, <1>6, <1>7

\* The recursive definition has a solution.
LEMMA SumExists ==
  ASSUME NEW S \in SUBSET Outputs
  PROVE  \E f : IsSum(f, S)
<1> DEFINE Bad == {t \in SUBSET Outputs : ~\E f : IsSum(f, t)}
<1> SUFFICES ASSUME Bad # {} PROVE FALSE
  OBVIOUS
<1>1. PICK T \in Bad : \A u \in Bad : u \subseteq T => u = T
  <2>1. Bad \in SUBSET (SUBSET Outputs)
    OBVIOUS
  <2> HIDE DEF Bad
  <2> QED BY <2>1, LeastSet, FiniteOutputs
<1> DEFINE F(t) == CHOOSE f : IsSum(f, t)
           g == [s \in SUBSET T |->
                   IF s = {} THEN 0
                   ELSE Output[First(s)].amount + F(s \ {First(s)})[s \ {First(s)}]]
<1>2. ASSUME NEW t \in SUBSET T, t # T PROVE IsSum(F(t), t)
  <2>1. \E f : IsSum(f, t)
    BY <1>1, <1>2
  <2> HIDE DEF IsSum
  <2> QED BY <2>1
<1> HIDE DEF F
<1>3. ASSUME NEW t \in SUBSET T, t # T PROVE g[t] = F(t)[t]
  <2>1. F(t)[t] = SumBody(F(t), t)
    BY <1>2, <1>3 DEF IsSum
  <2>2. CASE t = {}
    BY <2>1, <2>2 DEF SumBody
  <2>3. CASE t # {}
    <3> DEFINE x == First(t)
               u == t \ {x}
    <3>1. x \in t
      BY <2>3, FirstMember
    <3>2. u \in SUBSET T /\ u # T /\ u \in SUBSET t /\ t \in SUBSET Outputs
      BY <3>1, <1>3
    <3>3. IsSum(F(t), t) /\ IsSum(F(u), u)
      BY <1>2, <1>3, <3>2
    <3>4. F(t)[u] = F(u)[u]
      <4> HIDE DEF u
      <4> QED BY <3>2, <3>3, SumUnique
    <3>5. F(t)[t] = Output[x].amount + F(t)[u]
      BY <2>1, <2>3 DEF SumBody
    <3>6. g[t] = Output[x].amount + F(u)[u]
      BY <2>3
    <3> QED BY <3>4, <3>5, <3>6
  <2> QED BY <2>2, <2>3
<1>4. ASSUME NEW s \in SUBSET T PROVE g[s] = SumBody(g, s)
  <2>1. CASE s = {}
    BY <2>1 DEF SumBody
  <2>2. CASE s # {}
    <3> DEFINE x == First(s)
               u == s \ {x}
    <3>1. x \in s
      BY <2>2, FirstMember
    <3>2. u \in SUBSET T /\ u # T
      BY <3>1
    <3>3. g[u] = F(u)[u]
      BY <1>3, <3>2
    <3>4. g[s] = Output[x].amount + F(u)[u]
      BY <2>2
    <3> HIDE DEF g
    <3> QED BY <2>2, <3>3, <3>4 DEF SumBody
  <2> QED BY <2>1, <2>2
<1>5. g = [s \in SUBSET T |-> g[s]]
  OBVIOUS
<1> HIDE DEF g
<1>6. IsSum(g, T)
  BY <1>4, <1>5 DEF IsSum
<1> QED BY <1>1, <1>6

\* SumAmounts is a solution of the recursive definition.
LEMMA SumIsFold ==
  ASSUME NEW S \in SUBSET Outputs
  PROVE  \E f : IsSum(f, S) /\ SumAmounts(S) = f[S]
<1> DEFINE iter == CHOOSE f : IsSum(f, S)
<1>1. IsSum(iter, S)
  <2> HIDE DEF IsSum
  <2> QED BY SumExists
<1>2. SumAmounts(S) = iter[S]
  BY DEF SumAmounts, MapThenSumSet, MapThenFoldSet, IsSum, SumBody, First
<1> QED BY <1>1, <1>2

\* The sum over no notes is zero.
LEMMA SumNone == SumAmounts({}) = 0
<1>1. PICK f : IsSum(f, {}) /\ SumAmounts({}) = f[{}]
  BY SumIsFold
<1> QED BY <1>1 DEF IsSum, SumBody

\* One step of the sum.
LEMMA SumStep ==
  ASSUME NEW S \in SUBSET Outputs, S # {}
  PROVE  SumAmounts(S) = Output[First(S)].amount + SumAmounts(S \ {First(S)})
<1> DEFINE x == First(S)
           U == S \ {x}
<1>1. U \in SUBSET Outputs /\ U \in SUBSET S
  OBVIOUS
<1> HIDE DEF U
<1>2. PICK f : IsSum(f, S) /\ SumAmounts(S) = f[S]
  BY SumIsFold
<1>3. PICK g : IsSum(g, U) /\ SumAmounts(U) = g[U]
  BY SumIsFold, <1>1
<1>4. f[U] = g[U]
  BY <1>1, <1>2, <1>3, SumUnique
<1>5. f[S] = Output[x].amount + f[U]
  BY <1>2 DEF IsSum, SumBody, U
<1> QED BY <1>2, <1>3, <1>4, <1>5 DEF U

\* A sum of amounts is a natural number.
LEMMA SumNat ==
  ASSUME NEW S \in SUBSET Outputs
  PROVE  SumAmounts(S) \in Nat
<1> DEFINE Bad == {t \in SUBSET Outputs : SumAmounts(t) \notin Nat}
<1> SUFFICES ASSUME Bad # {} PROVE FALSE
  OBVIOUS
<1>1. PICK t \in Bad : \A u \in Bad : u \subseteq t => u = t
  <2>1. Bad \in SUBSET (SUBSET Outputs)
    OBVIOUS
  <2> HIDE DEF Bad
  <2> QED BY <2>1, LeastSet, FiniteOutputs
<1>2. t \in SUBSET Outputs /\ SumAmounts(t) \notin Nat
  OBVIOUS
<1>3. t # {}
  BY <1>2, SumNone
<1>4. First(t) \in t
  BY <1>3, FirstMember
<1>5. SumAmounts(t \ {First(t)}) \in Nat
  BY <1>1, <1>2, <1>4
<1>6. Output[First(t)].amount \in Nat
  BY <1>2, <1>4 DEF OutputRow
<1> QED BY <1>2, <1>3, <1>5, <1>6, SumStep

\* The sum does not depend on the order in which the rows are read: each note
\* counts once, with its own amount.
LEMMA SumRemove ==
  ASSUME NEW S \in SUBSET Outputs, NEW d \in S
  PROVE  SumAmounts(S) = Output[d].amount + SumAmounts(S \ {d})
<1> DEFINE Adds(t) == \A y \in t : SumAmounts(t) = Output[y].amount + SumAmounts(t \ {y})
           Bad == {t \in SUBSET Outputs : ~Adds(t)}
<1> SUFFICES ASSUME Bad # {} PROVE FALSE
  OBVIOUS
<1>1. PICK t \in Bad : \A u \in Bad : u \subseteq t => u = t
  <2>1. Bad \in SUBSET (SUBSET Outputs)
    OBVIOUS
  <2> HIDE DEF Bad
  <2> QED BY <2>1, LeastSet, FiniteOutputs
<1>2. t \in SUBSET Outputs /\ ~Adds(t)
  OBVIOUS
<1>3. PICK y \in t : SumAmounts(t) # Output[y].amount + SumAmounts(t \ {y})
  BY <1>2
<1> DEFINE x == First(t)
<1>4. x \in t
  BY FirstMember
<1>5. SumAmounts(t) = Output[x].amount + SumAmounts(t \ {x})
  BY <1>2, SumStep
<1> HIDE DEF x
<1>6. x # y
  BY <1>3, <1>5
<1>7. SumAmounts(t \ {x}) = Output[y].amount + SumAmounts((t \ {x}) \ {y})
  BY <1>1, <1>2, <1>4, <1>6
<1>8. SumAmounts(t \ {y}) = Output[x].amount + SumAmounts((t \ {y}) \ {x})
  BY <1>1, <1>2, <1>4, <1>6
<1>9. (t \ {x}) \ {y} = (t \ {y}) \ {x}
  OBVIOUS
<1> DEFINE rest == SumAmounts((t \ {x}) \ {y})
<1>10. rest \in Nat
  BY <1>2, SumNat
<1>11. Output[x].amount \in Nat /\ Output[y].amount \in Nat
  BY <1>2, <1>4 DEF OutputRow
<1>12. SumAmounts(t) = Output[x].amount + (Output[y].amount + rest)
  BY <1>5, <1>7
<1>13. SumAmounts(t \ {y}) = Output[x].amount + rest
  BY <1>8, <1>9
<1> HIDE DEF rest
<1> QED BY <1>3, <1>10, <1>11, <1>12, <1>13

\* AggregatesExact for one invoice.
Above(o) ==
    \A d \in Outputs : deposits[d].invoice = o =>
        CanApplyDeposit(deposits[d].height, invoices[o].after)
Summed(o) ==
    /\ invoices[o].pending = Received(deposits, o, {"detected", "unconfirmed"})
    /\ invoices[o].confirmed = Received(deposits, o, {"confirmed"})
Exact == \A o \in Orders : Above(o) => Summed(o)

\* Exact says the same as AggregatesExact.
LEMMA ExactIsAggregates == Exact <=> AggregatesExact
<1> SUFFICES ASSUME NEW o \in Orders
             PROVE  LET mine == {d \in Outputs : deposits[d].invoice = o}
                    IN  (Above(o) => Summed(o)) <=>
                        ((\A d \in mine : CanApplyDeposit(deposits[d].height, invoices[o].after)) =>
                          /\ invoices[o].pending =
                               SumAmounts({d \in mine :
                                   deposits[d].status \in {"detected", "unconfirmed"}})
                          /\ invoices[o].confirmed =
                               SumAmounts({d \in mine : deposits[d].status = "confirmed"}))
  BY DEF Exact, AggregatesExact
<1> DEFINE mine == {d \in Outputs : deposits[d].invoice = o}
<1>1. Above(o) <=> \A d \in mine : CanApplyDeposit(deposits[d].height, invoices[o].after)
  BY DEF Above
<1>2. {d \in mine : deposits[d].status \in {"detected", "unconfirmed"}} =
        {d \in Outputs : deposits[d].invoice = o
                            /\ deposits[d].status \in {"detected", "unconfirmed"}}
  OBVIOUS
<1>3. {d \in mine : deposits[d].status = "confirmed"} =
        {d \in Outputs : deposits[d].invoice = o /\ deposits[d].status \in {"confirmed"}}
  OBVIOUS
<1> QED BY <1>1, <1>2, <1>3 DEF Summed, Received

\* A recomputed row holds the sums over the deposits it was computed from.
LEMMA RecomputedSums ==
  ASSUME Shape, NEW ACTION deps, NEW o \in Orders
  PROVE  /\ Recomputed(deps, o).pending = Received(deps, o, {"detected", "unconfirmed"})
         /\ Recomputed(deps, o).confirmed = Received(deps, o, {"confirmed"})
  BY DEF Recomputed, Shape, RowShape

\* Sums are the same when the deposits of the invoice are.
LEMMA SameDeposits ==
  ASSUME NEW o \in Orders, NEW statuses,
         \A d \in Outputs : \/ deposits'[d] = deposits[d]
                            \/ deposits[d].invoice # o /\ deposits'[d].invoice # o
  PROVE  Received(deposits', o, statuses) = Received(deposits, o, statuses)
<1>1. {d \in Outputs : deposits'[d].invoice = o /\ deposits'[d].status \in statuses}
        = {d \in Outputs : deposits[d].invoice = o /\ deposits[d].status \in statuses}
  OBVIOUS
<1> QED BY <1>1 DEF Received

\* A step that leaves the row of an invoice and its deposits alone.
LEMMA ExactUntouched ==
  ASSUME Exact, NEW o \in Orders,
         invoices'[o].pending = invoices[o].pending,
         invoices'[o].confirmed = invoices[o].confirmed,
         invoices'[o].after = invoices[o].after,
         \A d \in Outputs : \/ deposits'[d] = deposits[d]
                            \/ deposits[d].invoice # o /\ deposits'[d].invoice # o
  PROVE  Above(o)' => Summed(o)'
<1> SUFFICES ASSUME Above(o)' PROVE Summed(o)'
  OBVIOUS
<1>1. Above(o)
  BY DEF Above
<1>2. Summed(o)
  BY <1>1 DEF Exact
<1>3. Received(deposits', o, {"detected", "unconfirmed"})
        = Received(deposits, o, {"detected", "unconfirmed"})
  BY SameDeposits
<1>4. Received(deposits', o, {"confirmed"}) = Received(deposits, o, {"confirmed"})
  BY SameDeposits
<1> QED BY <1>2, <1>3, <1>4 DEF Summed

\* A new invoice has no deposits, so its zeroes are its sums.
LEMMA CreateInvoiceExact ==
  ASSUME Inv, Exact, NEW x \in Orders, NEW best, CreateInvoice(x, best), NEW o \in Orders
  PROVE  Above(o)' => Summed(o)'
<1>1. CASE o # x
  BY <1>1, ExactUntouched DEF CreateInvoice, Inv, Shape
<1>2. CASE o = x
  <2>1. invoices'[o].pending = 0 /\ invoices'[o].confirmed = 0 /\ deposits' = deposits
    BY <1>2 DEF CreateInvoice, Inv, Shape
  <2>2. \A d \in Outputs : deposits[d].invoice # o
    BY <1>2 DEF CreateInvoice, Inv, CreditedToAddressee
  <2>3. \A statuses : {d \in Outputs : deposits[d].invoice = o /\ deposits[d].status \in statuses}
                        = {}
    BY <2>2
  <2>4. \A statuses : Received(deposits, o, statuses) = 0
    BY <2>3, SumNone DEF Received
  <2> QED BY <2>1, <2>4 DEF Summed
<1> QED BY <1>1, <1>2

\* A scan event either recomputes the invoice of its deposit, or leaves a credited
\* deposit at or below created_after_height.
LEMMA ApplyDepositExact ==
  ASSUME Inv, Exact, NEW d \in Outputs, NEW height \in Nat,
         NEW status \in {"detected", "unconfirmed", "orphaned"},
         applyDepositEvent(d, height, status), NEW o \in Orders
  PROVE  Above(o)' => Summed(o)'
<1> DEFINE x == applyInvoiceID(d, height)
           row == upsertDeposit(d, height, status, x)
           deps == [deposits EXCEPT ![d] = row]
<1>1. deposits' = deps
  BY DEF applyDepositEvent
<1>2. /\ x = Nobody => UNCHANGED invoices
      /\ x # Nobody => invoices' = [invoices EXCEPT ![x] = Recomputed(deps, x)]
  BY DEF applyDepositEvent
<1>3. /\ deposits[d].invoice # Nobody => row.invoice = deposits[d].invoice
      /\ deposits[d].invoice = Nobody => row.invoice = x
      /\ x # Nobody => row.invoice = x
      /\ row.height = height
  <2>1. row.height = height
    BY DEF upsertDeposit
  <2> QED BY <2>1, UpsertDeposit
<1>4. x # Nobody => x \in Orders /\ x = Output[d].to
  BY ApplyInvoiceId
<1>5. \/ deposits[d].invoice = Nobody
      \/ deposits[d].invoice = x
      \/ x = Nobody /\ ~CanApplyDeposit(height, invoices[deposits[d].invoice].after)
  BY DEF applyInvoiceID, Inv, CreditedToAddressee
<1> HIDE DEF x, row
<1>6. deposits'[d] = row /\ \A y \in Outputs : y # d => deposits'[y] = deposits[y]
  BY <1>1 DEF Inv, Shape
<1>7. CASE o = x
  <2>1. invoices'[o] = Recomputed(deposits', o)
    BY <1>1, <1>2, <1>7 DEF Inv, Shape
  <2>2. Summed(o)'
    BY <2>1, RecomputedSums DEF Summed, Inv
  <2> QED BY <2>2
<1>8. CASE o # x /\ row.invoice # o
  <2>1. deposits[d].invoice # o
    BY <1>3, <1>8
  <2>2. invoices'[o] = invoices[o]
    BY <1>2, <1>8 DEF Inv, Shape
  <2> QED BY <1>6, <1>8, <2>1, <2>2, ExactUntouched
<1>9. CASE o # x /\ row.invoice = o
  <2>1. x = Nobody /\ deposits[d].invoice = o
    BY <1>3, <1>9
  <2>2. ~CanApplyDeposit(height, invoices[o].after)
    BY <1>5, <2>1, <1>9
  <2>3. invoices'[o] = invoices[o]
    BY <1>2, <2>1
  <2>4. ~Above(o)'
    BY <1>3, <1>6, <1>9, <2>2, <2>3 DEF Above
  <2> QED BY <2>4
<1> QED BY <1>7, <1>8, <1>9

\* Confirmations recompute every invoice whose deposits they touch.
LEMMA ConfirmationsExact ==
  ASSUME Inv, Exact, NEW best, UpdateInvoiceConfirmations(best), NEW o \in Orders
  PROVE  Above(o)' => Summed(o)'
<1> DEFINE ready    == toConfirm(best)
           deps     == [d \in Outputs |->
                           IF d \in ready THEN confirmedDeposit(d) ELSE deposits[d]]
           affected == {deposits[d].invoice : d \in ready}
<1>1. /\ deposits' = deps
      /\ invoices' = [y \in Orders |->
                          IF y \in affected THEN Recomputed(deps, y) ELSE invoices[y]]
  BY DEF UpdateInvoiceConfirmations
<1>2. \A d \in Outputs : confirmedDeposit(d).invoice = deposits[d].invoice
  BY DEF confirmedDeposit, Inv, Shape, DepositRow
<1> HIDE DEF ready
<1>3. CASE o \in affected
  <2>1. invoices'[o] = Recomputed(deposits', o)
    BY <1>1, <1>3
  <2>2. Summed(o)'
    BY <2>1, RecomputedSums DEF Summed, Inv
  <2> QED BY <2>2
<1>4. CASE o \notin affected
  <2>1. invoices'[o] = invoices[o]
    BY <1>1, <1>4
  <2>2. \A d \in Outputs : d \in ready => deposits[d].invoice # o /\ deposits'[d].invoice # o
    BY <1>1, <1>2, <1>4
  <2>3. \A d \in Outputs : d \notin ready => deposits'[d] = deposits[d]
    BY <1>1
  <2> QED BY <2>1, <2>2, <2>3, ExactUntouched
<1> QED BY <1>3, <1>4

\* The sums on an invoice are those of its deposits, through any order of events,
\* confirmations and restarts, while its deposits lie above created_after_height.
THEOREM AggregatesExactHolds == Spec => []AggregatesExact
<1>1. Init => Exact
  <2> SUFFICES ASSUME Init, NEW o \in Orders PROVE Summed(o)
    BY DEF Exact
  <2>1. \A statuses : {d \in Outputs : deposits[d].invoice = o /\ deposits[d].status \in statuses}
                        = {}
    BY DEF Init, NoDeposit
  <2>2. \A statuses : Received(deposits, o, statuses) = 0
    BY <2>1, SumNone DEF Received
  <2> QED BY <2>2 DEF Init, NoInvoice, Summed
<1>2. ASSUME Inv, Exact, [Next]_vars PROVE Exact'
  <2> SUFFICES ASSUME NEW o \in Orders PROVE Above(o)' => Summed(o)'
    BY DEF Exact
  <2>1. ASSUME NEW x \in Orders, NEW best \in 0..MaxHeight, CreateInvoice(x, best)
        PROVE  Above(o)' => Summed(o)'
    BY <1>2, <2>1, CreateInvoiceExact
  <2>2. ASSUME NEW e \in ScanEvents, ApplyScanEvent(e) PROVE Above(o)' => Summed(o)'
    <3>1. e.output \in Outputs /\ e.height \in Nat
      BY DEF ScanEvents
    <3>2. incomingStatus(e.kind) \in {"detected", "unconfirmed", "orphaned"}
      BY DEF incomingStatus
    <3>3. CASE e.kind \in DepositKinds
      <4>1. applyDepositEvent(e.output, e.height, incomingStatus(e.kind))
        BY <2>2, <3>3 DEF ApplyScanEvent
      <4> QED BY <1>2, <3>1, <3>2, <4>1, ApplyDepositExact
    <3>4. CASE e.kind \notin DepositKinds
      BY <1>2, <2>2, <3>4, ExactUntouched DEF ApplyScanEvent
    <3> QED BY <3>3, <3>4
  <2>3. ASSUME NEW best \in 0..MaxHeight, UpdateInvoiceConfirmations(best)
        PROVE  Above(o)' => Summed(o)'
    BY <1>2, <2>3, ConfirmationsExact
  <2>4. CASE Restart
    <3>1. /\ invoices'[o].pending = invoices[o].pending
          /\ invoices'[o].confirmed = invoices[o].confirmed
      BY <1>2, <2>4, RestartRow
    <3>2. invoices'[o].after = invoices[o].after
      BY <1>2, <2>4 DEF Restart, Inv, Shape, RowShape
    <3>3. deposits' = deposits
      BY <2>4 DEF Restart
    <3> QED BY <1>2, <3>1, <3>2, <3>3, ExactUntouched
  <2>5. CASE UNCHANGED <<invoices, deposits>>
    BY <1>2, <2>5, ExactUntouched
  <2> QED BY <1>2, <2>1, <2>2, <2>3, <2>4, <2>5
        DEF Next, CreateRefund, ResolveReviewCase, RejectReviewCase, CloseReview, Tick, vars
<1>3. Spec => []Exact
  BY <1>1, <1>2, InvHolds, PTL DEF Spec
<1>4. Exact => AggregatesExact
  BY ExactIsAggregates
<1> QED BY <1>3, <1>4, PTL
\* The sums of an invoice are natural numbers.
SumsNat == \A o \in Orders : invoices[o].pending \in Nat /\ invoices[o].confirmed \in Nat

LEMMA RecomputedNat ==
  ASSUME Shape, NEW ACTION deps, NEW o \in Orders
  PROVE  Recomputed(deps, o).pending \in Nat /\ Recomputed(deps, o).confirmed \in Nat
<1>1. \A statuses : Received(deps, o, statuses) \in Nat
  BY SumNat DEF Received
<1> QED BY <1>1, RecomputedSums

\* Every table holds rows of its shape: what UpdateInvoiceConfirmations and
\* ApplyScanEvent write over the sums of an invoice are again sums.
THEOREM TypeCorrect == Spec => []TypeOK
<1>1. Init => SumsNat
  BY DEF Init, NoInvoice, SumsNat
<1>2. ASSUME Inv, SumsNat, [Next]_vars PROVE SumsNat'
  <2> SUFFICES ASSUME NEW o \in Orders
               PROVE  invoices'[o].pending \in Nat /\ invoices'[o].confirmed \in Nat
    BY DEF SumsNat
  <2>0. Shape /\ DOMAIN invoices = Orders
    BY <1>2 DEF Inv, Shape
  <2>9. invoices[o].pending \in Nat /\ invoices[o].confirmed \in Nat
    BY <1>2 DEF SumsNat
  <2>1. ASSUME NEW x \in Orders, NEW best \in 0..MaxHeight, CreateInvoice(x, best)
        PROVE  invoices'[o].pending \in Nat /\ invoices'[o].confirmed \in Nat
    BY <2>0, <2>1, <2>9 DEF CreateInvoice
  <2>2. ASSUME NEW e \in ScanEvents, ApplyScanEvent(e)
        PROVE  invoices'[o].pending \in Nat /\ invoices'[o].confirmed \in Nat
    <3> DEFINE x == applyInvoiceID(e.output, e.height)
               deps == [deposits EXCEPT ![e.output] =
                          upsertDeposit(e.output, e.height, incomingStatus(e.kind), x)]
    <3>1. \/ invoices' = invoices
          \/ invoices' = [invoices EXCEPT ![x] = Recomputed(deps, x)]
      BY <2>2 DEF ApplyScanEvent, applyDepositEvent
    <3> HIDE DEF x, deps
    <3>2. \/ invoices'[o] = invoices[o]
          \/ invoices'[o] = Recomputed(deps, o)
      BY <2>0, <3>1
    <3> QED BY <2>0, <2>9, <3>2, RecomputedNat
  <2>3. ASSUME NEW best \in 0..MaxHeight, UpdateInvoiceConfirmations(best)
        PROVE  invoices'[o].pending \in Nat /\ invoices'[o].confirmed \in Nat
    <3> DEFINE ready == toConfirm(best)
               deps == [d \in Outputs |-> IF d \in ready THEN confirmedDeposit(d) ELSE deposits[d]]
    <3>1. invoices'[o] \in {Recomputed(deps, o), invoices[o]}
      BY <2>3 DEF UpdateInvoiceConfirmations
    <3> HIDE DEF deps
    <3> QED BY <2>0, <2>9, <3>1, RecomputedNat
  <2>4. CASE Restart
    BY <1>2, <2>4, <2>9, RestartRow
  <2>5. CASE UNCHANGED invoices
    BY <2>5, <2>9
  <2> QED BY <1>2, <2>1, <2>2, <2>3, <2>4, <2>5
        DEF Next, CreateRefund, ResolveReviewCase, RejectReviewCase, CloseReview, Tick, vars
<1>3. Inv /\ SumsNat => TypeOK
  <2> SUFFICES ASSUME Inv, SumsNat PROVE TypeOK
    OBVIOUS
  <2>1. ASSUME NEW o \in Orders PROVE invoices[o] \in InvoiceRow
    <3>1. RowShape(invoices[o]) /\ invoices[o].pending \in Nat /\ invoices[o].confirmed \in Nat
      BY DEF Inv, Shape, SumsNat
    <3> QED BY <3>1 DEF RowShape, InvoiceRow
  <2> QED BY <2>1 DEF Inv, Shape, TypeOK
<1> QED BY <1>1, <1>2, <1>3, InvHolds, PTL DEF Spec
=============================================================================
