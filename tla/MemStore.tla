----------------------------- MODULE MemStore -----------------------------
(***************************************************************************)
(* The in-memory store of juno-pay-server (internal/store/mem.go), on which*)
(* the tests of the API, the ingestor and the outbox run in place of a     *)
(* database.  One mutex guards the maps, so a method is one action.        *)
(* Nothing survives the process.                                           *)
(*                                                                         *)
(* It is written apart from the SQL store and differs from it: the branch  *)
(* for stray deposits looks at the stored invoice_id, not at the lookup by *)
(* address; a review case is only compared with the open ones; a wallet of *)
(* several merchants is no error; a note without an address is not kept;   *)
(* an invoice expires to the nanosecond, where SQL keeps whole seconds.    *)
(* StoreParity runs the two side by side.                                  *)
(***************************************************************************)
EXTENDS StoreTypes

CONSTANT Subseconds     \* the moments the clock tells apart within a second

VARIABLES
    now,            \* the clock in whole seconds
    nanos,          \* what it shows below the second, in 0..Subseconds - 1
    expiryNanos,    \* Orders -> the part of ExpiresAt below the second
    invoices, deposits, scanCursor, invoiceEvents, reviewCases, refunds

vars == <<now, nanos, expiryNanos, invoices, deposits, scanCursor, invoiceEvents, reviewCases, refunds>>

\* A case belongs to a merchant.  The ids are only names, so reviewCases counts
\* the cases of each kind: several closed ones of the same kind are possible.
MemReview ==
    LET Cases(subjects, reasons) ==
            [merchant : Merchants, subject : subjects, reason : reasons,
             status : {"open", "resolved", "rejected"}]
    IN  Cases(Orders, Reasons \ {"unknown_address"}) \cup Cases(Outputs, {"unknown_address"})

Init ==
    /\ now = 0 /\ nanos = 0
    /\ expiryNanos = [o \in Orders |-> 0]
    /\ invoices = [o \in Orders |-> NoInvoice]
    /\ deposits = [d \in Outputs |-> NoDeposit]
    /\ scanCursor = [w \in Wallets |-> 0]
    /\ invoiceEvents = {}
    /\ reviewCases = [c \in MemReview |-> 0]
    /\ refunds = [r \in Refunds |-> NoRefund]

---------------------------------------------------------------------------
eventOf(o, typ, ref) == [invoice |-> o, typ |-> typ, ref |-> ref]

openCase(m, subject, reason) ==
    [merchant |-> m, subject |-> subject, reason |-> reason, status |-> "open"]

\* Mutant of createReviewCases: no look at the open cases.
createReviewCasesAlways(asked) ==
    [c \in MemReview |-> IF c \in asked THEN reviewCases[c] + 1 ELSE reviewCases[c]]

\* createReviewCaseLocked: a case is opened unless the same one is open.
createReviewCases(asked) ==
    [c \in MemReview |->
        IF c \in asked /\ reviewCases[c] = 0 THEN 1 ELSE reviewCases[c]]

\* Mutant of isExpired: !now.Before(ExpiresAt).
isExpiredFrom(o) ==
    /\ invoices[o].expires # Null
    /\ \/ now > invoices[o].expires
       \/ now = invoices[o].expires /\ nanos >= expiryNanos[o]

\* now.After(ExpiresAt)
isExpired(o) ==
    /\ invoices[o].expires # Null
    /\ \/ now > invoices[o].expires
       \/ now = invoices[o].expires /\ nanos > expiryNanos[o]

\* mem.go has its own copy of the status function.
memInvoiceStatus(o, pending, confirmed) ==
    LET total == pending + confirmed
        amount == Order[o].amount
    IN  IF total = 0 THEN IF isExpired(o) THEN "expired" ELSE "open"
        ELSE IF confirmed > amount THEN "overpaid"
        ELSE IF confirmed = amount
             THEN IF isExpired(o) /\ Order[o].policy.late = "mark_paid_late"
                  THEN "paid_late" ELSE "confirmed"
        ELSE IF total >= amount THEN "pending"
        ELSE IF confirmed > 0 THEN "partial_confirmed" ELSE "partial_pending"

\* recomputeInvoiceLocked: the sums over the deposits of the invoice ...
recomputed(deps, o) ==
    LET Total(statuses) ==
            SumAmounts({d \in Outputs : deps[d].invoice = o /\ deps[d].status \in statuses})
        pending == Total({"detected", "unconfirmed"})
        confirmed == Total({"confirmed"})
    IN  [invoices[o] EXCEPT
            !.pending = pending,
            !.confirmed = confirmed,
            !.status = memInvoiceStatus(o, pending, confirmed)]

\* ... and what a change of status announces and asks for.
statusEvents(o, row) ==
    IF row.status # invoices[o].status /\ statusEvent(row.status) # "none"
    THEN {eventOf(o, statusEvent(row.status), Nobody)} ELSE {}

statusCases(o, row) ==
    LET reason == policyReview(row.status, isExpired(o), row.confirmed = Order[o].amount,
                               Order[o].policy)
    IN  IF row.status # invoices[o].status /\ reason # "none"
        THEN {openCase(Order[o].merchant, o, reason)} ELSE {}

---------------------------------------------------------------------------
CreateInvoice(o, best) ==
    /\ invoices[o].status = "absent"
    /\ invoices' = [invoices EXCEPT ![o] =
            [status |-> "open", pending |-> 0, confirmed |-> 0, after |-> best,
             expires |-> IF Order[o].ttl = 0 THEN Null ELSE now + Order[o].ttl]]
    /\ expiryNanos' = [expiryNanos EXCEPT ![o] = nanos]
    /\ invoiceEvents' = invoiceEvents \cup {eventOf(o, "invoice.created", Nobody)}
    /\ UNCHANGED <<now, nanos, deposits, scanCursor, reviewCases, refunds>>

\* The invoice at the note's address, if it may be credited at this height.
invoiceAt(d, height) ==
    LET o == Output[d].to
    IN  IF /\ o # Nobody
           /\ invoices[o].status # "absent"
           /\ WalletOf[Order[o].merchant] = Output[d].wallet
           /\ CanApplyDeposit(height, invoices[o].after)
        THEN o ELSE Nobody

\* The record after an event; a confirmed deposit is not undone by a repeated
\* detection, and confirmed_height lives as long as the confirmation.
depositRecord(d, height, status) ==
    LET old == deposits[d]
        next == IF old.status = "confirmed" /\ status = "detected" THEN "confirmed" ELSE status
    IN  [status |-> next, height |-> height,
         confHeight |-> IF next = "confirmed" THEN old.confHeight ELSE Null,
         invoice |-> IF old.invoice # Nobody THEN old.invoice ELSE invoiceAt(d, height)]

\* The case for a deposit nobody is credited with goes to whichever merchant of
\* the wallet the iteration over the map meets first, if there is one.
strayCases(d) ==
    LET owners == {m \in Merchants : WalletOf[m] = Output[d].wallet}
    IN  IF owners = {} THEN {{}} ELSE {{openCase(m, d, "unknown_address")} : m \in owners}

\* Mutant of keepDeposit: as in SQL, the lookup by address decides.
keepDepositByLookup(d, height, status) ==
    LET deps == [deposits EXCEPT ![d] = depositRecord(d, height, status)]
        o    == invoiceAt(d, height)
    IN  /\ deposits' = deps
        /\ IF o = Nobody
           THEN /\ \E cases \in strayCases(d) : reviewCases' = createReviewCases(cases)
                /\ UNCHANGED <<invoices, invoiceEvents>>
           ELSE /\ invoices' = [invoices EXCEPT ![o] = recomputed(deps, o)]
                /\ invoiceEvents' = invoiceEvents
                        \cup (IF status = "detected"
                              THEN {eventOf(o, "deposit.detected", d)} ELSE {})
                        \cup statusEvents(o, recomputed(deps, o))
                /\ reviewCases' = createReviewCases(statusCases(o, recomputed(deps, o)))

\* applyDepositLocked for a note it keeps.  The stored invoice_id decides.
keepDeposit(d, height, status) ==
    LET deps == [deposits EXCEPT ![d] = depositRecord(d, height, status)]
        o    == deps[d].invoice
    IN  /\ deposits' = deps
        /\ IF o = Nobody
           THEN /\ \E cases \in strayCases(d) : reviewCases' = createReviewCases(cases)
                /\ UNCHANGED <<invoices, invoiceEvents>>
           ELSE /\ invoices' = [invoices EXCEPT ![o] = recomputed(deps, o)]
                /\ invoiceEvents' = invoiceEvents
                        \cup (IF status = "detected"
                              THEN {eventOf(o, "deposit.detected", d)} ELSE {})
                        \cup statusEvents(o, recomputed(deps, o))
                /\ reviewCases' = createReviewCases(statusCases(o, recomputed(deps, o)))

\* applyDepositLocked.  A note without recipient_address, or with an amount beyond
\* int64, leaves nothing behind.  (Output[d].wallet is the wallet_id of the payload,
\* or that of the event when the payload names none.)
applyDeposit(d, height, status) ==
    IF d \in Unaddressed \/ Output[d].amount > MaxInt64
    THEN UNCHANGED <<invoices, deposits, invoiceEvents, reviewCases>>
    ELSE keepDeposit(d, height, status)

\* The status an event kind asks for; DepositConfirmed only detects.
scanStatus(kind) ==
    CASE kind = "DepositUnconfirmed" -> "unconfirmed"
      [] kind = "DepositOrphaned" -> "orphaned"
      [] OTHER -> "detected"

ApplyScanEvent(e) ==
    LET w == Output[e.output].wallet
    IN  /\ e.cursor > scanCursor[w]
        /\ IF e.kind \in DepositKinds
           THEN applyDeposit(e.output, e.height, scanStatus(e.kind))
           ELSE UNCHANGED <<invoices, deposits, invoiceEvents, reviewCases>>
        /\ scanCursor' = [scanCursor EXCEPT ![w] = e.cursor]
        /\ UNCHANGED <<now, nanos, expiryNanos, refunds>>

\* The credited deposits with enough confirmations.
confirmable(best) ==
    {d \in Outputs :
        /\ deposits[d].status = "detected"
        /\ deposits[d].invoice # Nobody
        /\ best - deposits[d].height + 1 >= Required(Order[deposits[d].invoice].required)}

UpdateInvoiceConfirmations(best) ==
    LET ready == confirmable(best)
        deps  == [d \in Outputs |->
            IF d \in ready
            THEN [deposits[d] EXCEPT !.status = "confirmed",
                    !.confHeight = deposits[d].height
                        + Required(Order[deposits[d].invoice].required) - 1]
            ELSE deposits[d]]
        affected == {deposits[d].invoice : d \in ready}
    IN  /\ deposits' = deps
        /\ invoices' = [o \in Orders |->
                IF o \in affected THEN recomputed(deps, o) ELSE invoices[o]]
        /\ invoiceEvents' = invoiceEvents
                \cup {eventOf(deposits[d].invoice, "deposit.confirmed", d) : d \in ready}
                \cup UNION {statusEvents(o, recomputed(deps, o)) : o \in affected}
        /\ reviewCases' = createReviewCases(
                UNION {statusCases(o, recomputed(deps, o)) : o \in affected})
        /\ UNCHANGED <<now, nanos, expiryNanos, scanCursor, refunds>>

CreateRefund(r, m, o, status) ==
    /\ refunds[r].status = "absent"
    /\ o # Nobody => invoices[o].status # "absent" /\ Order[o].merchant = m
    /\ refunds' = [refunds EXCEPT ![r] = [merchant |-> m, invoice |-> o, status |-> status]]
    /\ invoiceEvents' = invoiceEvents \cup
            (IF o = Nobody THEN {}
             ELSE {eventOf(o, IF status = "sent" THEN "refund.sent" ELSE "refund.requested", r)})
    /\ UNCHANGED <<now, nanos, expiryNanos, invoices, deposits, scanCursor, reviewCases>>

\* ResolveReviewCase and RejectReviewCase: any case can be closed, and closed again.
closeReview(c, status) ==
    /\ reviewCases[c] > 0
    /\ reviewCases' = [reviewCases EXCEPT ![c] = @ - 1, ![[c EXCEPT !.status = status]] = @ + 1]
    /\ UNCHANGED <<now, nanos, expiryNanos, invoices, deposits, scanCursor, invoiceEvents, refunds>>

ResolveReviewCase(c) == closeReview(c, "resolved")
RejectReviewCase(c) == closeReview(c, "rejected")

Tick == /\ now < MaxTime
        /\ nanos' = (nanos + 1) % Subseconds
        /\ now' = IF nanos' = 0 THEN now + 1 ELSE now
        /\ UNCHANGED <<expiryNanos, invoices, deposits, scanCursor, invoiceEvents, reviewCases, refunds>>

Next ==
    \/ \E o \in Orders, best \in 0..MaxHeight : CreateInvoice(o, best)
    \/ \E e \in ScanEvents : ApplyScanEvent(e)
    \/ \E best \in 0..MaxHeight : UpdateInvoiceConfirmations(best)
    \/ \E r \in Refunds, m \in Merchants, o \in Orders \cup {Nobody},
          status \in {"requested", "sent"} : CreateRefund(r, m, o, status)
    \/ \E c \in MemReview : ResolveReviewCase(c) \/ RejectReviewCase(c)
    \/ Tick

Spec == Init /\ [][Next]_vars

---------------------------------------------------------------------------
(***************************************************************************)
(* Properties                                                              *)
(***************************************************************************)

\* The sums on an invoice are those of the deposits credited to it, whatever
\* reorganisations did to their heights: every path that changes a credited
\* deposit also recomputes its invoice.
AggregatesExact ==
    \A o \in Orders :
        LET mine == {d \in Outputs : deposits[d].invoice = o}
        IN  /\ invoices[o].pending =
                  SumAmounts({d \in mine : deposits[d].status \in {"detected", "unconfirmed"}})
            /\ invoices[o].confirmed =
                  SumAmounts({d \in mine : deposits[d].status = "confirmed"})

\* A person is never asked twice at once: a question closed and asked again, by a
\* status that comes back or a deposit seen again, is open at most once.
OneOpenCase == \A c \in MemReview : c.status = "open" => reviewCases[c] <= 1
===========================================================================
