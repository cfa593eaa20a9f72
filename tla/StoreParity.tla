---------------------------- MODULE StoreParity ----------------------------
(***************************************************************************)
(* The in-memory store next to the SQL store, given the same calls: what a *)
(* test that runs on the in-memory store says about a server on SQL.       *)
(* Review cases are closed in each store on its own (their ids differ).    *)
(* The start-up backfill is left out: nothing of the in-memory store is    *)
(* there at a second start.                                                *)
(***************************************************************************)
EXTENDS SqlStore

CONSTANT Subseconds

ASSUME SubsecondsAssumption == Subseconds \in Nat \ {0}

VARIABLES
    nanos,      \* the clock below the second; SQL never looks at it
    memExpiryNanos, memInvoices, memDeposits, memCursor, memEvents, memReviews, memRefunds,
    apart       \* history: the invoices that the stores have treated differently

memVars == <<memExpiryNanos, memInvoices, memDeposits, memCursor, memEvents, memReviews,
             memRefunds>>
allVars == <<vars, nanos, memVars, apart>>

Mem == INSTANCE MemStore WITH
    expiryNanos <- memExpiryNanos, invoices <- memInvoices, deposits <- memDeposits,
    scanCursor <- memCursor, invoiceEvents <- memEvents, reviewCases <- memReviews,
    refunds <- memRefunds

PInit == Init /\ nanos = 0 /\ Mem!Init /\ apart = {}

\* The two reasons to treat an invoice differently.  Past the moment of its expiry
\* and still within that second it is expired in memory and not yet in SQL.  And a
\* deposit that has its invoice may be reported at a height at which the lookup by
\* address, repeated by SQL, does not find it.
LastSecond(o) == now = invoices[o].expires /\ nanos > memExpiryNanos[o]
MovesBelow(e, o) == e.height <= invoices[o].after

BothCreateInvoice(o, best) ==
    CreateInvoice(o, best) /\ UNCHANGED <<nanos, apart>> /\ Mem!CreateInvoice(o, best)

BothApplyScanEvent(e) ==
    /\ ApplyScanEvent(e)
    /\ UNCHANGED nanos
    /\ Mem!ApplyScanEvent(e)
    /\ apart' = apart \cup {o \in Orders :
            /\ e.kind \in DepositKinds
            /\ deposits'[e.output].invoice = o
            /\ LastSecond(o) \/ MovesBelow(e, o)}

BothUpdateInvoiceConfirmations(best) ==
    /\ UpdateInvoiceConfirmations(best)
    /\ UNCHANGED nanos
    /\ Mem!UpdateInvoiceConfirmations(best)
    /\ apart' = apart \cup {o \in Orders :
            LastSecond(o) /\ \E d \in toConfirm(best) : deposits[d].invoice = o}

BothCreateRefund(r, m, o, status) ==
    CreateRefund(r, m, o, status) /\ UNCHANGED <<nanos, apart>> /\ Mem!CreateRefund(r, m, o, status)

CloseSql(c) == (ResolveReviewCase(c) \/ RejectReviewCase(c)) /\ UNCHANGED <<nanos, memVars, apart>>

CloseMem(c) ==
    /\ UNCHANGED <<vars, nanos, apart>>
    /\ Mem!ResolveReviewCase(c) \/ Mem!RejectReviewCase(c)

\* The clock moves on within the second, or to the next one.
BothTick ==
    /\ nanos' = (nanos + 1) % Subseconds
    /\ IF nanos' = 0 THEN Tick ELSE UNCHANGED vars
    /\ Mem!Tick
    /\ UNCHANGED apart

PNext ==
    \/ \E o \in Orders, best \in 0..MaxHeight : BothCreateInvoice(o, best)
    \/ \E e \in ScanEvents : BothApplyScanEvent(e)
    \/ \E best \in 0..MaxHeight : BothUpdateInvoiceConfirmations(best)
    \/ \E r \in Refunds, m \in Merchants, o \in Orders \cup {Nobody},
          status \in {"requested", "sent"} : BothCreateRefund(r, m, o, status)
    \/ \E c \in reviews : CloseSql(c)
    \/ \E c \in Mem!MemReview : CloseMem(c)
    \/ BothTick

PSpec == PInit /\ [][PNext]_allVars

---------------------------------------------------------------------------
(***************************************************************************)
(* Properties                                                              *)
(***************************************************************************)

\* The reasons for which a person was ever asked about an invoice or a deposit.
QuestionsAbout(s, cases) == {c.reason : c \in {k \in cases : k.subject = s}}
SqlAsked(s) == QuestionsAbout(s, reviews)
MemAsked(s) == QuestionsAbout(s, {k \in Mem!MemReview : memReviews[k] > 0})

EventsAbout(o, evs) == {ev \in evs : ev.invoice = o}

\* The stores agree, whatever the order of events, confirmations, refunds, clock
\* ticks and decisions on cases.  Cursors, refunds and the deposits that have an
\* address always do.  An invoice, its events and the questions asked about it and
\* its deposits do unless one of its deposits was reported at or below
\* created_after_height, or it was recomputed in the rest of the second in which
\* it expired; other invoices are not affected.  Of a note without address only SQL keeps a trace.
Parity ==
    /\ memCursor = cursor
    /\ memRefunds = refunds
    /\ \A d \in Outputs \ Unaddressed :
          /\ memDeposits[d] = deposits[d]
          /\ deposits[d].invoice \notin apart => MemAsked(d) = SqlAsked(d)
    /\ \A d \in Unaddressed : memDeposits[d] = NoDeposit /\ MemAsked(d) = {}
    /\ \A o \in Orders \ apart :
          /\ memInvoices[o] = invoices[o]
          /\ EventsAbout(o, memEvents) = EventsAbout(o, events)
          /\ MemAsked(o) = SqlAsked(o)

\* Sums of the in-memory store: exact for every sequence of reports.
MemAggregates == Mem!AggregatesExact

\* Review cases of the in-memory store: a question is open at most once.
MemOneOpenCase == Mem!OneOpenCase
============================================================================
