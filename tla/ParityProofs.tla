---------------------------- MODULE ParityProofs ----------------------------
(***************************************************************************)
(* What a test on the in-memory store says about a server on SQL, for any  *)
(* invoices, notes, wallets, merchants and policies and any fineness of    *)
(* the clock: the two stores hold the same deposits, except for notes      *)
(* without an address, and an invoice, its events and the questions about  *)
(* it are the same until it is recomputed for a deposit reported at or     *)
(* below created_after_height or in the second in which it expired.  The   *)
(* invariant of SqlStoreProofs is used as it stands.                       *)
(***************************************************************************)
EXTENDS StoreParity, SqlStoreProofs

USE ConstantsAssumption

\* The deposits that the in-memory store keeps.
Kept(deps) == [d \in Outputs |-> IF d \in Unaddressed THEN NoDeposit ELSE deps[d]]

\* What the stores always have in common.
SameRows ==
    /\ memCursor = cursor
    /\ memDeposits = Kept(deposits)
    /\ memRefunds = refunds

\* The in-memory invoices: rows of the same shape, there for the same orders and
\* with the same created_after_height and expiry.
MemRows ==
    /\ memInvoices = [o \in Orders |-> memInvoices[o]]
    /\ \A o \in Orders :
          /\ RowShape(memInvoices[o])
          /\ memInvoices[o].status = "absent" <=> invoices[o].status = "absent"
          /\ memInvoices[o].after = invoices[o].after
          /\ memInvoices[o].expires = invoices[o].expires

\* What they have in common about one invoice, and about its deposits.
Agree(o) ==
    /\ memInvoices[o] = invoices[o]
    /\ EventsAbout(o, memEvents) = EventsAbout(o, events)
    /\ MemAsked(o) = SqlAsked(o)
InvoicesAgree == \A o \in Orders \ apart : Agree(o)
StraysAgree ==
    \A d \in Outputs \ Unaddressed :
        deposits[d].invoice \notin apart => MemAsked(d) = SqlAsked(d)
NothingAsked == \A d \in Unaddressed : MemAsked(d) = {}

MemCounts == memReviews \in [Mem!MemReview -> Nat]

\* MemAggregates for one invoice, in the words of the SQL store.
MemSummed(o) ==
    /\ memInvoices[o].pending = Received(deposits, o, {"detected", "unconfirmed"})
    /\ memInvoices[o].confirmed = Received(deposits, o, {"confirmed"})

\* The part of the invariant that is about the pair.
Pair ==
    /\ SameRows
    /\ apart \subseteq Orders
    /\ MemRows
    /\ InvoicesAgree
    /\ StraysAgree
    /\ NothingAsked
    /\ MemCounts
    /\ MemOneOpenCase
    /\ \A o \in Orders : MemSummed(o)

\* The inductive invariant.
PInv == Inv /\ Pair

---------------------------------------------------------------------------
(* The two status functions *)

\* The status of an in-memory invoice is one of InvoiceStatuses.
LEMMA MemStatusType ==
  ASSUME NEW o, NEW pending, NEW confirmed
  PROVE  Mem!memInvoiceStatus(o, pending, confirmed) \in InvoiceStatuses
  BY DEF Mem!memInvoiceStatus, InvoiceStatuses

\* Outside the rest of the second in which it expired, an invoice has expired in
\* both stores or in neither.
LEMMA SameExpiry ==
  ASSUME MemRows, NEW o \in Orders, ~LastSecond(o)
  PROVE  Mem!isExpired(o) <=> Expired(o)
  BY DEF MemRows, LastSecond, Mem!isExpired, Expired, Mem!Null, Null

\* The copy in mem.go and the one in sqlstore.go are the same function.
LEMMA MemStatusAgrees ==
  ASSUME MemRows, NEW o \in Orders, ~LastSecond(o), NEW pending, NEW confirmed
  PROVE  Mem!memInvoiceStatus(o, pending, confirmed) =
           computeInvoiceStatus(Order[o].amount, pending, confirmed, Expired(o),
                                Order[o].policy.late)
  BY SameExpiry DEF Mem!memInvoiceStatus, computeInvoiceStatus

\* Both stores add up amounts in the same way.
LEMMA SameSum ==
  ASSUME NEW S
  PROVE  Mem!SumAmounts(S) = SumAmounts(S)
  BY DEF Mem!SumAmounts, SumAmounts, Mem!MapThenSumSet, MapThenSumSet, Mem!MapThenFoldSet,
         MapThenFoldSet

\* recomputeInvoiceLocked in the words of the SQL store.
LEMMA MemRecomputed ==
  ASSUME NEW ACTION deps, NEW o \in Orders
  PROVE  LET pending == Received(deps, o, {"detected", "unconfirmed"})
             confirmed == Received(deps, o, {"confirmed"})
         IN  Mem!recomputed(deps, o) =
               [memInvoices[o] EXCEPT !.pending = pending, !.confirmed = confirmed,
                   !.status = Mem!memInvoiceStatus(o, pending, confirmed)]
<1> DEFINE Live(statuses) == {d \in Outputs : deps[d].invoice = o /\ deps[d].status \in statuses}
           pending == Mem!SumAmounts(Live({"detected", "unconfirmed"}))
           confirmed == Mem!SumAmounts(Live({"confirmed"}))
<1>1. Mem!recomputed(deps, o) =
        [memInvoices[o] EXCEPT !.pending = pending, !.confirmed = confirmed,
            !.status = Mem!memInvoiceStatus(o, pending, confirmed)]
  BY DEF Mem!recomputed
<1>2. pending = Received(deps, o, {"detected", "unconfirmed"})
  BY SameSum DEF Received
<1>3. confirmed = Received(deps, o, {"confirmed"})
  BY SameSum DEF Received
<1> HIDE DEF pending, confirmed
<1> QED BY <1>1, <1>2, <1>3

\* The row written by the in-memory store, spelled out.
LEMMA MemRecomputedRow ==
  ASSUME MemRows, NEW ACTION deps, NEW o \in Orders
  PROVE  LET row == Mem!recomputed(deps, o)
         IN  /\ RowShape(row)
             /\ row.status # "absent"
             /\ row.after = memInvoices[o].after
             /\ row.expires = memInvoices[o].expires
             /\ row.pending = Received(deps, o, {"detected", "unconfirmed"})
             /\ row.confirmed = Received(deps, o, {"confirmed"})
<1> DEFINE pending == Received(deps, o, {"detected", "unconfirmed"})
           confirmed == Received(deps, o, {"confirmed"})
           status == Mem!memInvoiceStatus(o, pending, confirmed)
           row == Mem!recomputed(deps, o)
<1>1. status \in InvoiceStatuses
  BY MemStatusType
<1>2. RowShape(memInvoices[o])
  BY DEF MemRows
<1>3. row = [memInvoices[o] EXCEPT !.pending = pending, !.confirmed = confirmed, !.status = status]
  BY MemRecomputed
<1> HIDE DEF pending, confirmed, status, row
<1>4. row = [status |-> status, pending |-> pending, confirmed |-> confirmed,
             after |-> memInvoices[o].after, expires |-> memInvoices[o].expires]
  BY <1>2, <1>3 DEF RowShape
<1>5. /\ row.status = status /\ row.pending = pending /\ row.confirmed = confirmed
      /\ row.after = memInvoices[o].after /\ row.expires = memInvoices[o].expires
  BY <1>4
<1>6. RowShape(row)
  BY <1>1, <1>2, <1>4, <1>5 DEF RowShape
<1>7. row.status # "absent"
  BY <1>1, <1>5 DEF InvoiceStatuses
<1> QED BY <1>5, <1>6, <1>7 DEF row, pending, confirmed

\* Notes without an address are credited to nobody, so the sums do not miss them.
LEMMA KeptSum ==
  ASSUME NEW ACTION deps, NEW o \in Orders, NEW statuses,
         \A d \in Unaddressed : deps[d].invoice # o
  PROVE  Received(Kept(deps), o, statuses) = Received(deps, o, statuses)
<1>1. {d \in Outputs : Kept(deps)[d].invoice = o /\ Kept(deps)[d].status \in statuses}
        = {d \in Outputs : deps[d].invoice = o /\ deps[d].status \in statuses}
  BY DEF Kept, NoDeposit
<1> QED BY <1>1 DEF Received

\* An invoice on which the stores agree is recomputed to the same row, outside the
\* second in which it expired, and announces the same.
LEMMA SameRecomputed ==
  ASSUME MemRows, NEW ACTION deps, NEW o \in Orders, memInvoices[o] = invoices[o],
         ~LastSecond(o), \A d \in Unaddressed : deps[d].invoice # o
  PROVE  /\ Mem!recomputed(Kept(deps), o) = Recomputed(deps, o)
         /\ Mem!statusEvents(o, Recomputed(deps, o)) = StatusChangeEvents(o, Recomputed(deps, o))
<1> DEFINE pending == Received(deps, o, {"detected", "unconfirmed"})
           confirmed == Received(deps, o, {"confirmed"})
<1>1. Mem!recomputed(Kept(deps), o) =
        [memInvoices[o] EXCEPT !.pending = pending, !.confirmed = confirmed,
                               !.status = Mem!memInvoiceStatus(o, pending, confirmed)]
  <2>1. /\ Received(Kept(deps), o, {"detected", "unconfirmed"}) = pending
        /\ Received(Kept(deps), o, {"confirmed"}) = confirmed
    BY KeptSum
  <2> HIDE DEF pending, confirmed
  <2> QED BY <2>1, MemRecomputed
<1>2. Mem!memInvoiceStatus(o, pending, confirmed) =
        computeInvoiceStatus(Order[o].amount, pending, confirmed, Expired(o), Order[o].policy.late)
  <2> HIDE DEF pending, confirmed
  <2> QED BY MemStatusAgrees
<1>3. Mem!recomputed(Kept(deps), o) = Recomputed(deps, o)
  BY <1>1, <1>2 DEF Recomputed
<1>4. Mem!statusEvents(o, Recomputed(deps, o)) = StatusChangeEvents(o, Recomputed(deps, o))
  BY DEF Mem!statusEvents, StatusChangeEvents, Mem!eventOf, EventOf, Mem!statusEvent, statusEvent
<1> QED BY <1>3, <1>4

---------------------------------------------------------------------------
(* Events and questions about one subject *)

\* What one call adds is added subject by subject.
LEMMA AboutUnion ==
  ASSUME NEW s, NEW ACTION A, NEW ACTION B
  PROVE  /\ EventsAbout(s, A \cup B) = EventsAbout(s, A) \cup EventsAbout(s, B)
         /\ QuestionsAbout(s, A \cup B) = QuestionsAbout(s, A) \cup QuestionsAbout(s, B)
  BY DEF EventsAbout, QuestionsAbout

\* Nothing about others.
LEMMA AboutOthers ==
  ASSUME NEW s, NEW ACTION A
  PROVE  /\ (\A ev \in A : ev.invoice # s) => EventsAbout(s, A) = {}
         /\ (\A c \in A : c.subject # s) => QuestionsAbout(s, A) = {}
  BY DEF EventsAbout, QuestionsAbout

\* What several invoices contribute to one call.
Gathered(F, S) == UNION {F[z] : z \in S}

\* Of the contributions of several invoices only its own is about an invoice.
LEMMA AboutFamily ==
  ASSUME NEW y, NEW ACTION S, NEW ACTION F
  PROVE  /\ (\A z \in S : \A ev \in F[z] : ev.invoice = z) =>
              EventsAbout(y, Gathered(F, S)) = IF y \in S THEN F[y] ELSE {}
         /\ (\A z \in S : \A c \in F[z] : c.subject = z) =>
              QuestionsAbout(y, Gathered(F, S)) = IF y \in S THEN QuestionsAbout(y, F[y]) ELSE {}
<1>1. ASSUME \A z \in S : \A ev \in F[z] : ev.invoice = z
      PROVE  EventsAbout(y, Gathered(F, S)) = IF y \in S THEN F[y] ELSE {}
  BY <1>1 DEF EventsAbout, Gathered
<1>2. ASSUME \A z \in S : \A c \in F[z] : c.subject = z
      PROVE  QuestionsAbout(y, Gathered(F, S)) = IF y \in S THEN QuestionsAbout(y, F[y]) ELSE {}
  <2>1. {k \in Gathered(F, S) : k.subject = y} = IF y \in S THEN {k \in F[y] : k.subject = y} ELSE {}
    BY <1>2 DEF Gathered
  <2> QED BY <2>1 DEF QuestionsAbout
<1> QED BY <1>1, <1>2

\* Events and cases of a change of status are about the invoice.
LEMMA StatusAbout ==
  ASSUME NEW o \in Orders, NEW ACTION row
  PROVE  /\ \A ev \in Mem!statusEvents(o, row) : ev.invoice = o
         /\ \A ev \in StatusChangeEvents(o, row) : ev.invoice = o
         /\ \A c \in Mem!statusCases(o, row) : c.subject = o
         /\ \A c \in StatusChangeReviews(o, row) : c.subject = o
  BY DEF Mem!statusEvents, StatusChangeEvents, Mem!statusCases, StatusChangeReviews,
         Mem!eventOf, EventOf, Mem!openCase

\* The policy case is about the same thing in both stores.
LEMMA SameStatusCases ==
  ASSUME MemRows, NEW o \in Orders, NEW ACTION row, memInvoices[o] = invoices[o], ~LastSecond(o)
  PROVE  QuestionsAbout(o, Mem!statusCases(o, row)) = QuestionsAbout(o, StatusChangeReviews(o, row))
<1> DEFINE reason == policyReview(row.status, Expired(o), row.confirmed = Order[o].amount,
                                  Order[o].policy)
           memCase == Mem!openCase(Order[o].merchant, o, reason)
           sqlCase == [subject |-> o, reason |-> reason, status |-> "open"]
<1>1. Mem!isExpired(o) <=> Expired(o)
  BY SameExpiry
<1>2. Mem!policyReview(row.status, Mem!isExpired(o), row.confirmed = Order[o].amount,
                       Order[o].policy) = reason
  BY <1>1 DEF Mem!policyReview, policyReview
<1> HIDE DEF reason
<1>3. Mem!statusCases(o, row) =
        IF row.status # invoices[o].status /\ reason # "none" THEN {memCase} ELSE {}
  BY <1>2 DEF Mem!statusCases
<1>4. StatusChangeReviews(o, row) =
        IF row.status # invoices[o].status /\ reason # "none" THEN {sqlCase} ELSE {}
  BY DEF StatusChangeReviews, reason
<1>5. memCase.subject = o /\ memCase.reason = reason /\ sqlCase.subject = o /\ sqlCase.reason = reason
  BY DEF Mem!openCase
<1> HIDE DEF memCase, sqlCase
<1>6. CASE row.status # invoices[o].status /\ reason # "none"
  <2>1. QuestionsAbout(o, {memCase}) = {reason} /\ QuestionsAbout(o, {sqlCase}) = {reason}
    BY <1>5 DEF QuestionsAbout
  <2> QED BY <1>3, <1>4, <1>6, <2>1
<1>7. CASE ~(row.status # invoices[o].status /\ reason # "none")
  BY <1>3, <1>4, <1>7 DEF QuestionsAbout
<1> QED BY <1>6, <1>7

\* Policy cases are cases.
LEMMA StatusCaseShape ==
  ASSUME NEW o \in Orders, NEW ACTION row
  PROVE  Mem!statusCases(o, row) \subseteq Mem!MemReview
<1> DEFINE reason == Mem!policyReview(row.status, Mem!isExpired(o),
                                      row.confirmed = Order[o].amount, Order[o].policy)
<1>1. reason # "none" => reason \in Mem!Reasons \ {"unknown_address"}
  BY DEF Mem!policyReview, Mem!Reasons
<1>2. Order[o].merchant \in Merchants
  BY DEF OrderRow
<1>3. Mem!statusCases(o, row) =
        IF row.status # memInvoices[o].status /\ reason # "none"
        THEN {Mem!openCase(Order[o].merchant, o, reason)} ELSE {}
  BY DEF Mem!statusCases
<1> HIDE DEF reason
<1> QED BY <1>1, <1>2, <1>3 DEF Mem!openCase, Mem!MemReview

\* createReviewCaseLocked: what is asked is asked from now on, and nothing else.
LEMMA MemAsks ==
  ASSUME MemCounts, NEW ACTION cases, cases \subseteq Mem!MemReview,
         memReviews' = Mem!createReviewCases(cases)
  PROVE  /\ MemCounts'
         /\ \A s : MemAsked(s)' = MemAsked(s) \cup QuestionsAbout(s, cases)
         /\ MemOneOpenCase => MemOneOpenCase'
<1>1. \A c \in Mem!MemReview :
        memReviews'[c] = IF c \in cases /\ memReviews[c] = 0 THEN 1 ELSE memReviews[c]
  BY DEF Mem!createReviewCases
<1>2. MemCounts'
  BY DEF MemCounts, Mem!createReviewCases
<1>3. \A c \in Mem!MemReview : memReviews[c] \in Nat
  BY DEF MemCounts
<1>4. {k \in Mem!MemReview : memReviews'[k] > 0}
        = {k \in Mem!MemReview : memReviews[k] > 0} \cup cases
  BY <1>1, <1>3
<1>5. ASSUME NEW s PROVE MemAsked(s)' = MemAsked(s) \cup QuestionsAbout(s, cases)
  BY <1>4 DEF MemAsked, QuestionsAbout
<1>6. MemOneOpenCase => MemOneOpenCase'
  BY <1>1, <1>3 DEF MemOneOpenCase, Mem!OneOpenCase
<1> QED BY <1>2, <1>5, <1>6

\* Closing a case, again or not, asks and forgets nothing.
LEMMA MemCloses ==
  ASSUME MemCounts, NEW c \in Mem!MemReview, NEW status \in {"resolved", "rejected"},
         Mem!closeReview(c, status)
  PROVE  /\ MemCounts'
         /\ \A s : MemAsked(s)' = MemAsked(s)
         /\ MemOneOpenCase => MemOneOpenCase'
<1> DEFINE closed == [c EXCEPT !.status = status]
<1>1. closed \in Mem!MemReview /\ closed.subject = c.subject /\ closed.reason = c.reason
      /\ closed.status # "open" /\ (closed = c <=> c.status = status)
  BY DEF Mem!MemReview
<1>2. memReviews[c] \in Nat /\ memReviews[c] > 0
      /\ memReviews' = [memReviews EXCEPT ![c] = @ - 1, ![closed] = @ + 1]
  BY DEF Mem!closeReview, MemCounts
<1> HIDE DEF closed
<1>3. \A k \in Mem!MemReview : memReviews[k] \in Nat
  BY DEF MemCounts
<1>4. CASE closed = c
  <2>1. memReviews' = memReviews
    BY <1>2, <1>4 DEF MemCounts
  <2> QED BY <2>1, <1>3 DEF MemCounts, MemAsked, QuestionsAbout, MemOneOpenCase, Mem!OneOpenCase
<1>5. CASE closed # c
  <2>1. /\ MemCounts'
        /\ memReviews'[c] = memReviews[c] - 1
        /\ memReviews'[closed] = memReviews[closed] + 1
        /\ \A k \in Mem!MemReview : k # c /\ k # closed => memReviews'[k] = memReviews[k]
    BY <1>1, <1>2, <1>3, <1>5 DEF MemCounts
  <2>2. ASSUME NEW s PROVE MemAsked(s)' = MemAsked(s)
    <3>1. MemAsked(s)' \subseteq MemAsked(s)
      <4> SUFFICES ASSUME NEW k \in Mem!MemReview, memReviews'[k] > 0, k.subject = s
                   PROVE  k.reason \in MemAsked(s)
        BY DEF MemAsked, QuestionsAbout
      <4>1. CASE k = closed
        BY <1>1, <1>2, <4>1 DEF MemAsked, QuestionsAbout
      <4>2. CASE k # closed
        BY <1>3, <2>1, <4>2 DEF MemAsked, QuestionsAbout
      <4> QED BY <4>1, <4>2
    <3>2. MemAsked(s) \subseteq MemAsked(s)'
      <4> SUFFICES ASSUME NEW k \in Mem!MemReview, memReviews[k] > 0, k.subject = s
                   PROVE  k.reason \in MemAsked(s)'
        BY DEF MemAsked, QuestionsAbout
      <4>0. memReviews'[closed] > 0
        BY <1>1, <1>3, <2>1
      <4>1. CASE k = c
        BY <1>1, <4>0, <4>1 DEF MemAsked, QuestionsAbout
      <4>2. CASE k # c
        BY <1>3, <2>1, <4>2, <4>0, <1>1 DEF MemAsked, QuestionsAbout
      <4> QED BY <4>1, <4>2
    <3> QED BY <3>1, <3>2
  <2>4. \A k \in Mem!MemReview : k.status = "open" => memReviews'[k] <= memReviews[k]
    BY <1>1, <1>3, <2>1
  <2>5. MemOneOpenCase => MemOneOpenCase'
    BY <1>3, <2>1, <2>4 DEF MemOneOpenCase, Mem!OneOpenCase, MemCounts
  <2> QED BY <2>1, <2>2, <2>5
<1> QED BY <1>4, <1>5

---------------------------------------------------------------------------
(* Deposits *)

\* A note without an address is credited to nobody.
LEMMA UnaddressedUncredited ==
  ASSUME Inv, NEW d \in Unaddressed
  PROVE  deposits[d].invoice = Nobody
  BY UnaddressedAssumption DEF Inv, CreditedToAddressee

\* An invoice none of whose deposits changed keeps its sums.
LEMMA MemSummedUntouched ==
  ASSUME NEW o \in Orders, MemSummed(o), memInvoices'[o] = memInvoices[o],
         \A d \in Outputs : \/ deposits'[d] = deposits[d]
                            \/ deposits[d].invoice # o /\ deposits'[d].invoice # o
  PROVE  MemSummed(o)'
<1>1. Received(deposits', o, {"detected", "unconfirmed"})
        = Received(deposits, o, {"detected", "unconfirmed"})
  BY SameDeposits
<1>2. Received(deposits', o, {"confirmed"}) = Received(deposits, o, {"confirmed"})
  BY SameDeposits
<1> QED BY <1>1, <1>2 DEF MemSummed

\* The row of a recomputed invoice.
LEMMA MemWritten ==
  ASSUME Pair, Inv', NEW o \in Orders, memInvoices'[o] = Mem!recomputed(Kept(deposits'), o)
  PROVE  /\ RowShape(memInvoices'[o])
         /\ memInvoices'[o].status # "absent"
         /\ memInvoices'[o].after = memInvoices[o].after
         /\ memInvoices'[o].expires = memInvoices[o].expires
         /\ MemSummed(o)'
<1> DEFINE deps == Kept(deposits')
<1>1. \A d \in Unaddressed : deposits'[d].invoice # o
  <2>1. \A d \in Unaddressed : deposits'[d].invoice = Nobody
    BY UnaddressedAssumption DEF Inv, CreditedToAddressee
  <2> QED BY <2>1
<1>2. /\ Received(deps, o, {"detected", "unconfirmed"})
           = Received(deposits', o, {"detected", "unconfirmed"})
      /\ Received(deps, o, {"confirmed"}) = Received(deposits', o, {"confirmed"})
  BY <1>1, KeptSum
<1> HIDE DEF deps
<1>3. /\ RowShape(memInvoices'[o])
      /\ memInvoices'[o].status # "absent"
      /\ memInvoices'[o].after = memInvoices[o].after
      /\ memInvoices'[o].expires = memInvoices[o].expires
      /\ memInvoices'[o].pending = Received(deps, o, {"detected", "unconfirmed"})
      /\ memInvoices'[o].confirmed = Received(deps, o, {"confirmed"})
  BY MemRecomputedRow DEF Pair, deps
<1> QED BY <1>2, <1>3 DEF MemSummed

\* The record of a deposit after an event is the row of the SQL store.
LEMMA SameRecord ==
  ASSUME PInv, NEW d \in Outputs, d \notin Unaddressed, NEW height \in Nat,
         NEW status \in {"detected", "unconfirmed", "orphaned"}
  PROVE  Mem!depositRecord(d, height, status)
           = upsertDeposit(d, height, status, applyInvoiceID(d, height))
<1>1. Output[d].to \in Orders \cup {Nobody}
  BY DEF OutputRow
<1>2. Mem!invoiceAt(d, height) = applyInvoiceID(d, height)
  BY <1>1 DEF Mem!invoiceAt, applyInvoiceID, PInv, Pair, MemRows, Exists, Mem!CanApplyDeposit,
              CanApplyDeposit
<1>3. deposits[d].status = "confirmed" <=> deposits[d].confHeight # Null
  BY DEF PInv, Inv, ConfirmedDepositSound
<1>4. memDeposits[d] = deposits[d]
  BY DEF PInv, Pair, SameRows, Kept
<1> HIDE DEF Null
<1> DEFINE old == deposits[d]
           next == IF old.status = "confirmed" /\ status = "detected" THEN "confirmed" ELSE status
<1>5. (IF next = "confirmed" THEN old.confHeight ELSE Null)
        = (IF status \in {"unconfirmed", "orphaned"} THEN Null ELSE old.confHeight)
  BY <1>3
<1> QED BY <1>2, <1>4, <1>5 DEF Mem!depositRecord, upsertDeposit, Mem!Null, Null

\* The case SQL opens for a deposit nobody is credited with.
LEMMA StrayAsked ==
  ASSUME Inv, NEW d \in Outputs, reviews' = reviews \cup unattributedReviews(d)
  PROVE  /\ \A s : s # d => SqlAsked(s)' = SqlAsked(s)
         /\ SqlAsked(d)' = SqlAsked(d) \cup
              (IF MerchantsOf(Output[d].wallet) = {} THEN {} ELSE {"unknown_address"})
<1> DEFINE new == [subject |-> d, reason |-> "unknown_address", status |-> "open"]
<1>1. new.subject = d /\ new.reason = "unknown_address"
  OBVIOUS
<1>2. unattributedReviews(d) = IF /\ MerchantsOf(Output[d].wallet) # {}
                                  /\ ~\E c \in reviews : c.subject = d
                               THEN {new} ELSE {}
  BY DEF unattributedReviews
<1> HIDE DEF new
<1>3. ASSUME NEW s, s # d PROVE SqlAsked(s)' = SqlAsked(s)
  BY <1>1, <1>2, <1>3 DEF SqlAsked, QuestionsAbout
<1>4. CASE MerchantsOf(Output[d].wallet) = {}
  BY <1>2, <1>3, <1>4 DEF SqlAsked, QuestionsAbout
<1>5. CASE MerchantsOf(Output[d].wallet) # {} /\ ~\E c \in reviews : c.subject = d
  BY <1>1, <1>2, <1>3, <1>5 DEF SqlAsked, QuestionsAbout
<1>6. CASE MerchantsOf(Output[d].wallet) # {} /\ \E c \in reviews : c.subject = d
  <2>1. PICK c \in reviews : c.subject = d
    BY <1>6
  <2>2. c.reason = "unknown_address"
    BY <2>1 DEF Inv, DepositCases
  <2> QED BY <1>2, <1>3, <1>6, <2>1, <2>2 DEF SqlAsked, QuestionsAbout
<1> QED BY <1>3, <1>4, <1>5, <1>6

\* The case the in-memory store opens for one.
LEMMA MemStrayAsked ==
  ASSUME MemCounts, NEW d \in Outputs,
         \E cases \in Mem!strayCases(d) : memReviews' = Mem!createReviewCases(cases)
  PROVE  /\ MemCounts' /\ (MemOneOpenCase => MemOneOpenCase')
         /\ \A s : s # d => MemAsked(s)' = MemAsked(s)
         /\ MemAsked(d)' = MemAsked(d) \cup
              (IF MerchantsOf(Output[d].wallet) = {} THEN {} ELSE {"unknown_address"})
<1> DEFINE owners == MerchantsOf(Output[d].wallet)
           asked == IF owners = {} THEN {} ELSE {"unknown_address"}
<1>1. PICK cases \in Mem!strayCases(d) : memReviews' = Mem!createReviewCases(cases)
  OBVIOUS
<1>2. /\ cases \subseteq Mem!MemReview
      /\ QuestionsAbout(d, cases) = asked
      /\ \A c \in cases : c.subject = d
  <2>1. CASE owners = {}
    BY <2>1 DEF Mem!strayCases, QuestionsAbout, MerchantsOf
  <2>2. CASE owners # {}
    <3>1. PICK m \in owners : cases = {Mem!openCase(m, d, "unknown_address")}
      BY <2>2 DEF Mem!strayCases, MerchantsOf
    <3>2. Mem!openCase(m, d, "unknown_address") \in Mem!MemReview
      BY DEF Mem!openCase, Mem!MemReview, MerchantsOf
    <3>3. Mem!openCase(m, d, "unknown_address").subject = d
          /\ Mem!openCase(m, d, "unknown_address").reason = "unknown_address"
      BY DEF Mem!openCase
    <3>4. QuestionsAbout(d, cases) = {"unknown_address"}
      BY <3>1, <3>3 DEF QuestionsAbout
    <3> QED BY <2>2, <3>1, <3>2, <3>3, <3>4
  <2> QED BY <2>1, <2>2
<1> HIDE DEF asked
<1>3. /\ MemCounts' /\ (MemOneOpenCase => MemOneOpenCase')
      /\ \A s : MemAsked(s)' = MemAsked(s) \cup QuestionsAbout(s, cases)
  BY <1>1, <1>2, MemAsks
<1>4. \A s : s # d => QuestionsAbout(s, cases) = {}
  BY <1>2 DEF QuestionsAbout
<1> QED BY <1>2, <1>3, <1>4 DEF asked


\* Cases added by SQL are asked from now on, and nothing else.
LEMMA SqlAsks ==
  ASSUME NEW ACTION cases, reviews' = reviews \cup cases
  PROVE  \A s : SqlAsked(s)' = SqlAsked(s) \cup QuestionsAbout(s, cases)
  BY DEF SqlAsked, QuestionsAbout

\* Agreement on an invoice after a step.
LEMMA AgreeAfter ==
  ASSUME NEW y, memInvoices'[y] = invoices'[y],
         EventsAbout(y, memEvents') = EventsAbout(y, events'), MemAsked(y)' = SqlAsked(y)'
  PROVE  Agree(y)'
  BY DEF Agree, EventsAbout

\* A deposit credited to an invoice that the lookup by address does not find is
\* reported at or below created_after_height.
LEMMA NotFoundBelow ==
  ASSUME Inv, NEW d \in Outputs, NEW height \in Nat, deposits[d].invoice # Nobody,
         applyInvoiceID(d, height) = Nobody
  PROVE  height <= invoices[deposits[d].invoice].after
<1>1. /\ deposits[d].invoice \in Orders
      /\ deposits[d].invoice = Output[d].to
      /\ Exists(deposits[d].invoice)
      /\ Output[d].wallet = WalletOf[Order[deposits[d].invoice].merchant]
  BY DEF Inv, Shape, DepositRow, CreditedToAddressee
<1>2. invoices[deposits[d].invoice].after \in Nat
  BY <1>1 DEF Inv, Shape, RowShape
<1>3. ~CanApplyDeposit(height, invoices[deposits[d].invoice].after)
  BY <1>1 DEF applyInvoiceID
<1> QED BY <1>2, <1>3 DEF CanApplyDeposit

\* A deposit event in both stores, for a note nobody is credited with.
LEMMA StrayParity ==
  ASSUME PInv, NEW d \in Outputs, d \notin Unaddressed, deposits[d].invoice = Nobody,
         deposits'[d].invoice = Nobody, \A z \in Outputs : z # d => deposits'[z] = deposits[z],
         reviews' = reviews \cup unattributedReviews(d),
         \E cases \in Mem!strayCases(d) : memReviews' = Mem!createReviewCases(cases),
         UNCHANGED <<invoices, events, memInvoices, memEvents, apart>>
  PROVE  /\ MemRows' /\ InvoicesAgree' /\ StraysAgree' /\ NothingAsked'
         /\ MemCounts' /\ MemOneOpenCase' /\ \A y \in Orders : MemSummed(y)'
<1>1. /\ Inv /\ apart \subseteq Orders /\ MemRows /\ MemCounts /\ MemOneOpenCase
      /\ InvoicesAgree /\ StraysAgree /\ NothingAsked /\ \A y \in Orders : MemSummed(y)
  BY DEF PInv, Pair
<1> DEFINE asked == IF MerchantsOf(Output[d].wallet) = {} THEN {} ELSE {"unknown_address"}
<1>2. /\ \A s : s # d => SqlAsked(s)' = SqlAsked(s)
      /\ SqlAsked(d)' = SqlAsked(d) \cup asked
  BY <1>1, StrayAsked
<1>3. /\ MemCounts' /\ MemOneOpenCase'
      /\ \A s : s # d => MemAsked(s)' = MemAsked(s)
      /\ MemAsked(d)' = MemAsked(d) \cup asked
  BY <1>1, MemStrayAsked
<1> HIDE DEF asked
<1>4. MemRows'
  BY <1>1 DEF MemRows, RowShape
<1>5. ASSUME NEW y \in Orders PROVE MemSummed(y)'
  <2>1. Nobody # y
    OBVIOUS
  <2>2. \A z \in Outputs : \/ deposits'[z] = deposits[z]
                           \/ deposits[z].invoice # y /\ deposits'[z].invoice # y
    BY <2>1
  <2> QED BY <1>1, <2>2, MemSummedUntouched
<1>6. InvoicesAgree'
  <2> SUFFICES ASSUME NEW y \in Orders, y \notin apart PROVE Agree(y)'
    BY DEF InvoicesAgree
  <2>1. y # d
    OBVIOUS
  <2>2. /\ memInvoices[y] = invoices[y] /\ EventsAbout(y, memEvents) = EventsAbout(y, events)
        /\ MemAsked(y) = SqlAsked(y)
    BY <1>1 DEF InvoicesAgree, Agree
  <2>3. MemAsked(y)' = SqlAsked(y)'
    BY <1>2, <1>3, <2>1, <2>2
  <2>4. memInvoices'[y] = invoices'[y] /\ EventsAbout(y, memEvents') = EventsAbout(y, events')
    BY <2>2
  <2> QED BY <2>3, <2>4, AgreeAfter
<1>7. StraysAgree'
  <2> SUFFICES ASSUME NEW z \in Outputs \ Unaddressed, deposits'[z].invoice \notin apart
               PROVE  MemAsked(z)' = SqlAsked(z)'
    BY DEF StraysAgree
  <2>1. deposits[z].invoice = deposits'[z].invoice
    OBVIOUS
  <2>2. MemAsked(z) = SqlAsked(z)
    BY <1>1, <2>1 DEF StraysAgree
  <2>3. CASE z = d
    BY <1>2, <1>3, <2>2, <2>3
  <2>4. CASE z # d
    BY <1>2, <1>3, <2>2, <2>4
  <2> QED BY <2>3, <2>4
<1>8. NothingAsked'
  <2> SUFFICES ASSUME NEW z \in Unaddressed PROVE MemAsked(z)' = {}
    BY DEF NothingAsked
  <2> QED BY <1>1, <1>3 DEF NothingAsked
<1> QED BY <1>3, <1>4, <1>5, <1>6, <1>7, <1>8

\* What SQL and the in-memory store do with a note d whose invoice_id is o from now
\* on; x is what the lookup by address finds.
SqlCredits(d, o, x, status) ==
    /\ x = Nobody => /\ reviews' = reviews \cup unattributedReviews(d)
                     /\ UNCHANGED <<invoices, events>>
    /\ x = o => /\ invoices' = [invoices EXCEPT ![o] = Recomputed(deposits', o)]
                /\ events' = events \cup DetectionEvents(o, d, status)
                       \cup StatusChangeEvents(o, Recomputed(deposits', o))
                /\ reviews' = reviews \cup StatusChangeReviews(o, Recomputed(deposits', o))
MemCredits(d, o, status) ==
    /\ memInvoices' = [memInvoices EXCEPT ![o] = Mem!recomputed(Kept(deposits'), o)]
    /\ memEvents' = memEvents \cup DetectionEvents(o, d, status)
           \cup Mem!statusEvents(o, Mem!recomputed(Kept(deposits'), o))
    /\ memReviews' = Mem!createReviewCases(
           Mem!statusCases(o, Mem!recomputed(Kept(deposits'), o)))

\* A deposit event in both stores, for a note that has or gets an invoice.
LEMMA CreditedParity ==
  ASSUME PInv, Inv', NEW d \in Outputs, d \notin Unaddressed, NEW o \in Orders, Exists(o),
         NEW x \in {o, Nobody}, NEW status,
         deposits[d].invoice \in {o, Nobody}, deposits'[d].invoice = o,
         \A z \in Outputs : z # d => deposits'[z] = deposits[z],
         SqlCredits(d, o, x, status), MemCredits(d, o, status),
         apart \subseteq apart', o \notin apart' => x = o /\ ~LastSecond(o)
  PROVE  /\ MemRows' /\ InvoicesAgree' /\ StraysAgree' /\ NothingAsked'
         /\ MemCounts' /\ MemOneOpenCase' /\ \A y \in Orders : MemSummed(y)'
<1>1. /\ Inv /\ apart \subseteq Orders /\ MemRows /\ MemCounts /\ MemOneOpenCase
      /\ InvoicesAgree /\ StraysAgree /\ NothingAsked /\ \A y \in Orders : MemSummed(y)
  BY DEF PInv, Pair
<1> DEFINE row == Recomputed(deposits', o)
           memRow == Mem!recomputed(Kept(deposits'), o)
           seen == DetectionEvents(o, d, status)
           news == StatusChangeEvents(o, row)
           memNews == Mem!statusEvents(o, memRow)
           asked == StatusChangeReviews(o, row)
           memAsked == Mem!statusCases(o, memRow)
<1>2. /\ memInvoices'[o] = memRow
      /\ \A y \in Orders : y # o => memInvoices'[y] = memInvoices[y]
      /\ memInvoices' = [y \in Orders |-> memInvoices'[y]]
  BY <1>1 DEF MemRows, MemCredits
<1>3. /\ RowShape(memInvoices'[o])
      /\ memInvoices'[o].status # "absent"
      /\ memInvoices'[o].after = memInvoices[o].after
      /\ memInvoices'[o].expires = memInvoices[o].expires
      /\ MemSummed(o)'
  BY <1>2, MemWritten DEF PInv
<1>4. /\ x = o => invoices'[o] = row
      /\ \A y \in Orders : y # o => invoices'[y] = invoices[y]
      /\ x = Nobody => invoices'[o] = invoices[o]
  BY <1>1 DEF Inv, Shape, SqlCredits
<1>5. /\ invoices'[o].status # "absent" /\ invoices'[o].after = invoices[o].after
      /\ invoices'[o].expires = invoices[o].expires
  <2>1. row.status # "absent" /\ row.after = invoices[o].after /\ row.expires = invoices[o].expires
    BY <1>1, RecomputedRow DEF Inv
  <2> QED BY <1>4, <2>1 DEF Exists
<1>6. MemRows'
  <2> SUFFICES ASSUME NEW y \in Orders
               PROVE  /\ RowShape(memInvoices'[y])
                      /\ memInvoices'[y].status = "absent" <=> invoices'[y].status = "absent"
                      /\ memInvoices'[y].after = invoices'[y].after
                      /\ memInvoices'[y].expires = invoices'[y].expires
    BY <1>2 DEF MemRows, RowShape
  <2>1. CASE y = o
    BY <1>1, <1>3, <1>5, <2>1 DEF MemRows
  <2>2. CASE y # o
    BY <1>1, <1>2, <1>4, <2>2 DEF MemRows
  <2> QED BY <2>1, <2>2
<1>7. ASSUME NEW y \in Orders PROVE MemSummed(y)'
  <2>1. CASE y = o
    BY <1>3, <2>1
  <2>2. CASE y # o
    <3>1. \A z \in Outputs : \/ deposits'[z] = deposits[z]
                             \/ deposits[z].invoice # y /\ deposits'[z].invoice # y
      BY <2>2
    <3> QED BY <1>1, <1>2, <2>2, <3>1, MemSummedUntouched
  <2> QED BY <2>1, <2>2
<1>8. memAsked \subseteq Mem!MemReview
  BY StatusCaseShape
<1>9. /\ \A ev \in seen \cup news \cup memNews : ev.invoice = o
      /\ \A c \in asked \cup memAsked : c.subject = o
  BY StatusAbout DEF DetectionEvents, EventOf
<1> HIDE DEF row, memRow, seen, news, memNews, asked, memAsked
<1>10. /\ MemCounts' /\ MemOneOpenCase'
       /\ \A s : MemAsked(s)' = MemAsked(s) \cup QuestionsAbout(s, memAsked)
  <2>1. memReviews' = Mem!createReviewCases(memAsked)
    BY DEF memAsked, memRow, MemCredits
  <2> QED BY <1>1, <1>8, <2>1, MemAsks
<1>11. /\ x = o => \A s : SqlAsked(s)' = SqlAsked(s) \cup QuestionsAbout(s, asked)
       /\ x = Nobody => \A s : s # d => SqlAsked(s)' = SqlAsked(s)
  <2>1. CASE x = o
    <3>1. reviews' = reviews \cup asked
      BY <2>1 DEF asked, row, SqlCredits
    <3> QED BY <2>1, <3>1, SqlAsks
  <2>2. CASE x = Nobody
    BY <1>1, <2>2, StrayAsked DEF SqlCredits
  <2> QED BY <2>1, <2>2
<1>12. \A s : s # o => QuestionsAbout(s, asked) = {} /\ QuestionsAbout(s, memAsked) = {}
  BY <1>9, AboutOthers
<1>13. ASSUME NEW s, s # o
       PROVE  /\ MemAsked(s)' = MemAsked(s)
              /\ x = o \/ s # d => SqlAsked(s)' = SqlAsked(s)
  <2>1. QuestionsAbout(s, asked) = {} /\ QuestionsAbout(s, memAsked) = {}
    BY <1>12, <1>13
  <2>2. MemAsked(s)' = MemAsked(s) \cup QuestionsAbout(s, memAsked)
    BY <1>10
  <2>3. /\ x = o => SqlAsked(s)' = SqlAsked(s) \cup QuestionsAbout(s, asked)
        /\ x = Nobody /\ s # d => SqlAsked(s)' = SqlAsked(s)
    BY <1>11
  <2> QED BY <2>1, <2>2, <2>3
<1>14. memEvents' = memEvents \cup (seen \cup memNews) /\ (x = o => events' = events \cup (seen \cup news))
  BY DEF seen, news, memNews, row, memRow, SqlCredits, MemCredits
<1>15. InvoicesAgree'
  <2> SUFFICES ASSUME NEW y \in Orders, y \notin apart' PROVE Agree(y)'
    BY DEF InvoicesAgree
  <2>1. /\ memInvoices[y] = invoices[y] /\ EventsAbout(y, memEvents) = EventsAbout(y, events)
        /\ MemAsked(y) = SqlAsked(y)
    BY <1>1 DEF InvoicesAgree, Agree
  <2>2. CASE y # o
    <3>1. y # d
      OBVIOUS
    <3>2. MemAsked(y)' = SqlAsked(y)'
      BY <1>13, <2>1, <2>2, <3>1
    <3>3. memInvoices'[y] = invoices'[y]
      BY <1>2, <1>4, <2>1, <2>2
    <3>4. EventsAbout(y, memEvents') = EventsAbout(y, memEvents) \cup EventsAbout(y, seen \cup memNews)
          /\ (x = o => EventsAbout(y, events') = EventsAbout(y, events) \cup EventsAbout(y, seen \cup news))
      BY <1>14 DEF EventsAbout
    <3>5. EventsAbout(y, seen \cup memNews) = {} /\ EventsAbout(y, seen \cup news) = {}
      BY <1>9, <2>2 DEF EventsAbout
    <3>6. EventsAbout(y, memEvents') = EventsAbout(y, events')
      BY <2>1, <3>4, <3>5
    <3> QED BY <3>2, <3>3, <3>6, AgreeAfter
  <2>3. CASE y = o
    <3>1. x = o /\ ~LastSecond(o) /\ memInvoices[o] = invoices[o]
      BY <2>1, <2>3
    <3>2. \A z \in Unaddressed : deposits'[z].invoice # o
      <4>1. \A z \in Unaddressed : deposits'[z].invoice = Nobody
        BY UnaddressedAssumption DEF Inv, CreditedToAddressee
      <4> QED BY <4>1
    <3>3. /\ memRow = row /\ Mem!statusEvents(o, row) = news
      BY <1>1, <3>1, <3>2, SameRecomputed DEF memRow, row, news
    <3>4. memNews = news
      BY <3>3 DEF memNews
    <3>5. QuestionsAbout(o, memAsked) = QuestionsAbout(o, asked)
      BY <1>1, <3>1, <3>3, SameStatusCases DEF memAsked, asked
    <3>6. MemAsked(o)' = SqlAsked(o)'
      BY <1>10, <1>11, <2>1, <2>3, <3>1, <3>5
    <3>7. memInvoices'[o] = invoices'[o]
      BY <1>2, <1>4, <3>1, <3>3
    <3>8. EventsAbout(o, memEvents') = EventsAbout(o, events')
      BY <1>14, <2>1, <2>3, <3>1, <3>4 DEF EventsAbout
    <3> QED BY <2>3, <3>6, <3>7, <3>8, AgreeAfter
  <2> QED BY <2>2, <2>3
<1>16. StraysAgree'
  <2> SUFFICES ASSUME NEW z \in Outputs \ Unaddressed, deposits'[z].invoice \notin apart'
               PROVE  MemAsked(z)' = SqlAsked(z)'
    BY DEF StraysAgree
  <2>1. z # o
    OBVIOUS
  <2>2. x = o \/ z # d
    OBVIOUS
  <2>3. deposits[z].invoice \notin apart
    BY <1>1
  <2>4. MemAsked(z) = SqlAsked(z)
    BY <1>1, <2>3 DEF StraysAgree
  <2> QED BY <1>13, <2>1, <2>2, <2>4
<1>17. NothingAsked'
  <2> SUFFICES ASSUME NEW z \in Unaddressed PROVE MemAsked(z)' = {}
    BY DEF NothingAsked
  <2>1. z # o
    BY UnaddressedAssumption
  <2> QED BY <1>1, <1>13, <2>1 DEF NothingAsked
<1> QED BY <1>6, <1>7, <1>10, <1>15, <1>16, <1>17

\* A deposit event in both stores, for a note with an address.
LEMMA DepositParity ==
  ASSUME PInv, Inv', NEW d \in Outputs, d \notin Unaddressed, NEW height \in Nat,
         NEW status \in {"detected", "unconfirmed", "orphaned"},
         applyDepositEvent(d, height, status), Mem!applyDeposit(d, height, status),
         apart' = apart \cup {y \in Orders :
             deposits'[d].invoice = y /\ (LastSecond(y) \/ height <= invoices[y].after)}
  PROVE  /\ memDeposits' = Kept(deposits')
         /\ MemRows' /\ InvoicesAgree' /\ StraysAgree' /\ NothingAsked'
         /\ MemCounts' /\ MemOneOpenCase' /\ \A y \in Orders : MemSummed(y)'
<1>1. Inv /\ SameRows
  BY DEF PInv, Pair
<1>2. PICK x : x = applyInvoiceID(d, height)
  OBVIOUS
<1>3. PICK row : row = upsertDeposit(d, height, status, x)
  OBVIOUS
<1>4. PICK o : o = row.invoice
  OBVIOUS
<1> DEFINE deps == [deposits EXCEPT ![d] = row]
<1>5. /\ row \in DepositRow
      /\ deposits[d].invoice # Nobody => o = deposits[d].invoice
      /\ deposits[d].invoice = Nobody => o = x
      /\ x # Nobody => o = x
  BY <1>1, <1>2, <1>3, <1>4, UpsertDeposit
<1>6. x # Nobody => x \in Orders /\ Exists(x)
  BY <1>2, ApplyInvoiceId
<1>7. deposits' = deps
  BY <1>2, <1>3 DEF applyDepositEvent
<1>8. /\ x = Nobody => /\ reviews' = reviews \cup unattributedReviews(d)
                       /\ UNCHANGED <<invoices, events>>
      /\ x # Nobody => /\ invoices' = [invoices EXCEPT ![x] = Recomputed(deps, x)]
                       /\ events' = events \cup DetectionEvents(x, d, status)
                              \cup StatusChangeEvents(x, Recomputed(deps, x))
                       /\ reviews' = reviews \cup StatusChangeReviews(x, Recomputed(deps, x))
  BY <1>2, <1>3 DEF applyDepositEvent
<1>9. Mem!depositRecord(d, height, status) = row
  BY <1>2, <1>3, SameRecord
<1>10. deps[d] = row /\ \A z \in Outputs : z # d => deps[z] = deposits[z]
  BY <1>1 DEF Inv, Shape
<1>11. [memDeposits EXCEPT ![d] = row] = Kept(deps)
  <2>1. deposits = [z \in Outputs |-> deposits[z]]
    BY <1>1 DEF Inv, Shape
  <2> QED BY <1>1, <1>10, <2>1 DEF SameRows, Kept
<1> HIDE DEF deps
<1>12. Kept(deps)[d].invoice = o
  BY <1>4, <1>10 DEF Kept
<1>13. Mem!keepDeposit(d, height, status)
  <2>1. Output[d].amount \in Nat /\ MaxInt64 \in Nat /\ ~(Output[d].amount > MaxInt64)
    BY AmountsAssumption DEF OutputRow
  <2> QED BY <2>1 DEF Mem!applyDeposit
<1>14. memDeposits' = Kept(deps)
  BY <1>9, <1>11, <1>13 DEF Mem!keepDeposit
<1>15. /\ o = Nobody => /\ \E cases \in Mem!strayCases(d) :
                              memReviews' = Mem!createReviewCases(cases)
                        /\ UNCHANGED <<memInvoices, memEvents>>
       /\ o # Nobody => /\ memInvoices' = [memInvoices EXCEPT ![o] = Mem!recomputed(Kept(deps), o)]
                        /\ memEvents' = memEvents
                              \cup (IF status = "detected"
                                    THEN {Mem!eventOf(o, "deposit.detected", d)} ELSE {})
                              \cup Mem!statusEvents(o, Mem!recomputed(Kept(deps), o))
                        /\ memReviews' = Mem!createReviewCases(
                              Mem!statusCases(o, Mem!recomputed(Kept(deps), o)))
  BY <1>9, <1>11, <1>12, <1>13 DEF Mem!keepDeposit
<1>16. deposits'[d].invoice = o /\ \A z \in Outputs : z # d => deposits'[z] = deposits[z]
  BY <1>4, <1>7, <1>10
<1>17. CASE o = Nobody
  <2>1. x = Nobody /\ deposits[d].invoice = Nobody
    BY <1>5, <1>17
  <2>2. /\ reviews' = reviews \cup unattributedReviews(d)
        /\ \E cases \in Mem!strayCases(d) : memReviews' = Mem!createReviewCases(cases)
        /\ UNCHANGED <<invoices, events, memInvoices, memEvents>>
    BY <1>8, <1>15, <1>17, <2>1
  <2>3. apart' = apart
    <3>1. \A y \in Orders : deposits'[d].invoice # y
      BY <1>16, <1>17
    <3> QED BY <3>1
  <2> QED BY <1>7, <1>14, <1>16, <1>17, <2>1, <2>2, <2>3, StrayParity
<1>18. CASE o # Nobody
  <2>1. o \in Orders /\ Exists(o) /\ x \in {o, Nobody} /\ deposits[d].invoice \in {o, Nobody}
    <3>1. o \in Orders
      BY <1>4, <1>5, <1>18 DEF DepositRow
    <3> QED BY <1>1, <1>5, <1>6, <1>18, <3>1 DEF Inv, CreditedToAddressee
  <2>2. DetectionEvents(o, d, status) =
          IF status = "detected" THEN {Mem!eventOf(o, "deposit.detected", d)} ELSE {}
    BY DEF DetectionEvents, Mem!eventOf, EventOf
  <2>3. MemCredits(d, o, status)
    BY <1>7, <1>15, <1>18, <2>2 DEF MemCredits
  <2>4. SqlCredits(d, o, x, status)
    BY <1>7, <1>8, <1>18 DEF SqlCredits
  <2>5. apart \subseteq apart' /\ (o \notin apart' => x = o /\ ~LastSecond(o))
    <3>1. x = Nobody => height <= invoices[o].after
      BY <1>1, <1>2, <1>5, <1>18, <2>1, NotFoundBelow
    <3>2. LastSecond(o) \/ height <= invoices[o].after => o \in apart'
      BY <1>16, <2>1
    <3> QED BY <2>1, <3>1, <3>2
  <2>6. /\ MemRows' /\ InvoicesAgree' /\ StraysAgree' /\ NothingAsked'
        /\ MemCounts' /\ MemOneOpenCase' /\ \A y \in Orders : MemSummed(y)'
    BY <1>16, <2>1, <2>3, <2>4, <2>5, CreditedParity
  <2> QED BY <1>7, <1>14, <2>6
<1> QED BY <1>17, <1>18

\* A step that leaves invoices and credited deposits alone, and tells both stores the
\* same about every invoice and every deposit with an address.
LEMMA QuietParity ==
  ASSUME PInv, Inv', UNCHANGED <<memInvoices, memReviews, memDeposits, invoices, apart>>,
         \A d \in Outputs \ Unaddressed : deposits'[d] = deposits[d] /\ SqlAsked(d)' = SqlAsked(d),
         \A y \in Orders : SqlAsked(y)' = SqlAsked(y),
         memCursor' = cursor', memRefunds' = refunds',
         \A y \in Orders : EventsAbout(y, memEvents) = EventsAbout(y, events)
                             => EventsAbout(y, memEvents') = EventsAbout(y, events')
  PROVE  Pair'
<1>1. /\ Inv /\ SameRows /\ apart \subseteq Orders /\ MemRows /\ MemCounts /\ MemOneOpenCase
      /\ InvoicesAgree /\ StraysAgree /\ NothingAsked /\ \A y \in Orders : MemSummed(y)
  BY DEF PInv, Pair
<1>2. SameRows'
  BY <1>1 DEF SameRows, Kept
<1>3. MemRows'
  BY <1>1 DEF MemRows, RowShape
<1>4. MemCounts' /\ MemOneOpenCase'
  BY <1>1 DEF MemCounts, MemOneOpenCase, Mem!OneOpenCase
<1>5. ASSUME NEW s PROVE MemAsked(s)' = MemAsked(s)
  BY DEF MemAsked, QuestionsAbout
<1>6. NothingAsked'
  BY <1>1, <1>5 DEF NothingAsked, MemAsked, QuestionsAbout
<1>7. StraysAgree'
  <2> SUFFICES ASSUME NEW z \in Outputs \ Unaddressed, deposits'[z].invoice \notin apart
               PROVE  MemAsked(z)' = SqlAsked(z)'
    BY DEF StraysAgree
  <2>1. MemAsked(z) = SqlAsked(z)
    BY <1>1 DEF StraysAgree
  <2>2. SqlAsked(z)' = SqlAsked(z)
    OBVIOUS
  <2> QED BY <1>5, <2>1, <2>2
<1>8. InvoicesAgree'
  <2> SUFFICES ASSUME NEW y \in Orders, y \notin apart PROVE Agree(y)'
    BY DEF InvoicesAgree
  <2>1. /\ memInvoices[y] = invoices[y] /\ EventsAbout(y, memEvents) = EventsAbout(y, events)
        /\ MemAsked(y) = SqlAsked(y)
    BY <1>1 DEF InvoicesAgree, Agree
  <2>2. SqlAsked(y)' = SqlAsked(y) /\ MemAsked(y)' = MemAsked(y)
    BY <1>5
  <2>3. EventsAbout(y, memEvents') = EventsAbout(y, events')
    BY <2>1
  <2>4. memInvoices'[y] = invoices'[y] /\ MemAsked(y)' = SqlAsked(y)'
    BY <2>1, <2>2
  <2> QED BY <2>3, <2>4, AgreeAfter
<1>9. ASSUME NEW y \in Orders PROVE MemSummed(y)'
  <2>1. \A d \in Unaddressed : deposits[d].invoice = Nobody /\ deposits'[d].invoice = Nobody
    BY <1>1, UnaddressedAssumption DEF Inv, CreditedToAddressee
  <2>2. Nobody # y
    OBVIOUS
  <2>3. \A d \in Outputs : \/ deposits'[d] = deposits[d]
                           \/ deposits[d].invoice # y /\ deposits'[d].invoice # y
    BY <2>1, <2>2
  <2> QED BY <1>1, <2>3, MemSummedUntouched
<1> QED BY <1>1, <1>2, <1>3, <1>4, <1>6, <1>7, <1>8, <1>9 DEF Pair

\* A scan event in both stores.
LEMMA ScanParity ==
  ASSUME PInv, Inv', NEW e \in ScanEvents, BothApplyScanEvent(e)
  PROVE  Pair'
<1>0. PICK d : d = e.output
  OBVIOUS
<1> DEFINE status == incomingStatus(e.kind)
<1>1. /\ ApplyScanEvent(e) /\ Mem!ApplyScanEvent(e)
      /\ apart' = apart \cup {y \in Orders :
             /\ e.kind \in DepositKinds
             /\ deposits'[d].invoice = y
             /\ LastSecond(y) \/ e.height <= invoices[y].after}
  BY <1>0 DEF BothApplyScanEvent, MovesBelow
<1>2. d \in Outputs /\ e.height \in Nat /\ status \in {"detected", "unconfirmed", "orphaned"}
  BY <1>0 DEF ScanEvents, incomingStatus
<1>3. Mem!scanStatus(e.kind) = status
  BY DEF Mem!scanStatus, incomingStatus
<1>4. Mem!DepositKinds = DepositKinds
  BY DEF Mem!DepositKinds, DepositKinds
<1>5. memCursor' = cursor' /\ memRefunds' = refunds'
  BY <1>1 DEF PInv, Pair, SameRows, ApplyScanEvent, Mem!ApplyScanEvent
<1>6. CASE e.kind \in DepositKinds /\ d \notin Unaddressed
  <2>1. applyDepositEvent(d, e.height, status)
    BY <1>0, <1>1, <1>6 DEF ApplyScanEvent
  <2>2. Mem!applyDeposit(d, e.height, status)
    BY <1>0, <1>1, <1>3, <1>4, <1>6 DEF Mem!ApplyScanEvent
  <2>3. apart' = apart \cup {y \in Orders :
             deposits'[d].invoice = y /\ (LastSecond(y) \/ e.height <= invoices[y].after)}
    BY <1>1, <1>6
  <2> HIDE DEF status
  <2>4. /\ memDeposits' = Kept(deposits')
        /\ MemRows' /\ InvoicesAgree' /\ StraysAgree' /\ NothingAsked'
        /\ MemCounts' /\ MemOneOpenCase' /\ \A y \in Orders : MemSummed(y)'
    BY <1>2, <1>6, <2>1, <2>2, <2>3, DepositParity
  <2>5. SameRows' /\ (apart \subseteq Orders)'
    BY <1>5, <2>3, <2>4 DEF PInv, Pair, SameRows, Kept
  <2> QED BY <2>4, <2>5 DEF Pair
<1>7. CASE e.kind \in DepositKinds /\ d \in Unaddressed
  <2>1. applyDepositEvent(d, e.height, status)
    BY <1>0, <1>1, <1>7 DEF ApplyScanEvent
  <2>2. UNCHANGED <<memInvoices, memDeposits, memEvents, memReviews>>
    BY <1>0, <1>1, <1>4, <1>7 DEF Mem!ApplyScanEvent, Mem!applyDeposit
  <2>3. applyInvoiceID(d, e.height) = Nobody
    BY <1>7, UnaddressedAssumption DEF applyInvoiceID
  <2>4. /\ reviews' = reviews \cup unattributedReviews(d)
        /\ UNCHANGED <<invoices, events>>
        /\ \A z \in Outputs : z # d => deposits'[z] = deposits[z]
    BY <2>1, <2>3 DEF applyDepositEvent, PInv, Inv, Shape
  <2>5. ASSUME NEW s, s # d PROVE SqlAsked(s)' = SqlAsked(s)
    BY <1>2, <2>4, <2>5, StrayAsked DEF PInv
  <2>6. deposits'[d].invoice = Nobody
    BY <1>2, <1>7, UnaddressedAssumption DEF Inv, CreditedToAddressee
  <2>7. apart' = apart
    <3>1. \A y \in Orders : deposits'[d].invoice # y
      BY <2>6
    <3> QED BY <1>1, <3>1
  <2>8. \A z \in Outputs \ Unaddressed : deposits'[z] = deposits[z] /\ SqlAsked(z)' = SqlAsked(z)
    BY <1>7, <2>4, <2>5
  <2>9. \A y \in Orders : SqlAsked(y)' = SqlAsked(y)
    <3>1. \A y \in Orders : y # d
      BY <1>2
    <3> QED BY <2>5, <3>1
  <2> QED BY <1>5, <2>2, <2>4, <2>7, <2>8, <2>9, QuietParity
<1>8. CASE e.kind \notin DepositKinds
  <2>1. /\ UNCHANGED <<invoices, deposits, events, reviews>>
        /\ UNCHANGED <<memInvoices, memDeposits, memEvents, memReviews>>
    BY <1>1, <1>4, <1>8 DEF ApplyScanEvent, Mem!ApplyScanEvent
  <2>2. apart' = apart
    BY <1>1, <1>8
  <2>3. ASSUME NEW s PROVE SqlAsked(s)' = SqlAsked(s)
    BY <2>1 DEF SqlAsked, QuestionsAbout
  <2>4. /\ \A z \in Outputs \ Unaddressed : deposits'[z] = deposits[z] /\ SqlAsked(z)' = SqlAsked(z)
        /\ \A y \in Orders : SqlAsked(y)' = SqlAsked(y)
    BY <2>1, <2>3
  <2> QED BY <1>5, <2>1, <2>2, <2>4, QuietParity
<1> QED BY <1>6, <1>7, <1>8

---------------------------------------------------------------------------
(* Confirmations *)

\* The confirmations by height in both stores.
LEMMA ConfirmationsParity ==
  ASSUME PInv, Inv', NEW best \in 0..MaxHeight, BothUpdateInvoiceConfirmations(best)
  PROVE  Pair'
<1> DEFINE ready == toConfirm(best)
           deps == [d \in Outputs |-> IF d \in ready THEN confirmedDeposit(d) ELSE deposits[d]]
           affected == {deposits[d].invoice : d \in ready}
           notices == {EventOf(deposits[d].invoice, "deposit.confirmed", d) : d \in ready}
<1>1. /\ Inv /\ SameRows /\ apart \subseteq Orders /\ MemRows /\ MemCounts /\ MemOneOpenCase
      /\ InvoicesAgree /\ StraysAgree /\ NothingAsked /\ \A y \in Orders : MemSummed(y)
  BY DEF PInv, Pair
<1>2. /\ deposits' = deps
      /\ invoices' = [y \in Orders |-> IF y \in affected THEN Recomputed(deps, y) ELSE invoices[y]]
      /\ events' = events \cup notices
              \cup UNION {StatusChangeEvents(y, Recomputed(deps, y)) : y \in affected}
      /\ reviews' = reviews
              \cup UNION {StatusChangeReviews(y, Recomputed(deps, y)) : y \in affected}
      /\ UNCHANGED <<cursor, refunds, memCursor, memRefunds>>
  BY DEF BothUpdateInvoiceConfirmations, UpdateInvoiceConfirmations, Mem!UpdateInvoiceConfirmations
<1>3. \A d \in Outputs : /\ deposits[d] \in DepositRow
                         /\ deposits[d].invoice # Nobody =>
                              deposits[d].invoice \in Orders /\ Exists(deposits[d].invoice)
  BY <1>1 DEF Inv, Shape, DepositRow, CreditedToAddressee
<1>4. \A d \in Unaddressed : deposits[d].invoice = Nobody /\ memDeposits[d] = NoDeposit
  BY <1>1, UnaddressedUncredited, UnaddressedAssumption DEF SameRows, Kept
<1>5. \A d \in Outputs : d \notin Unaddressed => memDeposits[d] = deposits[d]
  BY <1>1 DEF SameRows, Kept
<1>6. Mem!confirmable(best) = ready
  <2>1. ASSUME NEW d \in Outputs, deposits[d].invoice # Nobody
        PROVE  best - deposits[d].height + 1 >= Mem!Required(Order[deposits[d].invoice].required)
                 <=> DeepEnough(best, deposits[d].height, Order[deposits[d].invoice].required)
    <3>1. deposits[d].height \in Nat /\ best \in Int
      BY <1>3 DEF DepositRow
    <3>2. Order[deposits[d].invoice].required \in Nat
      BY <1>3, <2>1 DEF OrderRow
    <3> QED BY <3>1, <3>2 DEF DeepEnough, Required, Mem!Required
  <2>2. ASSUME NEW d \in Outputs PROVE d \in Mem!confirmable(best) <=> d \in ready
    <3>1. CASE d \in Unaddressed
      BY <1>4, <3>1 DEF Mem!confirmable, toConfirm, NoDeposit
    <3>2. CASE d \notin Unaddressed
      BY <1>5, <2>1, <3>2 DEF Mem!confirmable, toConfirm
    <3> QED BY <3>1, <3>2
  <2> QED BY <2>2 DEF Mem!confirmable, toConfirm
<1>7. \A d \in ready : d \in Outputs /\ d \notin Unaddressed /\ memDeposits[d] = deposits[d]
  BY <1>4, <1>5 DEF toConfirm
<1>8. [d \in Outputs |->
         IF d \in ready
         THEN [memDeposits[d] EXCEPT !.status = "confirmed",
                  !.confHeight = memDeposits[d].height
                      + Mem!Required(Order[memDeposits[d].invoice].required) - 1]
         ELSE memDeposits[d]] = Kept(deps)
  <2>1. ASSUME NEW d \in Outputs
        PROVE  (IF d \in ready
                THEN [memDeposits[d] EXCEPT !.status = "confirmed",
                        !.confHeight = memDeposits[d].height
                            + Mem!Required(Order[memDeposits[d].invoice].required) - 1]
                ELSE memDeposits[d]) = IF d \in Unaddressed THEN NoDeposit ELSE deps[d]
    <3> HIDE DEF ready
    <3>1. CASE d \in ready
      BY <1>7, <3>1 DEF confirmedDeposit, Required, Mem!Required
    <3>2. CASE d \notin ready
      BY <1>4, <1>5, <3>2
    <3> QED BY <3>1, <3>2
  <2> QED BY <2>1 DEF Kept
<1>9. {memDeposits[d].invoice : d \in ready} = affected
  BY <1>7
<1>10. {Mem!eventOf(memDeposits[d].invoice, "deposit.confirmed", d) : d \in ready} = notices
  BY <1>7 DEF Mem!eventOf, EventOf
<1> DEFINE memRow(y) == Mem!recomputed(Kept(deps), y)
           row(y) == Recomputed(deps, y)
<1> HIDE DEF ready, deps, affected, notices
<1>11. /\ memDeposits' = Kept(deps)
       /\ memInvoices' = [y \in Orders |-> IF y \in affected THEN memRow(y) ELSE memInvoices[y]]
       /\ memEvents' = memEvents \cup notices
               \cup UNION {Mem!statusEvents(y, memRow(y)) : y \in affected}
       /\ memReviews' = Mem!createReviewCases(
               UNION {Mem!statusCases(y, memRow(y)) : y \in affected})
  <2> DEFINE mready == Mem!confirmable(best)
             mdeps == [d \in Outputs |->
               IF d \in mready
               THEN [memDeposits[d] EXCEPT !.status = "confirmed",
                        !.confHeight = memDeposits[d].height
                            + Mem!Required(Order[memDeposits[d].invoice].required) - 1]
               ELSE memDeposits[d]]
             maffected == {memDeposits[d].invoice : d \in mready}
             mnotices == {Mem!eventOf(memDeposits[d].invoice, "deposit.confirmed", d) : d \in mready}
  <2>1. /\ memDeposits' = mdeps
        /\ memInvoices' = [y \in Orders |->
                IF y \in maffected THEN Mem!recomputed(mdeps, y) ELSE memInvoices[y]]
        /\ memEvents' = memEvents \cup mnotices
                \cup UNION {Mem!statusEvents(y, Mem!recomputed(mdeps, y)) : y \in maffected}
        /\ memReviews' = Mem!createReviewCases(
                UNION {Mem!statusCases(y, Mem!recomputed(mdeps, y)) : y \in maffected})
    BY Zenon DEF BothUpdateInvoiceConfirmations, Mem!UpdateInvoiceConfirmations
  <2>2. mready = ready
    BY <1>6
  <2>3. mdeps = Kept(deps)
    BY <1>8, <2>2
  <2>4. maffected = affected
    BY <1>9, <2>2
  <2>5. mnotices = notices
    BY <1>10, <2>2
  <2> HIDE DEF mready, mdeps, maffected, mnotices
  <2> QED BY <2>1, <2>3, <2>4, <2>5, Zenon
<1>12. affected \subseteq Orders /\ \A y \in affected : Exists(y)
  BY <1>3 DEF affected, ready, toConfirm
<1>13. /\ apart' \subseteq Orders /\ apart \subseteq apart'
       /\ \A y \in affected : y \notin apart' => ~LastSecond(y)
  BY <1>1, <1>12 DEF BothUpdateInvoiceConfirmations, affected, ready
<1>14. \A y \in affected : /\ memInvoices'[y] = memRow(y) /\ invoices'[y] = row(y)
  BY <1>2, <1>11, <1>12
<1>15. \A y \in Orders \ affected : memInvoices'[y] = memInvoices[y] /\ invoices'[y] = invoices[y]
  BY <1>2, <1>11
<1>16. ASSUME NEW y \in affected
       PROVE  /\ RowShape(memInvoices'[y]) /\ memInvoices'[y].status # "absent"
              /\ memInvoices'[y].after = memInvoices[y].after
              /\ memInvoices'[y].expires = memInvoices[y].expires
              /\ MemSummed(y)'
  <2>1. memInvoices'[y] = Mem!recomputed(Kept(deposits'), y) /\ y \in Orders
    BY <1>2, <1>12, <1>14
  <2> QED BY <2>1, MemWritten DEF PInv
<1>17. MemRows'
  <2>1. ASSUME NEW y \in Orders
        PROVE  /\ RowShape(memInvoices'[y])
               /\ memInvoices'[y].status = "absent" <=> invoices'[y].status = "absent"
               /\ memInvoices'[y].after = invoices'[y].after
               /\ memInvoices'[y].expires = invoices'[y].expires
    <3>1. CASE y \in affected
      <4>1. /\ invoices'[y].status # "absent" /\ invoices'[y].after = invoices[y].after
            /\ invoices'[y].expires = invoices[y].expires
        BY <1>1, <1>14, <3>1, RecomputedRow DEF Inv
      <4> QED BY <1>1, <1>16, <3>1, <4>1 DEF MemRows
    <3>2. CASE y \notin affected
      BY <1>1, <1>15, <3>2 DEF MemRows
    <3> QED BY <3>1, <3>2
  <2>2. memInvoices' = [y \in Orders |-> memInvoices'[y]]
    BY <1>11
  <2> QED BY <2>1, <2>2 DEF MemRows, RowShape
<1>18. \A d \in Outputs : deps[d].invoice = deposits[d].invoice
  BY <1>3 DEF deps, confirmedDeposit, DepositRow
<1>19. ASSUME NEW y \in Orders PROVE MemSummed(y)'
  <2>1. CASE y \in affected
    BY <1>16, <2>1
  <2>2. CASE y \notin affected
    <3>1. memInvoices'[y] = memInvoices[y]
      BY <1>15, <2>2
    <3>2. \A d \in Outputs : \/ deposits'[d] = deposits[d]
                             \/ deposits[d].invoice # y /\ deposits'[d].invoice # y
      BY <1>2, <1>18, <2>2 DEF deps, affected
    <3> QED BY <1>1, <3>1, <3>2, MemSummedUntouched
  <2> QED BY <2>1, <2>2
<1> DEFINE memNews == [y \in Orders |-> Mem!statusEvents(y, memRow(y))]
           news == [y \in Orders |-> StatusChangeEvents(y, row(y))]
           memAsks == [y \in Orders |-> Mem!statusCases(y, memRow(y))]
           asks == [y \in Orders |-> StatusChangeReviews(y, row(y))]
<1>20. /\ memEvents' = memEvents \cup notices \cup Gathered(memNews, affected)
       /\ events' = events \cup notices \cup Gathered(news, affected)
       /\ memReviews' = Mem!createReviewCases(Gathered(memAsks, affected))
       /\ reviews' = reviews \cup Gathered(asks, affected)
  <2>1. /\ \A y \in affected : memNews[y] = Mem!statusEvents(y, memRow(y))
        /\ \A y \in affected : news[y] = StatusChangeEvents(y, row(y))
        /\ \A y \in affected : memAsks[y] = Mem!statusCases(y, memRow(y))
        /\ \A y \in affected : asks[y] = StatusChangeReviews(y, row(y))
    BY <1>12
  <2> HIDE DEF memNews, news, memAsks, asks
  <2>2. /\ {memNews[y] : y \in affected} = {Mem!statusEvents(y, memRow(y)) : y \in affected}
        /\ {news[y] : y \in affected} = {StatusChangeEvents(y, row(y)) : y \in affected}
        /\ {memAsks[y] : y \in affected} = {Mem!statusCases(y, memRow(y)) : y \in affected}
        /\ {asks[y] : y \in affected} = {StatusChangeReviews(y, row(y)) : y \in affected}
    BY <2>1
  <2> QED BY <1>2, <1>11, <2>2 DEF Gathered
<1>21. \A y \in affected :
         /\ \A ev \in memNews[y] \cup news[y] : ev.invoice = y
         /\ \A c \in memAsks[y] \cup asks[y] : c.subject = y
         /\ memAsks[y] \subseteq Mem!MemReview
  <2> SUFFICES ASSUME NEW y \in affected
               PROVE  /\ \A ev \in memNews[y] \cup news[y] : ev.invoice = y
                      /\ \A c \in memAsks[y] \cup asks[y] : c.subject = y
                      /\ memAsks[y] \subseteq Mem!MemReview
    OBVIOUS
  <2>1. y \in Orders
    BY <1>12
  <2> HIDE DEF memRow, row
  <2> QED BY <2>1, StatusAbout, StatusCaseShape
<1>22. \A y \in affected : ~LastSecond(y) /\ memInvoices[y] = invoices[y] =>
         /\ memRow(y) = row(y) /\ memNews[y] = news[y]
         /\ QuestionsAbout(y, memAsks[y]) = QuestionsAbout(y, asks[y])
  <2> SUFFICES ASSUME NEW y \in affected, ~LastSecond(y), memInvoices[y] = invoices[y]
               PROVE  /\ memRow(y) = row(y) /\ memNews[y] = news[y]
                      /\ QuestionsAbout(y, memAsks[y]) = QuestionsAbout(y, asks[y])
    OBVIOUS
  <2>1. y \in Orders /\ \A d \in Unaddressed : deps[d].invoice # y
    BY <1>4, <1>12, <1>18, UnaddressedAssumption
  <2>2. memRow(y) = row(y) /\ Mem!statusEvents(y, row(y)) = StatusChangeEvents(y, row(y))
    BY <1>1, <2>1, SameRecomputed
  <2> HIDE DEF memRow, row
  <2>3. QuestionsAbout(y, Mem!statusCases(y, row(y))) = QuestionsAbout(y, StatusChangeReviews(y, row(y)))
    BY <1>1, <2>1, SameStatusCases
  <2> QED BY <2>1, <2>2, <2>3
<1> HIDE DEF memNews, news, memAsks, asks, memRow, row
<1> DEFINE memCases == Gathered(memAsks, affected)
           cases == Gathered(asks, affected)
<1>23. memCases \subseteq Mem!MemReview
  BY <1>21 DEF Gathered
<1>24. ASSUME NEW s
       PROVE  /\ QuestionsAbout(s, memCases) = IF s \in affected THEN QuestionsAbout(s, memAsks[s]) ELSE {}
              /\ QuestionsAbout(s, cases) = IF s \in affected THEN QuestionsAbout(s, asks[s]) ELSE {}
  <2>1. /\ \A z \in affected : \A c \in memAsks[z] : c.subject = z
        /\ \A z \in affected : \A c \in asks[z] : c.subject = z
    BY <1>21
  <2>2. QuestionsAbout(s, memCases) = IF s \in affected THEN QuestionsAbout(s, memAsks[s]) ELSE {}
    BY <2>1, AboutFamily
  <2>3. QuestionsAbout(s, cases) = IF s \in affected THEN QuestionsAbout(s, asks[s]) ELSE {}
    BY <2>1, AboutFamily
  <2> QED BY <2>2, <2>3
<1>25. ASSUME NEW s
       PROVE  /\ EventsAbout(s, Gathered(memNews, affected))
                   = IF s \in affected THEN memNews[s] ELSE {}
              /\ EventsAbout(s, Gathered(news, affected))
                   = IF s \in affected THEN news[s] ELSE {}
  <2>1. /\ \A z \in affected : \A ev \in memNews[z] : ev.invoice = z
        /\ \A z \in affected : \A ev \in news[z] : ev.invoice = z
    BY <1>21
  <2>2. EventsAbout(s, Gathered(memNews, affected))
          = IF s \in affected THEN memNews[s] ELSE {}
    BY <2>1, AboutFamily
  <2>3. EventsAbout(s, Gathered(news, affected))
          = IF s \in affected THEN news[s] ELSE {}
    BY <2>1, AboutFamily
  <2> QED BY <2>2, <2>3
<1> HIDE DEF memCases, cases
<1>26. /\ MemCounts' /\ MemOneOpenCase'
       /\ \A s : MemAsked(s)' = MemAsked(s) \cup QuestionsAbout(s, memCases)
  <2>1. memReviews' = Mem!createReviewCases(memCases)
    BY <1>20 DEF memCases
  <2> QED BY <1>1, <1>23, <2>1, MemAsks
<1>27. \A s : SqlAsked(s)' = SqlAsked(s) \cup QuestionsAbout(s, cases)
  <2>1. reviews' = reviews \cup cases
    BY <1>20 DEF cases
  <2> QED BY <2>1, SqlAsks
<1>28. ASSUME NEW s, s \notin affected PROVE MemAsked(s)' = MemAsked(s) /\ SqlAsked(s)' = SqlAsked(s)
  <2>1. QuestionsAbout(s, memCases) = {} /\ QuestionsAbout(s, cases) = {}
    BY <1>24, <1>28
  <2>2. MemAsked(s)' = MemAsked(s) \cup QuestionsAbout(s, memCases)
    BY <1>26
  <2>3. SqlAsked(s)' = SqlAsked(s) \cup QuestionsAbout(s, cases)
    BY <1>27
  <2> QED BY <2>1, <2>2, <2>3
<1>29. InvoicesAgree'
  <2> SUFFICES ASSUME NEW y \in Orders, y \notin apart' PROVE Agree(y)'
    BY DEF InvoicesAgree
  <2>1. /\ memInvoices[y] = invoices[y] /\ EventsAbout(y, memEvents) = EventsAbout(y, events)
        /\ MemAsked(y) = SqlAsked(y)
    BY <1>1, <1>13 DEF InvoicesAgree, Agree
  <2>2. y \in affected => /\ memRow(y) = row(y) /\ memNews[y] = news[y]
                          /\ QuestionsAbout(y, memAsks[y]) = QuestionsAbout(y, asks[y])
    BY <1>13, <1>22, <2>1
  <2>3. memInvoices'[y] = invoices'[y]
    BY <1>14, <1>15, <2>1, <2>2
  <2>4. QuestionsAbout(y, memCases) = QuestionsAbout(y, cases)
    BY <1>24, <2>2
  <2>5. MemAsked(y)' = SqlAsked(y)'
    <3>1. MemAsked(y)' = MemAsked(y) \cup QuestionsAbout(y, memCases)
      BY <1>26
    <3>2. SqlAsked(y)' = SqlAsked(y) \cup QuestionsAbout(y, cases)
      BY <1>27
    <3> QED BY <2>1, <2>4, <3>1, <3>2
  <2>6. EventsAbout(y, memEvents') = EventsAbout(y, events')
    <3> DEFINE memNew == Gathered(memNews, affected)
               new == Gathered(news, affected)
    <3>1. EventsAbout(y, memNew) = EventsAbout(y, new)
      BY <1>25, <2>2
    <3>2. memEvents' = memEvents \cup notices \cup memNew /\ events' = events \cup notices \cup new
      BY <1>20
    <3> HIDE DEF memNew, new
    <3> QED BY <2>1, <3>1, <3>2 DEF EventsAbout
  <2> QED BY <2>3, <2>5, <2>6, AgreeAfter
<1>30. StraysAgree'
  <2> SUFFICES ASSUME NEW z \in Outputs \ Unaddressed, deposits'[z].invoice \notin apart'
               PROVE  MemAsked(z)' = SqlAsked(z)'
    BY DEF StraysAgree
  <2>1. deposits[z].invoice \notin apart
    BY <1>2, <1>13, <1>18
  <2>2. MemAsked(z) = SqlAsked(z)
    BY <1>1, <2>1 DEF StraysAgree
  <2>3. z \notin affected
    BY <1>12
  <2> QED BY <1>28, <2>2, <2>3
<1>31. NothingAsked'
  <2> SUFFICES ASSUME NEW z \in Unaddressed PROVE MemAsked(z)' = {}
    BY DEF NothingAsked
  <2>1. z \notin affected
    BY <1>12, UnaddressedAssumption
  <2> QED BY <1>1, <1>28, <2>1 DEF NothingAsked
<1>32. SameRows' /\ (apart \subseteq Orders)'
  BY <1>1, <1>2, <1>11, <1>13 DEF SameRows, Kept
<1> QED BY <1>17, <1>19, <1>26, <1>29, <1>30, <1>31, <1>32 DEF Pair

---------------------------------------------------------------------------
(* The other calls *)

\* A new invoice in both stores: no deposit can be credited to it yet.
LEMMA CreateParity ==
  ASSUME PInv, Inv', NEW o \in Orders, NEW best \in 0..MaxHeight, BothCreateInvoice(o, best)
  PROVE  Pair'
<1> DEFINE row == [status |-> "open", pending |-> 0, confirmed |-> 0, after |-> best,
                   expires |-> IF Order[o].ttl = 0 THEN Null ELSE now + Order[o].ttl]
           created == {EventOf(o, "invoice.created", Nobody)}
<1>1. /\ Inv /\ SameRows /\ apart \subseteq Orders /\ MemRows /\ MemCounts /\ MemOneOpenCase
      /\ InvoicesAgree /\ StraysAgree /\ NothingAsked /\ \A y \in Orders : MemSummed(y)
  BY DEF PInv, Pair
<1>2. /\ ~Exists(o)
      /\ invoices' = [invoices EXCEPT ![o] = row]
      /\ events' = events \cup created
      /\ UNCHANGED <<deposits, cursor, reviews, refunds, apart>>
  BY DEF BothCreateInvoice, CreateInvoice
<1>3. /\ memInvoices' = [memInvoices EXCEPT ![o] = row]
      /\ memEvents' = memEvents \cup created
      /\ UNCHANGED <<memDeposits, memCursor, memReviews, memRefunds>>
  BY DEF BothCreateInvoice, Mem!CreateInvoice, Mem!eventOf, EventOf, Mem!Null, Null
<1>4. RowShape(row) /\ row.status = "open" /\ row.pending = 0 /\ row.confirmed = 0
  <2>1. now \in Nat /\ Order[o].ttl \in Nat
    BY <1>1 DEF Inv, Shape, OrderRow
  <2> QED BY <2>1 DEF RowShape, InvoiceStatuses
<1> HIDE DEF row, created
<1>5. /\ invoices'[o] = row /\ memInvoices'[o] = row
      /\ \A y \in Orders : y # o => invoices'[y] = invoices[y] /\ memInvoices'[y] = memInvoices[y]
      /\ memInvoices' = [y \in Orders |-> memInvoices'[y]]
  BY <1>1, <1>2, <1>3 DEF Inv, Shape, MemRows
<1>6. MemRows'
  <2> SUFFICES ASSUME NEW y \in Orders
               PROVE  /\ RowShape(memInvoices'[y])
                      /\ memInvoices'[y].status = "absent" <=> invoices'[y].status = "absent"
                      /\ memInvoices'[y].after = invoices'[y].after
                      /\ memInvoices'[y].expires = invoices'[y].expires
    BY <1>5 DEF MemRows, RowShape
  <2>1. CASE y = o
    BY <1>4, <1>5, <2>1
  <2>2. CASE y # o
    BY <1>1, <1>5, <2>2 DEF MemRows
  <2> QED BY <2>1, <2>2
<1>7. ASSUME NEW y \in Orders PROVE MemSummed(y)'
  <2>1. CASE y # o
    BY <1>1, <1>2, <1>5, <2>1, MemSummedUntouched
  <2>2. CASE y = o
    <3>1. \A d \in Outputs : deposits[d].invoice # o
      BY <1>1, <1>2 DEF Inv, CreditedToAddressee
    <3>2. \A statuses :
            {d \in Outputs : deposits[d].invoice = o /\ deposits[d].status \in statuses} = {}
      BY <3>1
    <3>3. \A statuses : Received(deposits, o, statuses) = 0
      BY <3>2, SumNone DEF Received
    <3> QED BY <1>2, <1>4, <1>5, <2>2, <3>3 DEF MemSummed
  <2> QED BY <2>1, <2>2
<1>8. ASSUME NEW s PROVE MemAsked(s)' = MemAsked(s) /\ SqlAsked(s)' = SqlAsked(s)
  BY <1>2, <1>3 DEF MemAsked, SqlAsked, QuestionsAbout
<1>9. MemCounts' /\ MemOneOpenCase'
  BY <1>1, <1>3 DEF MemCounts, MemOneOpenCase, Mem!OneOpenCase
<1>10. NothingAsked'
  BY <1>1, <1>3 DEF NothingAsked, MemAsked, QuestionsAbout
<1>11. StraysAgree'
  <2> SUFFICES ASSUME NEW z \in Outputs \ Unaddressed, deposits'[z].invoice \notin apart'
               PROVE  MemAsked(z)' = SqlAsked(z)'
    BY DEF StraysAgree
  <2>1. MemAsked(z) = SqlAsked(z)
    BY <1>1, <1>2 DEF StraysAgree
  <2> QED BY <1>8, <2>1
<1>12. InvoicesAgree'
  <2> SUFFICES ASSUME NEW y \in Orders, y \notin apart' PROVE Agree(y)'
    BY DEF InvoicesAgree
  <2>1. /\ memInvoices[y] = invoices[y] /\ EventsAbout(y, memEvents) = EventsAbout(y, events)
        /\ MemAsked(y) = SqlAsked(y)
    BY <1>1, <1>2 DEF InvoicesAgree, Agree
  <2>2. memInvoices'[y] = invoices'[y]
    BY <1>5, <2>1
  <2>3. EventsAbout(y, memEvents') = EventsAbout(y, events')
    BY <1>2, <1>3, <2>1 DEF EventsAbout
  <2>4. MemAsked(y)' = SqlAsked(y)'
    BY <1>8, <2>1
  <2> QED BY <2>2, <2>3, <2>4, AgreeAfter
<1>13. SameRows' /\ (apart \subseteq Orders)'
  BY <1>1, <1>2, <1>3 DEF SameRows, Kept
<1> QED BY <1>6, <1>7, <1>9, <1>10, <1>11, <1>12, <1>13 DEF Pair

\* A refund is written in both stores, with the same event.
LEMMA RefundParity ==
  ASSUME PInv, Inv', NEW r \in Refunds, NEW m \in Merchants, NEW o \in Orders \cup {Nobody},
         NEW status \in {"requested", "sent"}, BothCreateRefund(r, m, o, status)
  PROVE  Pair'
<1> DEFINE new == IF o = Nobody THEN {} ELSE {EventOf(o, refundEvent(status), r)}
<1>1. CreateRefund(r, m, o, status) /\ Mem!CreateRefund(r, m, o, status) /\ apart' = apart
  BY DEF BothCreateRefund
<1>2. UNCHANGED <<memInvoices, memReviews, memDeposits, memCursor, invoices, deposits, cursor, reviews>>
  BY <1>1 DEF CreateRefund, Mem!CreateRefund
<1>3. memCursor' = cursor' /\ memRefunds' = refunds'
  BY <1>1, <1>2 DEF PInv, Pair, SameRows, CreateRefund, Mem!CreateRefund
<1>4. events' = events \cup new /\ memEvents' = memEvents \cup new
  BY <1>1 DEF CreateRefund, Mem!CreateRefund, refundEvent, Mem!eventOf, EventOf
<1> HIDE DEF new
<1>5. ASSUME NEW y, EventsAbout(y, memEvents) = EventsAbout(y, events)
      PROVE  EventsAbout(y, memEvents') = EventsAbout(y, events')
  BY <1>4, <1>5 DEF EventsAbout
<1>6. ASSUME NEW s PROVE SqlAsked(s)' = SqlAsked(s)
  BY <1>2 DEF SqlAsked, QuestionsAbout
<1>7. /\ \A d \in Outputs \ Unaddressed : deposits'[d] = deposits[d] /\ SqlAsked(d)' = SqlAsked(d)
      /\ \A y \in Orders : SqlAsked(y)' = SqlAsked(y)
  BY <1>2, <1>6
<1> QED BY <1>1, <1>2, <1>3, <1>5, <1>7, QuietParity

\* A case closed in SQL is still a question that was asked.
LEMMA CloseSqlParity ==
  ASSUME PInv, Inv', NEW c \in reviews, CloseSql(c)
  PROVE  Pair'
<1>1. PICK status \in {"resolved", "rejected"} : CloseReview(c, status)
  BY DEF CloseSql, ResolveReviewCase, RejectReviewCase
<1> DEFINE closed == [c EXCEPT !.status = status]
<1>2. /\ reviews' = (reviews \ {c}) \cup {closed}
      /\ UNCHANGED <<invoices, deposits, cursor, events, refunds>>
  BY <1>1 DEF CloseReview
<1>3. UNCHANGED <<memInvoices, memReviews, memDeposits, memCursor, memEvents, memRefunds, apart>>
  BY DEF CloseSql, memVars
<1>4. closed.subject = c.subject /\ closed.reason = c.reason
  BY DEF PInv, Inv, Shape, Review
<1> HIDE DEF closed
<1>5. ASSUME NEW s PROVE SqlAsked(s)' = SqlAsked(s)
  BY <1>2, <1>4 DEF SqlAsked, QuestionsAbout
<1>6. /\ \A d \in Outputs \ Unaddressed : deposits'[d] = deposits[d] /\ SqlAsked(d)' = SqlAsked(d)
      /\ \A y \in Orders : SqlAsked(y)' = SqlAsked(y)
  BY <1>2, <1>5
<1>7. memCursor' = cursor' /\ memRefunds' = refunds'
  BY <1>2, <1>3 DEF PInv, Pair, SameRows
<1> QED BY <1>2, <1>3, <1>6, <1>7, QuietParity

\* So is one closed in memory.
LEMMA CloseMemParity ==
  ASSUME PInv, NEW c \in Mem!MemReview, CloseMem(c)
  PROVE  Pair'
<1>1. PICK status \in {"resolved", "rejected"} : Mem!closeReview(c, status)
  BY DEF CloseMem, Mem!ResolveReviewCase, Mem!RejectReviewCase
<1>2. UNCHANGED <<memInvoices, memDeposits, memCursor, memEvents, memRefunds,
                  invoices, deposits, cursor, events, refunds, reviews, apart>>
  BY <1>1 DEF CloseMem, Mem!closeReview, vars
<1>3. /\ Inv /\ SameRows /\ apart \subseteq Orders /\ MemRows /\ MemCounts /\ MemOneOpenCase
      /\ InvoicesAgree /\ StraysAgree /\ NothingAsked /\ \A y \in Orders : MemSummed(y)
  BY DEF PInv, Pair
<1>4. MemCounts' /\ MemOneOpenCase' /\ \A s : MemAsked(s)' = MemAsked(s)
  BY <1>1, <1>3, MemCloses
<1>5. ASSUME NEW s PROVE SqlAsked(s)' = SqlAsked(s)
  BY <1>2 DEF SqlAsked, QuestionsAbout
<1>6. MemRows' /\ SameRows' /\ (apart \subseteq Orders)'
  BY <1>2, <1>3 DEF MemRows, RowShape, SameRows, Kept
<1>7. \A y \in Orders : MemSummed(y)'
  BY <1>2, <1>3 DEF MemSummed
<1>8. NothingAsked'
  <2> SUFFICES ASSUME NEW z \in Unaddressed PROVE MemAsked(z)' = {}
    BY DEF NothingAsked
  <2>1. MemAsked(z)' = MemAsked(z)
    BY <1>4
  <2> QED BY <1>3, <2>1 DEF NothingAsked
<1>9. StraysAgree'
  <2> SUFFICES ASSUME NEW z \in Outputs \ Unaddressed, deposits'[z].invoice \notin apart'
               PROVE  MemAsked(z)' = SqlAsked(z)'
    BY DEF StraysAgree
  <2>1. MemAsked(z) = SqlAsked(z)
    BY <1>2, <1>3 DEF StraysAgree
  <2>2. MemAsked(z)' = MemAsked(z)
    BY <1>4
  <2> QED BY <1>5, <2>1, <2>2
<1>10. InvoicesAgree'
  <2> SUFFICES ASSUME NEW y \in Orders, y \notin apart' PROVE Agree(y)'
    BY DEF InvoicesAgree
  <2>1. /\ memInvoices[y] = invoices[y] /\ EventsAbout(y, memEvents) = EventsAbout(y, events)
        /\ MemAsked(y) = SqlAsked(y)
    BY <1>2, <1>3 DEF InvoicesAgree, Agree
  <2>2. MemAsked(y)' = MemAsked(y)
    BY <1>4
  <2>3. MemAsked(y)' = SqlAsked(y)'
    BY <1>5, <2>1, <2>2
  <2>4. memInvoices'[y] = invoices'[y] /\ EventsAbout(y, memEvents') = EventsAbout(y, events')
    BY <1>2, <2>1
  <2> QED BY <2>3, <2>4, AgreeAfter
<1> QED BY <1>4, <1>6, <1>7, <1>8, <1>9, <1>10 DEF Pair

---------------------------------------------------------------------------
(* The theorems *)

\* Both stores start empty.
LEMMA InitPInv == PInit => PInv
<1> SUFFICES ASSUME PInit PROVE PInv
  OBVIOUS
<1>1. Init /\ Mem!Init /\ apart = {}
  BY DEF PInit
<1>2. Inv
  BY <1>1, InitInv
<1>3. SameRows
  BY <1>1 DEF Init, Mem!Init, SameRows, Kept, Mem!NoDeposit, NoDeposit, Mem!NoRefund, NoRefund,
              Mem!Null, Null
<1>4. memInvoices = invoices /\ memEvents = events
  BY <1>1 DEF Init, Mem!Init, Mem!NoInvoice, NoInvoice, Mem!Null, Null
<1>5. MemRows
  BY <1>2, <1>4 DEF MemRows, Inv, Shape
<1>6. MemCounts /\ MemOneOpenCase
  BY <1>1 DEF Mem!Init, MemCounts, MemOneOpenCase, Mem!OneOpenCase
<1>7. ASSUME NEW s PROVE MemAsked(s) = {} /\ SqlAsked(s) = {}
  BY <1>1 DEF Mem!Init, Init, MemAsked, SqlAsked, QuestionsAbout
<1>8. ASSUME NEW o \in Orders PROVE MemSummed(o)
  <2>1. \A d \in Outputs : deposits[d].invoice # o
    BY <1>1 DEF Init, NoDeposit
  <2>2. \A statuses :
          {d \in Outputs : deposits[d].invoice = o /\ deposits[d].status \in statuses} = {}
    BY <2>1
  <2>3. \A statuses : Received(deposits, o, statuses) = 0
    BY <2>2, SumNone DEF Received
  <2>4. memInvoices[o].pending = 0 /\ memInvoices[o].confirmed = 0
    BY <1>1 DEF Mem!Init, Mem!NoInvoice
  <2> QED BY <2>3, <2>4 DEF MemSummed
<1>9. InvoicesAgree /\ StraysAgree /\ NothingAsked
  BY <1>4, <1>7 DEF InvoicesAgree, Agree, StraysAgree, NothingAsked
<1> QED BY <1>1, <1>2, <1>3, <1>5, <1>6, <1>8, <1>9 DEF PInv, Pair

\* A step of the pair is a step of the SQL store or leaves it alone.
LEMMA PairRefinesSql == [PNext]_allVars => [Next]_vars
<1>1. ASSUME NEW o \in Orders, NEW best \in 0..MaxHeight, BothCreateInvoice(o, best) PROVE Next
  BY <1>1 DEF BothCreateInvoice, Next
<1>2. ASSUME NEW e \in ScanEvents, BothApplyScanEvent(e) PROVE Next
  BY <1>2 DEF BothApplyScanEvent, Next
<1>3. ASSUME NEW best \in 0..MaxHeight, BothUpdateInvoiceConfirmations(best) PROVE Next
  BY <1>3 DEF BothUpdateInvoiceConfirmations, Next
<1>4. ASSUME NEW r \in Refunds, NEW m \in Merchants, NEW o \in Orders \cup {Nobody},
             NEW status \in {"requested", "sent"}, BothCreateRefund(r, m, o, status)
      PROVE  Next
  BY <1>4 DEF BothCreateRefund, Next
<1>5. ASSUME NEW c \in reviews, CloseSql(c) PROVE Next
  BY <1>5 DEF CloseSql, Next
<1>6. ASSUME NEW c \in Mem!MemReview, CloseMem(c) PROVE UNCHANGED vars
  BY <1>6 DEF CloseMem
<1>7. BothTick => Next \/ UNCHANGED vars
  BY DEF BothTick, Next
<1>8. UNCHANGED allVars => UNCHANGED vars
  BY DEF allVars
<1> QED BY <1>1, <1>2, <1>3, <1>4, <1>5, <1>6, <1>7, <1>8 DEF PNext

\* Every call preserves the invariant.
LEMMA PNextInv == PInv /\ [PNext]_allVars => PInv'
<1> SUFFICES ASSUME PInv, [PNext]_allVars PROVE Inv' /\ Pair'
  BY DEF PInv
<1>1. Inv'
  BY PairRefinesSql, NextInv DEF PInv
<1>2. ASSUME NEW o \in Orders, NEW best \in 0..MaxHeight, BothCreateInvoice(o, best) PROVE Pair'
  BY <1>1, <1>2, CreateParity
<1>3. ASSUME NEW e \in ScanEvents, BothApplyScanEvent(e) PROVE Pair'
  BY <1>1, <1>3, ScanParity
<1>4. ASSUME NEW best \in 0..MaxHeight, BothUpdateInvoiceConfirmations(best) PROVE Pair'
  BY <1>1, <1>4, ConfirmationsParity
<1>5. ASSUME NEW r \in Refunds, NEW m \in Merchants, NEW o \in Orders \cup {Nobody},
             NEW status \in {"requested", "sent"}, BothCreateRefund(r, m, o, status)
      PROVE  Pair'
  BY <1>1, <1>5, RefundParity
<1>6. ASSUME NEW c \in reviews, CloseSql(c) PROVE Pair'
  BY <1>1, <1>6, CloseSqlParity
<1>7. ASSUME NEW c \in Mem!MemReview, CloseMem(c) PROVE Pair'
  BY <1>7, CloseMemParity
<1>8. CASE BothTick \/ UNCHANGED allVars
  <2>1. UNCHANGED <<memInvoices, memReviews, memDeposits, memCursor, memEvents, memRefunds,
                    invoices, deposits, cursor, events, refunds, reviews, apart>>
    BY <1>8 DEF BothTick, Tick, Mem!Tick, allVars, vars, memVars
  <2>2. ASSUME NEW s PROVE SqlAsked(s)' = SqlAsked(s)
    BY <2>1 DEF SqlAsked, QuestionsAbout
  <2>3. /\ \A d \in Outputs \ Unaddressed : deposits'[d] = deposits[d] /\ SqlAsked(d)' = SqlAsked(d)
        /\ \A y \in Orders : SqlAsked(y)' = SqlAsked(y)
    BY <2>1, <2>2
  <2>4. memCursor' = cursor' /\ memRefunds' = refunds'
    BY <2>1 DEF PInv, Pair, SameRows
  <2> QED BY <1>1, <2>1, <2>3, <2>4, QuietParity
<1>9. Pair'
  BY <1>2, <1>3, <1>4, <1>5, <1>6, <1>7, <1>8 DEF PNext
<1> QED BY <1>1, <1>9

\* The invariant of the pair holds in every reachable state.
THEOREM PInvHolds == PSpec => []PInv
  BY InitPInv, PNextInv, PTL DEF PSpec

\* What a test sees on the in-memory store is what SQL would have shown it, for every
\* order of scan events, confirmations, refunds, ticks and decisions: deposits with an
\* address always, an invoice until it is recomputed for a deposit reported at or below
\* created_after_height or in the rest of the second in which it expired.
THEOREM ParityHolds == PSpec => []Parity
<1>1. ASSUME PInv PROVE Parity
  <2>1. /\ memCursor = cursor /\ memRefunds = refunds /\ memDeposits = Kept(deposits)
        /\ InvoicesAgree /\ StraysAgree /\ NothingAsked
    BY <1>1 DEF PInv, Pair, SameRows
  <2>2. /\ \A d \in Outputs \ Unaddressed : memDeposits[d] = deposits[d]
        /\ \A d \in Unaddressed : memDeposits[d] = NoDeposit
    BY <2>1, UnaddressedAssumption DEF Kept
  <2> QED BY <2>1, <2>2 DEF Parity, InvoicesAgree, Agree, StraysAgree, NothingAsked
<1> QED BY <1>1, PInvHolds, PTL

\* The in-memory sums are those of the credited deposits, with no exception for
\* notes that a reorganisation moved.
THEOREM MemAggregatesHolds == PSpec => []MemAggregates
<1>1. PInv => MemAggregates
  <2> SUFFICES ASSUME PInv, NEW o \in Orders
               PROVE  LET mine == {d \in Outputs : memDeposits[d].invoice = o}
                      IN  /\ memInvoices[o].pending = Mem!SumAmounts(
                               {d \in mine : memDeposits[d].status \in {"detected", "unconfirmed"}})
                          /\ memInvoices[o].confirmed = Mem!SumAmounts(
                               {d \in mine : memDeposits[d].status = "confirmed"})
    BY DEF MemAggregates, Mem!AggregatesExact
  <2> DEFINE mine == {d \in Outputs : memDeposits[d].invoice = o}
             held == {d \in mine : memDeposits[d].status \in {"detected", "unconfirmed"}}
             paid == {d \in mine : memDeposits[d].status = "confirmed"}
  <2>0. \A d \in Unaddressed : deposits[d].invoice # o
    BY UnaddressedUncredited DEF PInv
  <2>1. memDeposits = Kept(deposits) /\ MemSummed(o)
    BY DEF PInv, Pair, SameRows
  <2>2. /\ Received(memDeposits, o, {"detected", "unconfirmed"})
             = Received(deposits, o, {"detected", "unconfirmed"})
        /\ Received(memDeposits, o, {"confirmed"}) = Received(deposits, o, {"confirmed"})
    BY <2>0, <2>1, KeptSum
  <2>3. /\ held = {d \in Outputs : /\ memDeposits[d].invoice = o
                                   /\ memDeposits[d].status \in {"detected", "unconfirmed"}}
        /\ paid = {d \in Outputs : /\ memDeposits[d].invoice = o
                                   /\ memDeposits[d].status \in {"confirmed"}}
    OBVIOUS
  <2> HIDE DEF held, paid
  <2>4. memInvoices[o].pending = SumAmounts(held) /\ memInvoices[o].confirmed = SumAmounts(paid)
    BY <2>1, <2>2, <2>3 DEF MemSummed, Received
  <2>5. Mem!SumAmounts(held) = SumAmounts(held) /\ Mem!SumAmounts(paid) = SumAmounts(paid)
    BY SameSum
  <2> QED BY <2>4, <2>5 DEF held, paid
<1> QED BY <1>1, PInvHolds, PTL

\* createReviewCaseLocked never has the same question open twice.
THEOREM MemOneOpenCaseHolds == PSpec => []MemOneOpenCase
<1>1. PInv => MemOneOpenCase
  BY DEF PInv, Pair
<1> QED BY <1>1, PInvHolds, PTL
=============================================================================
