---------------------------- MODULE EventStream ----------------------------
(***************************************************************************)
(* How a customer's browser follows an invoice: table invoice_events with  *)
(* its growing ids, the two readers of it (GET .../events with a cursor,   *)
(* GET .../stream over SSE) and the checkout hook useJunoPayInvoice, which *)
(* polls the first one, drops answers of a view that is gone and keeps the *)
(* cursor.                                                                 *)
(*                                                                         *)
(* An event gets its id when it is inserted and is seen when its           *)
(* transaction commits.  With Serialized one transaction is open at a time *)
(* (SQLite's one connection, the mutex of the in-memory store, the counter *)
(* document of MongoDB, which lets one transaction through); without it    *)
(* (PostgreSQL, MySQL) a smaller id may become visible after a larger one. *)
(***************************************************************************)
EXTENDS Integers, Sequences, FiniteSets, Functions

CONSTANTS
    Invoices,
    Writers,        \* what inserts events: the ingest loop, the admin API
    Serialized,
    PageLimit,      \* 100 in the code
    MaxId, MaxDisturbances  \* bounds: events; lost answers, re-renders, switches, drops

ASSUME StreamAssumption ==
    /\ Serialized \in BOOLEAN
    /\ PageLimit \in Nat \ {0}
    /\ MaxId \in Nat /\ MaxDisturbances \in Nat

VARIABLES
    nextId,
    rows,       \* committed rows of invoice_events
    txs,        \* Writers -> rows inserted and not committed
    view,       \* the hook: invoice shown, cursorRef, events, cursor it started from
    saved,      \* Invoices -> the next_cursor its caller keeps for the next view
    flight,     \* the hook's request in progress
    sse,        \* one SSE connection
    disturbances

vars == <<nextId, rows, txs, view, saved, flight, sse, disturbances>>
table == <<nextId, rows, txs>>

Row == [id : 1..MaxId, invoice : Invoices]
Nowhere == [pc |-> "idle", invoice |-> CHOOSE i \in Invoices : TRUE, cursor |-> 0,
            stopped |-> FALSE, page |-> <<>>, next |-> 0]
NoStream == [pc |-> "closed", invoice |-> CHOOSE i \in Invoices : TRUE, from |-> 0,
             afterID |-> 0, page |-> <<>>, sent |-> <<>>]

Init ==
    /\ nextId = 1
    /\ rows = {}
    /\ txs = [w \in Writers |-> {}]
    /\ view \in [invoice : Invoices, cursor : {0}, events : {<<>>}, from : {0}]
    /\ saved = [i \in Invoices |-> 0]
    /\ flight = Nowhere
    /\ sse = NoStream
    /\ disturbances = 0

Disturb == disturbances < MaxDisturbances /\ disturbances' = disturbances + 1

---------------------------------------------------------------------------
(***************************************************************************)
(* The table                                                               *)
(***************************************************************************)

\* insertInvoiceEventTx inside the transaction of writer w.
InsertEvent(w, i) ==
    /\ nextId <= MaxId
    /\ Serialized => \A v \in Writers \ {w} : txs[v] = {}
    /\ txs' = [txs EXCEPT ![w] = @ \cup {[id |-> nextId, invoice |-> i]}]
    /\ nextId' = nextId + 1
    /\ UNCHANGED <<rows, view, saved, flight, sse, disturbances>>

Commit(w) ==
    /\ txs[w] # {}
    /\ rows' = rows \cup txs[w]
    /\ txs' = [txs EXCEPT ![w] = {}]
    /\ UNCHANGED <<nextId, view, saved, flight, sse, disturbances>>

\* The ids are used up.
Rollback(w) ==
    /\ txs[w] # {}
    /\ Disturb
    /\ txs' = [txs EXCEPT ![w] = {}]
    /\ UNCHANGED <<nextId, rows, view, saved, flight, sse>>

\* The place of x in the order of ids, and ORDER BY id: row k has k - 1 before it.
Rank(x, ids) == Cardinality({y \in ids : y < x})
OrderById(ids) == [k \in 1..Cardinality(ids) |-> CHOOSE x \in ids : Rank(x, ids) = k - 1]

\* Mutant of ListInvoiceEvents: the newest rows, not the oldest, fill the page.
ListInvoiceEventsNewest(i, after) ==
    LET ids  == {r.id : r \in {q \in rows : q.invoice = i /\ q.id > after}}
        kept == {x \in ids : Cardinality({y \in ids : y > x}) < PageLimit}
    IN  OrderById(kept)

\* Mutant of ListInvoiceEvents: the limit is taken before the invoice is looked at.
ListInvoiceEventsLimitFirst(i, after) ==
    LET above == {r \in rows : r.id > after}
        kept  == {r \in above : Cardinality({q \in above : q.id < r.id}) < PageLimit}
    IN  OrderById({r.id : r \in {q \in kept : q.invoice = i}})

\* SELECT ... WHERE invoice_id = i AND id > after ORDER BY id LIMIT PageLimit
ListInvoiceEvents(i, after) ==
    LET ids  == {r.id : r \in {q \in rows : q.invoice = i /\ q.id > after}}
    IN  OrderById({x \in ids : Rank(x, ids) < PageLimit})

\* Mutant of nextCursor: the id after the last one.
nextCursorPast(page) == IF page = <<>> THEN 0 ELSE page[Len(page)] + 1

\* nextCursor: the last id of the page, 0 when the page is empty.
nextCursor(page) == IF page = <<>> THEN 0 ELSE page[Len(page)]

---------------------------------------------------------------------------
(***************************************************************************)
(* The checkout hook                                                       *)
(***************************************************************************)

\* tick: nothing is in flight, whichever view sent it.
HookTick ==
    /\ flight.pc = "idle"
    /\ flight' = [Nowhere EXCEPT !.pc = "asked", !.invoice = view.invoice,
                                 !.cursor = view.cursor]
    /\ UNCHANGED <<table, view, saved, sse, disturbances>>

\* handleListPublicInvoiceEvents
ServeEvents ==
    /\ flight.pc = "asked"
    /\ LET page == ListInvoiceEvents(flight.invoice, flight.cursor)
       IN  flight' = [flight EXCEPT !.pc = "answered", !.page = page, !.next = nextCursor(page)]
    /\ UNCHANGED <<table, view, saved, sse, disturbances>>

\* Mutant of HookReceive: nobody asks whether the view is still there.
HookReceiveStale ==
    /\ flight.pc = "answered"
    /\ flight' = Nowhere
    /\ LET cursor == IF flight.next # 0 THEN flight.next ELSE view.cursor
       IN  /\ view' = [view EXCEPT !.events = @ \o flight.page, !.cursor = cursor]
           /\ saved' = [saved EXCEPT ![view.invoice] = cursor]
    /\ UNCHANGED <<table, sse, disturbances>>

\* Mutant of HookReceive: a stopped view leaves inflightRef set.
HookReceiveStuck ==
    /\ flight.pc = "answered"
    /\ ~flight.stopped
    /\ flight' = Nowhere
    /\ LET cursor == IF flight.next # 0 THEN flight.next ELSE view.cursor
       IN  /\ view' = [view EXCEPT !.events = @ \o flight.page, !.cursor = cursor]
           /\ saved' = [saved EXCEPT ![view.invoice] = cursor]
    /\ UNCHANGED <<table, sse, disturbances>>

\* The answer is applied, unless its view was stopped; next_cursor "0" is ignored.
HookReceive ==
    /\ flight.pc = "answered"
    /\ flight' = Nowhere
    /\ LET cursor == IF flight.next # 0 THEN flight.next ELSE view.cursor
       IN  IF flight.stopped
           THEN UNCHANGED <<view, saved>>
           ELSE /\ view' = [view EXCEPT !.events = @ \o flight.page, !.cursor = cursor]
                /\ saved' = [saved EXCEPT ![view.invoice] = cursor]
    /\ UNCHANGED <<table, sse, disturbances>>

\* The request or its answer is lost, or the server answers an error.
HookLost ==
    /\ flight.pc # "idle"
    /\ Disturb
    /\ flight' = Nowhere
    /\ UNCHANGED <<table, view, saved, sse>>

\* The polling effect runs again for the same invoice (another client object).
HookRerun ==
    /\ flight.pc # "idle"
    /\ Disturb
    /\ flight' = [flight EXCEPT !.stopped = TRUE]
    /\ UNCHANGED <<table, view, saved, sse>>

\* The page turns to another invoice: events are cleared and the cursor starts
\* from what the caller kept for it.
HookSwitch(i) ==
    /\ i # view.invoice
    /\ Disturb
    /\ view' = [invoice |-> i, cursor |-> saved[i], events |-> <<>>, from |-> saved[i]]
    /\ flight' = IF flight.pc = "idle" THEN flight ELSE [flight EXCEPT !.stopped = TRUE]
    /\ UNCHANGED <<table, saved, sse>>

---------------------------------------------------------------------------
(***************************************************************************)
(* The SSE connection                                                      *)
(***************************************************************************)

\* handleStreamPublicInvoiceEvents up to its loop; the client asks for any cursor.
StreamOpen(i, cursor) ==
    /\ sse.pc = "closed"
    /\ sse' = [pc |-> "wait", invoice |-> i, from |-> cursor, afterID |-> cursor,
               page |-> <<>>, sent |-> <<>>]
    /\ UNCHANGED <<table, view, saved, flight, disturbances>>

\* The ticker fires: one page is read, and an empty one is passed over.  (afterID
\* moves once the page is written; nobody reads it before.)
StreamPoll ==
    /\ sse.pc = "wait"
    /\ LET page == ListInvoiceEvents(sse.invoice, sse.afterID)
       IN  /\ page # <<>>
           /\ sse' = [sse EXCEPT !.pc = "send", !.page = page, !.afterID = nextCursor(page)]
    /\ UNCHANGED <<table, view, saved, flight, disturbances>>

\* One event is written.
StreamSend ==
    /\ sse.pc = "send"
    /\ sse' = [sse EXCEPT !.sent = Append(@, Head(sse.page)), !.page = Tail(@),
                          !.pc = IF Len(sse.page) = 1 THEN "wait" ELSE "send"]
    /\ UNCHANGED <<table, view, saved, flight, disturbances>>

\* The client goes away or the query fails.
StreamClose ==
    /\ sse.pc # "closed"
    /\ Disturb
    /\ sse' = NoStream
    /\ UNCHANGED <<table, view, saved, flight>>

Next ==
    \/ \E w \in Writers, i \in Invoices : InsertEvent(w, i)
    \/ \E w \in Writers : Commit(w) \/ Rollback(w)
    \/ HookTick \/ ServeEvents \/ HookReceive \/ HookLost \/ HookRerun
    \/ \E i \in Invoices : HookSwitch(i)
    \/ \E i \in Invoices, cursor \in 0..MaxId : StreamOpen(i, cursor)
    \/ StreamPoll \/ StreamSend \/ StreamClose

\* The timers of the hook and of the stream fire again and again, and the server
\* answers.
Fairness ==
    /\ WF_vars(HookTick) /\ WF_vars(ServeEvents) /\ WF_vars(HookReceive)
    /\ WF_vars(StreamPoll) /\ WF_vars(StreamSend)

Spec == Init /\ [][Next]_vars /\ Fairness

---------------------------------------------------------------------------
(***************************************************************************)
(* Properties                                                              *)
(***************************************************************************)

\* Rows, views and connections have their shape.
TypeOK ==
    /\ nextId \in 1..(MaxId + 1)
    /\ rows \subseteq Row
    /\ txs \in [Writers -> SUBSET Row]
    /\ view \in [invoice : Invoices, cursor : 0..MaxId, events : Seq(1..MaxId), from : 0..MaxId]
    /\ saved \in [Invoices -> 0..MaxId]
    /\ flight \in [pc : {"idle", "asked", "answered"}, invoice : Invoices, cursor : 0..MaxId,
                   stopped : BOOLEAN, page : Seq(1..MaxId), next : 0..MaxId]
    /\ sse \in [pc : {"closed", "wait", "send"}, invoice : Invoices, from : 0..MaxId,
                afterID : 0..MaxId, page : Seq(1..MaxId), sent : Seq(1..MaxId)]
    /\ disturbances \in 0..MaxDisturbances

\* The committed events of invoice i after `from`, up to and including `upto`.
Between(i, from, upto) == {r.id : r \in {q \in rows : q.invoice = i /\ q.id > from /\ q.id <= upto}}

\* What the customer sees is the invoice's own history: events of this invoice, in
\* order, each once, and none left out before the last one shown, through lost
\* answers, re-renders and switching between invoices while a request is out.
HistoryExact ==
    /\ \A k, n \in DOMAIN view.events : k < n => view.events[k] < view.events[n]
    /\ Range(view.events) = Between(view.invoice, view.from, view.cursor)

\* The same for one SSE connection, event by event while a page is being written.
StreamExact ==
    LET all == sse.sent \o sse.page
    IN  /\ \A k, n \in DOMAIN all : k < n => all[k] < all[n]
        /\ Range(all) = Between(sse.invoice, sse.from, sse.afterID)

\* Every committed event of the invoice on screen is shown in the end, unless the
\* customer turns to another invoice (or has seen it in an earlier view).
EventuallyShown ==
    \A i \in Invoices, x \in 1..MaxId :
        ([id |-> x, invoice |-> i] \in rows /\ view.invoice = i /\ x > view.from)
            ~> (x \in Range(view.events) \/ view.invoice # i)

\* Every committed event is written to an open connection that asked for it.
EventuallyStreamed ==
    \A i \in Invoices, x \in 1..MaxId :
        ([id |-> x, invoice |-> i] \in rows /\ sse.pc # "closed" /\ sse.invoice = i /\ x > sse.from)
            ~> (x \in Range(sse.sent) \/ sse.pc = "closed")
============================================================================
