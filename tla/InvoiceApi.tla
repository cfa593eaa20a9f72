---------------------------- MODULE InvoiceApi ----------------------------
(***************************************************************************)
(* POST /v1/invoices (handleCreateInvoice) of one merchant, with requests  *)
(* running side by side: reserve an address index, derive the address,     *)
(* read the tip, insert the invoice, then create or fetch its checkout     *)
(* token.  Every store call is a transaction of its own, so other requests,*)
(* a failed call or a crash may come between any two of them.              *)
(*                                                                         *)
(* Addresses are identified with their index (derivation is injective).    *)
(* With Serialized the store is SQLite, whose one connection runs          *)
(* transactions one after the other; without it the SELECT and the UPDATE  *)
(* of NextAddressIndex interleave with those of other requests, as they do *)
(* under the default isolation of PostgreSQL and MySQL.                    *)
(***************************************************************************)
EXTENDS Integers, FiniteSets

CONSTANTS
    Requests, Orders,
    OrderOf, AmountOf,  \* what a request asks for
    Serialized,
    Nothing,
    MaxFaults           \* failed calls and crashes

ASSUME RequestsAssumption ==
    /\ OrderOf \in [Requests -> Orders]
    /\ AmountOf \in [Requests -> Nat \ {0}]
    /\ Serialized \in BOOLEAN
    /\ Nothing \notin Requests
    /\ MaxFaults \in Nat

VARIABLES
    nextIndex,  \* merchant_wallets.next_address_index
    invoices,   \* Orders -> row of table invoices
    tokens,     \* Orders -> the token in table invoice_tokens: the request that made it
    req,        \* Requests -> the handler's program counter, locals and answer
    faults

vars == <<nextIndex, invoices, tokens, req, faults>>

NoInvoice == [exists |-> FALSE, index |-> 0, amount |-> 0]
NewRequest == [pc |-> "start", index |-> 0, answer |-> "none", token |-> Nothing]

Init ==
    /\ nextIndex = 0
    /\ invoices = [o \in Orders |-> NoInvoice]
    /\ tokens = [o \in Orders |-> Nothing]
    /\ req = [r \in Requests |-> NewRequest]
    /\ faults = 0

---------------------------------------------------------------------------
Goto(r, pc) == req' = [req EXCEPT ![r] = [@ EXCEPT !.pc = pc]]

Answer(r, status, token) ==
    req' = [req EXCEPT ![r] = [@ EXCEPT !.pc = "done", !.answer = status, !.token = token]]

\* The API key, the request body, the merchant and its wallet are in order.
Accept(r) ==
    /\ req[r].pc = "start"
    /\ Goto(r, "index")
    /\ UNCHANGED <<nextIndex, invoices, tokens, faults>>

\* NextAddressIndex: SELECT next_address_index ..., which SQLite starts only when
\* no other transaction is open ...
ReadIndex(r) ==
    /\ req[r].pc = "index"
    /\ Serialized => \A q \in Requests : req[q].pc # "bump"
    /\ req' = [req EXCEPT ![r] = [@ EXCEPT !.pc = "bump", !.index = nextIndex]]
    /\ UNCHANGED <<nextIndex, invoices, tokens, faults>>

\* ... and UPDATE ... SET next_address_index = next_address_index + 1.
BumpIndex(r) ==
    /\ req[r].pc = "bump"
    /\ nextIndex' = nextIndex + 1
    /\ Goto(r, "create")
    /\ UNCHANGED <<invoices, tokens, faults>>

\* Mutants of UniqueViolation: one of the two indexes is missing.
UniqueOrderOnly(r) == invoices[OrderOf[r]].exists
UniqueAddressOnly(r) ==
    \E o \in Orders : invoices[o].exists /\ invoices[o].index = req[r].index

\* UNIQUE (merchant_id, external_order_id_hash), UNIQUE (wallet_id, address_hash)
UniqueViolation(r) ==
    \E o \in Orders : invoices[o].exists /\ (o = OrderOf[r] \/ invoices[o].index = req[r].index)

\* CreateInvoice: the row is new.
Insert(r) ==
    /\ req[r].pc = "create"
    /\ ~UniqueViolation(r)
    /\ invoices' = [invoices EXCEPT ![OrderOf[r]] =
            [exists |-> TRUE, index |-> req[r].index, amount |-> AmountOf[r]]]
    /\ Goto(r, "put")
    /\ UNCHANGED <<nextIndex, tokens, faults>>

\* The stored invoice that CreateInvoice accepts as the same request.
SameInvoice(r) ==
    LET inv == invoices[OrderOf[r]]
    IN  inv.exists /\ inv.amount = AmountOf[r] /\ inv.index = req[r].index

\* Mutant of Replay: the repeated request makes a token of its own.
ReplayNewToken(r) ==
    /\ req[r].pc = "create"
    /\ UniqueViolation(r)
    /\ SameInvoice(r)
    /\ Goto(r, "put")
    /\ UNCHANGED <<nextIndex, invoices, tokens, faults>>

\* CreateInvoice: the row exists, and so does the invoice of this request ...
Replay(r) ==
    /\ req[r].pc = "create"
    /\ UniqueViolation(r)
    /\ SameInvoice(r)
    /\ Goto(r, "get")
    /\ UNCHANGED <<nextIndex, invoices, tokens, faults>>

\* Mutant of Conflict: only another amount is a conflict.
ConflictAmount(r) ==
    /\ req[r].pc = "create"
    /\ UniqueViolation(r)
    /\ invoices[OrderOf[r]].amount # AmountOf[r]
    /\ Answer(r, "409", Nothing)
    /\ UNCHANGED <<nextIndex, invoices, tokens, faults>>

\* ... or it is another one: ErrConflict, 409.
Conflict(r) ==
    /\ req[r].pc = "create"
    /\ UniqueViolation(r)
    /\ ~SameInvoice(r)
    /\ Answer(r, "409", Nothing)
    /\ UNCHANGED <<nextIndex, invoices, tokens, faults>>

\* NewInvoiceToken and PutInvoiceToken, 201.
PutInvoiceToken(r) ==
    /\ req[r].pc = "put"
    /\ tokens' = [tokens EXCEPT ![OrderOf[r]] = r]
    /\ Answer(r, "201", r)
    /\ UNCHANGED <<nextIndex, invoices, faults>>

\* GetInvoiceToken, 200, or 500 "invoice token missing".
GetInvoiceToken(r) ==
    /\ req[r].pc = "get"
    /\ IF tokens[OrderOf[r]] = Nothing
       THEN Answer(r, "500", Nothing)
       ELSE Answer(r, "200", tokens[OrderOf[r]])
    /\ UNCHANGED <<nextIndex, invoices, tokens, faults>>

\* A store call, the address derivation or the node fails, or the ten seconds
\* are over: 500, and what is committed stays.
CallFails(r) ==
    /\ faults < MaxFaults
    /\ faults' = faults + 1
    /\ req[r].pc \notin {"start", "done"}
    /\ Answer(r, "500", Nothing)
    /\ UNCHANGED <<nextIndex, invoices, tokens>>

\* The process dies; the requests in progress get no answer.
Crash ==
    /\ faults < MaxFaults
    /\ faults' = faults + 1
    /\ req' = [r \in Requests |->
            IF req[r].pc \in {"start", "done"} THEN req[r]
            ELSE [req[r] EXCEPT !.pc = "done", !.answer = "lost"]]
    /\ UNCHANGED <<nextIndex, invoices, tokens>>

Handle(r) ==
    \/ Accept(r) \/ ReadIndex(r) \/ BumpIndex(r)
    \/ Insert(r) \/ Replay(r) \/ Conflict(r)
    \/ PutInvoiceToken(r) \/ GetInvoiceToken(r)

Next ==
    \/ \E r \in Requests :
          \/ Accept(r) \/ ReadIndex(r) \/ BumpIndex(r)
          \/ Insert(r) \/ Replay(r) \/ Conflict(r)
          \/ PutInvoiceToken(r) \/ GetInvoiceToken(r)
          \/ CallFails(r)
    \/ Crash

\* A handler goroutine runs to its end.
Spec == Init /\ [][Next]_vars /\ \A r \in Requests : WF_vars(Handle(r))

---------------------------------------------------------------------------
(***************************************************************************)
(* Properties                                                              *)
(***************************************************************************)

\* Rows and handlers have their shape.
TypeOK ==
    /\ nextIndex \in Nat
    /\ invoices \in [Orders -> [exists : BOOLEAN, index : Nat, amount : Nat]]
    /\ tokens \in [Orders -> Requests \cup {Nothing}]
    /\ req \in [Requests ->
            [pc : {"start", "index", "bump", "create", "put", "get", "done"}, index : Nat,
             answer : {"none", "201", "200", "409", "500", "lost"},
             token : Requests \cup {Nothing}]]
    /\ faults \in 0..MaxFaults

\* Deposits find their invoice by address: no two invoices share one, even when
\* two requests were handed the same index.
AddressUnique ==
    \A o, p \in Orders :
        invoices[o].exists /\ invoices[p].exists /\ invoices[o].index = invoices[p].index => o = p

\* A checkout token handed to a client opens its invoice for good: it is the one
\* in the store, whoever asked and whatever came after.
TokenHolds ==
    \A r \in Requests : req[r].answer \in {"200", "201"} =>
        /\ invoices[OrderOf[r]].exists
        /\ invoices[OrderOf[r]].amount = AmountOf[r]
        /\ req[r].token = tokens[OrderOf[r]]
        /\ req[r].token # Nothing

\* Only one request for an order is told that it created the invoice.
CreatedOnce ==
    \A r, q \in Requests :
        req[r].answer = "201" /\ req[q].answer = "201" /\ OrderOf[r] = OrderOf[q] => r = q

\* A request repeated with the same external_order_id and amount is not refused:
\* it gets the existing invoice.
RetryGetsInvoice ==
    \A r \in Requests : req[r].answer = "409" =>
        ~(invoices[OrderOf[r]].exists /\ invoices[OrderOf[r]].amount = AmountOf[r])

\* Every request that was accepted is answered or dies with the process.
EveryAnswered == \A r \in Requests : req[r].pc = "index" ~> req[r].pc = "done"
===========================================================================
