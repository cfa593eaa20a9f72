-------------------------- MODULE InvoiceApiProofs --------------------------
(***************************************************************************)
(* What concurrent invoice requests are promised, for any number of        *)
(* requests and orders, on a serialised or a pooled database, with any     *)
(* number of failing calls and crashes.                                    *)
(***************************************************************************)
EXTENDS InvoiceApi, TLAPS

USE RequestsAssumption

\* The request has inserted its invoice and is about to store the token, or has
\* told its client so.
Creating(r) == req[r].pc = "put" \/ req[r].answer = "201"

\* An answer is given at the end only.
AnswersLast == \A r \in Requests : req[r].pc # "done" => req[r].answer = "none"

\* A token belongs to an invoice.
TokensOwned == \A o \in Orders : tokens[o] # Nothing => invoices[o].exists

\* A handler past the insert has an invoice with its amount, and the creator finds
\* no token there yet.
HandlersSound ==
    \A r \in Requests : req[r].pc \in {"put", "get"} =>
        /\ invoices[OrderOf[r]].exists
        /\ invoices[OrderOf[r]].amount = AmountOf[r]
        /\ req[r].pc = "put" => tokens[OrderOf[r]] = Nothing

\* Not only one 201: one creator from the insert on.
OneCreator ==
    \A r, q \in Requests : Creating(r) /\ Creating(q) /\ OrderOf[r] = OrderOf[q] => r = q

\* The inductive invariant.
Inv ==
    /\ TypeOK
    /\ AddressUnique
    /\ TokenHolds
    /\ AnswersLast
    /\ TokensOwned
    /\ HandlersSound
    /\ OneCreator

\* A row of table invoices and the state of a handler.
InvoiceRow == [exists : BOOLEAN, index : Nat, amount : Nat]
HandlerRow ==
    [pc : {"start", "index", "bump", "create", "put", "get", "done"}, index : Nat,
     answer : {"none", "201", "200", "409", "500", "lost"},
     token : Requests \cup {Nothing}]

---------------------------------------------------------------------------
\* Nothing has been asked for yet.
LEMMA InitInv == Init => Inv
<1> SUFFICES ASSUME Init PROVE Inv
  OBVIOUS
<1>1. \A r \in Requests : req[r] = NewRequest
  BY DEF Init
<1>2. \A o \in Orders : invoices[o] = NoInvoice /\ tokens[o] = Nothing
  BY DEF Init
<1>3. TypeOK
  BY DEF Init, TypeOK, NoInvoice, NewRequest
<1> QED BY <1>1, <1>2, <1>3 DEF Inv, AddressUnique, TokenHolds, AnswersLast, TokensOwned,
              HandlersSound, OneCreator, Creating, NoInvoice, NewRequest

\* A handler that moves on, or ends, without touching invoices and tokens.  The
\* conditions say what it may claim: the right to read a token, or one it has read.
LEMMA HandlerStep ==
  ASSUME Inv, NEW r \in Requests, NEW ACTION row, row \in HandlerRow,
         req' = [req EXCEPT ![r] = row],
         invoices' = invoices, tokens' = tokens, nextIndex' \in Nat, faults' \in 0..MaxFaults,
         row.pc # "put", row.answer # "201",
         row.pc # "done" => row.answer = "none",
         row.pc = "get" => /\ invoices[OrderOf[r]].exists
                           /\ invoices[OrderOf[r]].amount = AmountOf[r],
         row.answer = "200" => /\ invoices[OrderOf[r]].exists
                               /\ invoices[OrderOf[r]].amount = AmountOf[r]
                               /\ row.token = tokens[OrderOf[r]]
                               /\ row.token # Nothing
  PROVE  Inv'
<1>1. req \in [Requests -> HandlerRow]
  BY DEF Inv, TypeOK, HandlerRow
<1>2. req'[r] = row /\ \A q \in Requests : q # r => req'[q] = req[q]
  BY <1>1
<1>3. TypeOK'
  <2>1. req' \in [Requests -> HandlerRow]
    BY <1>1
  <2> QED BY <2>1 DEF Inv, TypeOK, HandlerRow
<1>4. AddressUnique' /\ TokensOwned'
  BY DEF Inv, AddressUnique, TokensOwned
<1>5. TokenHolds'
  <2> SUFFICES ASSUME NEW q \in Requests, req'[q].answer \in {"200", "201"}
               PROVE  /\ invoices[OrderOf[q]].exists
                      /\ invoices[OrderOf[q]].amount = AmountOf[q]
                      /\ req'[q].token = tokens[OrderOf[q]]
                      /\ req'[q].token # Nothing
    BY DEF TokenHolds
  <2>1. CASE q = r
    BY <1>2, <2>1
  <2>2. CASE q # r
    BY <1>2, <2>2 DEF Inv, TokenHolds
  <2> QED BY <2>1, <2>2
<1>6. AnswersLast'
  BY <1>2 DEF Inv, AnswersLast
<1>7. HandlersSound'
  BY <1>2 DEF Inv, HandlersSound
<1>8. OneCreator'
  BY <1>2 DEF Inv, OneCreator, Creating
<1> QED BY <1>3, <1>4, <1>5, <1>6, <1>7, <1>8 DEF Inv

\* The shape of a handler's state, for the EXCEPTs below.
LEMMA HandlerFields ==
  ASSUME Inv, NEW r \in Requests
  PROVE  req[r] \in HandlerRow
  BY DEF Inv, TypeOK, HandlerRow

\* An answer other than 200 and 201.
LEMMA RefuseInv ==
  ASSUME Inv, NEW r \in Requests, NEW status \in {"409", "500"}, Answer(r, status, Nothing),
         invoices' = invoices, tokens' = tokens, nextIndex' = nextIndex, faults' \in 0..MaxFaults
  PROVE  Inv'
<1> DEFINE row == [req[r] EXCEPT !.pc = "done", !.answer = status, !.token = Nothing]
<1>1. req' = [req EXCEPT ![r] = row]
  BY Zenon DEF Answer
<1>2. row \in HandlerRow
  BY HandlerFields DEF HandlerRow
<1>3. nextIndex' \in Nat
  BY DEF Inv, TypeOK
<1>4. row.pc = "done" /\ row.answer = status
  BY HandlerFields DEF HandlerRow
<1> HIDE DEF row
<1> QED BY <1>1, <1>2, <1>3, <1>4, HandlerStep

\* The calls before the insert.
LEMMA EarlyInv ==
  ASSUME Inv, NEW r \in Requests, Accept(r) \/ ReadIndex(r) \/ BumpIndex(r)
  PROVE  Inv'
<1>1. nextIndex \in Nat /\ faults \in 0..MaxFaults /\ req[r] \in HandlerRow
  BY HandlerFields DEF Inv, TypeOK
<1>2. req[r].pc # "done" => req[r].answer = "none"
  BY DEF Inv, AnswersLast
<1>3. ASSUME NEW pc \in {"index", "create"}, Goto(r, pc), req[r].pc # "done",
             invoices' = invoices, tokens' = tokens, nextIndex' \in Nat, faults' = faults
      PROVE  Inv'
  <2> DEFINE row == [req[r] EXCEPT !.pc = pc]
  <2>1. req' = [req EXCEPT ![r] = row]
    BY <1>3, Zenon DEF Goto
  <2>2. row \in HandlerRow /\ row.pc = pc /\ row.answer = "none"
    BY <1>1, <1>2, <1>3 DEF HandlerRow
  <2> HIDE DEF row
  <2> QED BY <1>1, <1>3, <2>1, <2>2, HandlerStep
<1>4. CASE Accept(r)
  BY <1>1, <1>3, <1>4 DEF Accept
<1>5. CASE ReadIndex(r)
  <2> DEFINE row == [req[r] EXCEPT !.pc = "bump", !.index = nextIndex]
  <2>1. /\ req' = [req EXCEPT ![r] = row]
        /\ nextIndex' = nextIndex /\ invoices' = invoices /\ tokens' = tokens /\ faults' = faults
        /\ req[r].pc = "index"
    BY <1>5, Zenon DEF ReadIndex
  <2>2. row \in HandlerRow /\ row.pc = "bump" /\ row.answer = "none"
    BY <1>1, <1>2, <2>1 DEF HandlerRow
  <2> HIDE DEF row
  <2> QED BY <1>1, <2>1, <2>2, HandlerStep
<1>6. CASE BumpIndex(r)
  BY <1>1, <1>3, <1>6 DEF BumpIndex
<1> QED BY <1>4, <1>5, <1>6

\* The insert: nobody else creates this invoice, because it did not exist.
LEMMA InsertInv ==
  ASSUME Inv, NEW r \in Requests, Insert(r)
  PROVE  Inv'
<1> DEFINE o == OrderOf[r]
           new == [exists |-> TRUE, index |-> req[r].index, amount |-> AmountOf[r]]
           row == [req[r] EXCEPT !.pc = "put"]
<1>1. /\ req[r].pc = "create"
      /\ \A p \in Orders : invoices[p].exists => p # o /\ invoices[p].index # req[r].index
      /\ invoices' = [invoices EXCEPT ![o] = new]
      /\ nextIndex' = nextIndex /\ tokens' = tokens /\ faults' = faults
  BY DEF Insert, UniqueViolation
<1>2. req' = [req EXCEPT ![r] = row] /\ row \in HandlerRow
  <2>1. req' = [req EXCEPT ![r] = row]
    BY Zenon DEF Insert, Goto
  <2> QED BY <2>1, HandlerFields DEF HandlerRow
<1>3. o \in Orders /\ new \in InvoiceRow
  BY HandlerFields DEF HandlerRow, InvoiceRow
<1>4. invoices \in [Orders -> InvoiceRow] /\ req \in [Requests -> HandlerRow]
  BY DEF Inv, TypeOK, InvoiceRow, HandlerRow
<1>5. /\ invoices'[o] = new /\ \A p \in Orders : p # o => invoices'[p] = invoices[p]
      /\ req'[r] = row /\ \A q \in Requests : q # r => req'[q] = req[q]
  BY <1>1, <1>2, <1>3, <1>4
<1>6. TypeOK'
  <2>1. invoices' \in [Orders -> InvoiceRow] /\ req' \in [Requests -> HandlerRow]
    BY <1>1, <1>2, <1>3, <1>4
  <2> QED BY <1>1, <2>1 DEF Inv, TypeOK, InvoiceRow, HandlerRow
<1>7. ~invoices[o].exists
  BY <1>1, <1>3
<1>8. req[r].answer = "none"
  BY <1>1 DEF Inv, AnswersLast
<1>9. \A q \in Requests : OrderOf[q] = o => ~Creating(q) /\ req[q].pc # "get"
                                          /\ req[q].answer \notin {"200", "201"}
  BY <1>7 DEF Inv, HandlersSound, TokenHolds, Creating
<1>10. tokens[o] = Nothing
  BY <1>3, <1>7 DEF Inv, TokensOwned
<1>11. new.exists /\ new.index = req[r].index /\ new.amount = AmountOf[r]
       /\ row.pc = "put" /\ row.answer = "none"
  BY <1>8, HandlerFields DEF HandlerRow
<1>12. \A q \in Requests : OrderOf[q] \in Orders
  OBVIOUS
<1> HIDE DEF o, new, row
<1>13. AddressUnique'
  <2> SUFFICES ASSUME NEW a \in Orders, NEW b \in Orders, invoices'[a].exists,
                      invoices'[b].exists, invoices'[a].index = invoices'[b].index
               PROVE  a = b
    BY DEF AddressUnique
  <2>1. CASE a # o /\ b # o
    BY <1>5, <2>1 DEF Inv, AddressUnique
  <2>2. CASE a = o \/ b = o
    BY <1>1, <1>5, <1>11, <2>2
  <2> QED BY <2>1, <2>2
<1>14. TokenHolds'
  <2> SUFFICES ASSUME NEW q \in Requests, req'[q].answer \in {"200", "201"}
               PROVE  /\ invoices'[OrderOf[q]].exists
                      /\ invoices'[OrderOf[q]].amount = AmountOf[q]
                      /\ req'[q].token = tokens[OrderOf[q]]
                      /\ req'[q].token # Nothing
    BY <1>1 DEF TokenHolds
  <2>1. q # r /\ req'[q] = req[q]
    BY <1>5, <1>11
  <2>2. OrderOf[q] # o
    BY <1>9, <2>1
  <2>3. invoices'[OrderOf[q]] = invoices[OrderOf[q]]
    BY <1>5, <1>12, <2>2
  <2> QED BY <2>1, <2>3 DEF Inv, TokenHolds
<1>15. AnswersLast'
  BY <1>5, <1>11 DEF Inv, AnswersLast
<1>16. TokensOwned'
  BY <1>1, <1>5, <1>11 DEF Inv, TokensOwned
<1>17. HandlersSound'
  <2> SUFFICES ASSUME NEW q \in Requests, req'[q].pc \in {"put", "get"}
               PROVE  /\ invoices'[OrderOf[q]].exists
                      /\ invoices'[OrderOf[q]].amount = AmountOf[q]
                      /\ req'[q].pc = "put" => tokens[OrderOf[q]] = Nothing
    BY <1>1 DEF HandlersSound
  <2>1. CASE q = r
    BY <1>5, <1>10, <1>11, <2>1 DEF o
  <2>2. CASE q # r
    <3>1. req'[q] = req[q]
      BY <1>5, <2>2
    <3>2. OrderOf[q] # o
      BY <1>9, <3>1 DEF Creating
    <3>3. invoices'[OrderOf[q]] = invoices[OrderOf[q]]
      BY <1>5, <1>12, <3>2
    <3> QED BY <3>1, <3>3 DEF Inv, HandlersSound
  <2> QED BY <2>1, <2>2
<1>18. OneCreator'
  <2> SUFFICES ASSUME NEW q \in Requests, NEW p \in Requests, Creating(q)', Creating(p)',
                      OrderOf[q] = OrderOf[p]
               PROVE  q = p
    BY DEF OneCreator
  <2>1. CASE q # r /\ p # r
    BY <1>5, <2>1 DEF Inv, OneCreator, Creating
  <2>2. CASE q = r /\ p # r
    BY <1>5, <1>9, <2>2 DEF Creating, o
  <2>3. CASE q # r /\ p = r
    BY <1>5, <1>9, <2>3 DEF Creating, o
  <2> QED BY <2>1, <2>2, <2>3
<1> QED BY <1>6, <1>13, <1>14, <1>15, <1>16, <1>17, <1>18 DEF Inv

\* A repeated request that finds its own invoice.
LEMMA ReplayInv ==
  ASSUME Inv, NEW r \in Requests, Replay(r)
  PROVE  Inv'
<1> DEFINE row == [req[r] EXCEPT !.pc = "get"]
<1>1. req' = [req EXCEPT ![r] = row] /\ row \in HandlerRow
  <2>1. req' = [req EXCEPT ![r] = row]
    BY Zenon DEF Replay, Goto
  <2> QED BY <2>1, HandlerFields DEF HandlerRow
<1>2. /\ invoices' = invoices /\ tokens' = tokens /\ nextIndex' \in Nat /\ faults' \in 0..MaxFaults
      /\ invoices[OrderOf[r]].exists /\ invoices[OrderOf[r]].amount = AmountOf[r]
  BY DEF Replay, SameInvoice, Inv, TypeOK
<1>3. row.pc = "get" /\ row.answer = "none"
  <2>1. req[r].answer = "none"
    BY DEF Inv, AnswersLast, Replay
  <2> QED BY <2>1, HandlerFields DEF HandlerRow
<1> HIDE DEF row
<1> QED BY <1>1, <1>2, <1>3, HandlerStep

\* The token is read: a 200 carries the one in the store.
LEMMA GetTokenInv ==
  ASSUME Inv, NEW r \in Requests, GetInvoiceToken(r)
  PROVE  Inv'
<1>1. /\ req[r].pc = "get"
      /\ invoices' = invoices /\ tokens' = tokens /\ nextIndex' = nextIndex /\ faults' = faults
  BY DEF GetInvoiceToken
<1>2. nextIndex' \in Nat /\ faults' \in 0..MaxFaults
  BY <1>1 DEF Inv, TypeOK
<1>3. CASE tokens[OrderOf[r]] = Nothing
  <2>1. Answer(r, "500", Nothing)
    BY <1>3 DEF GetInvoiceToken
  <2> QED BY <1>1, <1>2, <2>1, RefuseInv
<1>4. CASE tokens[OrderOf[r]] # Nothing
  <2> DEFINE row == [req[r] EXCEPT !.pc = "done", !.answer = "200",
                                   !.token = tokens[OrderOf[r]]]
  <2>1. Answer(r, "200", tokens[OrderOf[r]])
    BY <1>4 DEF GetInvoiceToken
  <2>2. req' = [req EXCEPT ![r] = row]
    BY <2>1, Zenon DEF Answer
  <2>3. row \in HandlerRow
    BY HandlerFields DEF HandlerRow, Inv, TypeOK
  <2>4. row.pc = "done" /\ row.answer = "200" /\ row.token = tokens[OrderOf[r]]
    BY HandlerFields DEF HandlerRow
  <2>5. invoices[OrderOf[r]].exists /\ invoices[OrderOf[r]].amount = AmountOf[r]
    BY <1>1 DEF Inv, HandlersSound
  <2> HIDE DEF row
  <2> QED BY <1>1, <1>2, <1>4, <2>2, <2>3, <2>4, <2>5, HandlerStep
<1> QED BY <1>3, <1>4

\* The creator stores its token: there was none, so nobody holds another one.
LEMMA PutTokenInv ==
  ASSUME Inv, NEW r \in Requests, PutInvoiceToken(r)
  PROVE  Inv'
<1> DEFINE o == OrderOf[r]
           row == [req[r] EXCEPT !.pc = "done", !.answer = "201", !.token = r]
<1>1. /\ req[r].pc = "put"
      /\ tokens' = [tokens EXCEPT ![o] = r]
      /\ invoices' = invoices /\ nextIndex' = nextIndex /\ faults' = faults
  BY DEF PutInvoiceToken
<1>2. req' = [req EXCEPT ![r] = row] /\ row \in HandlerRow
  <2>1. req' = [req EXCEPT ![r] = row]
    BY Zenon DEF PutInvoiceToken, Answer
  <2> QED BY <2>1, HandlerFields DEF HandlerRow
<1>3. /\ tokens \in [Orders -> Requests \cup {Nothing}] /\ req \in [Requests -> HandlerRow]
      /\ o \in Orders /\ r # Nothing
  BY DEF Inv, TypeOK, HandlerRow
<1>4. /\ tokens'[o] = r /\ \A p \in Orders : p # o => tokens'[p] = tokens[p]
      /\ req'[r] = row /\ \A q \in Requests : q # r => req'[q] = req[q]
      /\ row.pc = "done" /\ row.answer = "201" /\ row.token = r
  BY <1>1, <1>2, <1>3
<1>5. TypeOK'
  <2>1. tokens' \in [Orders -> Requests \cup {Nothing}] /\ req' \in [Requests -> HandlerRow]
    BY <1>1, <1>2, <1>3
  <2> QED BY <1>1, <2>1 DEF Inv, TypeOK, HandlerRow
<1>6. invoices[o].exists /\ invoices[o].amount = AmountOf[r] /\ tokens[o] = Nothing
  BY <1>1 DEF Inv, HandlersSound
<1>7. \A q \in Requests : q # r /\ OrderOf[q] = o =>
         req[q].answer \notin {"200", "201"} /\ req[q].pc # "put"
  <2> SUFFICES ASSUME NEW q \in Requests, q # r, OrderOf[q] = o
               PROVE  req[q].answer \notin {"200", "201"} /\ req[q].pc # "put"
    OBVIOUS
  <2>1. ~Creating(q)
    BY <1>1 DEF Inv, OneCreator, Creating
  <2>2. req[q].answer \notin {"200", "201"}
    BY <1>6 DEF Inv, TokenHolds
  <2> QED BY <2>1, <2>2 DEF Creating
<1>8. \A q \in Requests : OrderOf[q] \in Orders
  OBVIOUS
<1> HIDE DEF row
<1>9. AddressUnique'
  BY <1>1 DEF Inv, AddressUnique
<1>10. TokenHolds'
  <2> SUFFICES ASSUME NEW q \in Requests, req'[q].answer \in {"200", "201"}
               PROVE  /\ invoices[OrderOf[q]].exists
                      /\ invoices[OrderOf[q]].amount = AmountOf[q]
                      /\ req'[q].token = tokens'[OrderOf[q]]
                      /\ req'[q].token # Nothing
    BY <1>1 DEF TokenHolds
  <2>1. CASE q = r
    BY <1>3, <1>4, <1>6, <2>1
  <2>2. CASE q # r
    <3>1. req'[q] = req[q] /\ OrderOf[q] # o
      BY <1>4, <1>7, <2>2
    <3>2. tokens'[OrderOf[q]] = tokens[OrderOf[q]]
      BY <1>4, <1>8, <3>1
    <3> QED BY <3>1, <3>2 DEF Inv, TokenHolds
  <2> QED BY <2>1, <2>2
<1>11. AnswersLast'
  BY <1>4 DEF Inv, AnswersLast
<1>12. TokensOwned'
  BY <1>1, <1>4, <1>6 DEF Inv, TokensOwned
<1>13. HandlersSound'
  <2> SUFFICES ASSUME NEW q \in Requests, req'[q].pc \in {"put", "get"}
               PROVE  /\ invoices[OrderOf[q]].exists
                      /\ invoices[OrderOf[q]].amount = AmountOf[q]
                      /\ req'[q].pc = "put" => tokens'[OrderOf[q]] = Nothing
    BY <1>1 DEF HandlersSound
  <2>1. q # r /\ req'[q] = req[q]
    BY <1>4
  <2>2. req[q].pc = "put" => OrderOf[q] # o
    BY <1>7, <2>1
  <2>3. req[q].pc = "put" => tokens'[OrderOf[q]] = tokens[OrderOf[q]]
    BY <1>4, <1>8, <2>2
  <2> QED BY <2>1, <2>3 DEF Inv, HandlersSound
<1>14. OneCreator'
  <2> SUFFICES ASSUME NEW q \in Requests, NEW p \in Requests, Creating(q)', Creating(p)',
                      OrderOf[q] = OrderOf[p]
               PROVE  q = p
    BY DEF OneCreator
  <2>1. \A x \in Requests : Creating(x)' => Creating(x)
    BY <1>1, <1>4 DEF Creating
  <2> QED BY <2>1 DEF Inv, OneCreator
<1> QED BY <1>5, <1>9, <1>10, <1>11, <1>12, <1>13, <1>14 DEF Inv

\* A crash ends the handlers and leaves the tables.
LEMMA CrashInv ==
  ASSUME Inv, Crash
  PROVE  Inv'
<1>1. /\ invoices' = invoices /\ tokens' = tokens /\ nextIndex' = nextIndex
      /\ faults' = faults + 1 /\ faults < MaxFaults
  BY DEF Crash
<1>2. \A r \in Requests : req[r] \in HandlerRow
  BY HandlerFields
<1>3. /\ req' = [r \in Requests |-> req'[r]]
      /\ \A r \in Requests :
           \/ req'[r] = req[r] /\ req[r].pc \in {"start", "done"}
           \/ req'[r] = [req[r] EXCEPT !.pc = "done", !.answer = "lost"]
  BY DEF Crash
<1>4. \A r \in Requests :
         /\ req'[r] \in HandlerRow
         /\ \/ req'[r] = req[r] /\ req[r].pc \in {"start", "done"}
            \/ req'[r].pc = "done" /\ req'[r].answer = "lost"
  <2> TAKE r \in Requests
  <2>1. CASE req'[r] = req[r] /\ req[r].pc \in {"start", "done"}
    BY <1>2, <2>1
  <2>2. CASE req'[r] = [req[r] EXCEPT !.pc = "done", !.answer = "lost"]
    BY <1>2, <2>2 DEF HandlerRow
  <2> QED BY <1>3, <2>1, <2>2
<1>5. TypeOK'
  <2>1. req' \in [Requests -> HandlerRow]
    BY <1>3, <1>4
  <2>2. faults' \in 0..MaxFaults
    BY <1>1 DEF Inv, TypeOK
  <2> QED BY <1>1, <2>1, <2>2 DEF Inv, TypeOK, HandlerRow
<1>6. AddressUnique' /\ TokensOwned'
  BY <1>1 DEF Inv, AddressUnique, TokensOwned
<1>7. TokenHolds' /\ AnswersLast' /\ HandlersSound'
  BY <1>1, <1>4 DEF Inv, TokenHolds, AnswersLast, HandlersSound
<1>8. OneCreator'
  <2>1. \A r \in Requests : Creating(r)' => Creating(r)
    BY <1>4 DEF Creating
  <2> QED BY <2>1 DEF Inv, OneCreator
<1> QED BY <1>5, <1>6, <1>7, <1>8 DEF Inv

---------------------------------------------------------------------------
(* The theorems *)

\* Every call of every request, every failure and every crash preserves the invariant.
LEMMA NextInv == Inv /\ [Next]_vars => Inv'
<1> SUFFICES ASSUME Inv, [Next]_vars PROVE Inv'
  OBVIOUS
<1>1. ASSUME NEW r \in Requests, Accept(r) \/ ReadIndex(r) \/ BumpIndex(r) PROVE Inv'
  BY <1>1, EarlyInv
<1>2. ASSUME NEW r \in Requests, Insert(r) PROVE Inv'
  BY <1>2, InsertInv
<1>3. ASSUME NEW r \in Requests, Replay(r) PROVE Inv'
  BY <1>3, ReplayInv
<1>4. ASSUME NEW r \in Requests, Conflict(r) PROVE Inv'
  <2>1. /\ Answer(r, "409", Nothing) /\ invoices' = invoices /\ tokens' = tokens
        /\ nextIndex' = nextIndex /\ faults' \in 0..MaxFaults
    BY <1>4 DEF Conflict, Inv, TypeOK
  <2> QED BY <2>1, RefuseInv
<1>5. ASSUME NEW r \in Requests, PutInvoiceToken(r) PROVE Inv'
  BY <1>5, PutTokenInv
<1>6. ASSUME NEW r \in Requests, GetInvoiceToken(r) PROVE Inv'
  BY <1>6, GetTokenInv
<1>7. ASSUME NEW r \in Requests, CallFails(r) PROVE Inv'
  <2>1. /\ Answer(r, "500", Nothing) /\ invoices' = invoices /\ tokens' = tokens
        /\ nextIndex' = nextIndex /\ faults' \in 0..MaxFaults
    BY <1>7 DEF CallFails, Inv, TypeOK
  <2> QED BY <2>1, RefuseInv
<1>8. CASE Crash
  BY <1>8, CrashInv
<1>9. CASE UNCHANGED vars
  BY <1>9 DEF vars, Inv, TypeOK, AddressUnique, TokenHolds, AnswersLast, TokensOwned,
              HandlersSound, OneCreator, Creating
<1> QED BY <1>1, <1>2, <1>3, <1>4, <1>5, <1>6, <1>7, <1>8, <1>9 DEF Next

\* The invariant holds in every reachable state.
THEOREM InvHolds == Spec => []Inv
  BY InitInv, NextInv, PTL DEF Spec

\* Rows and handlers keep their shape.
THEOREM TypeCorrect == Spec => []TypeOK
<1>1. Inv => TypeOK
  BY DEF Inv
<1> QED BY <1>1, InvHolds, PTL

\* No two invoices share an address, although NextAddressIndex can hand the same index
\* to several requests.
THEOREM AddressUniqueHolds == Spec => []AddressUnique
<1>1. Inv => AddressUnique
  BY DEF Inv
<1> QED BY <1>1, InvHolds, PTL

\* A checkout token that a client was given stays the token of its invoice.
THEOREM TokenHoldsAlways == Spec => []TokenHolds
<1>1. Inv => TokenHolds
  BY DEF Inv
<1> QED BY <1>1, InvHolds, PTL

\* At most one request for an order is answered 201.
THEOREM CreatedOnceHolds == Spec => []CreatedOnce
<1>1. Inv => CreatedOnce
  BY DEF Inv, OneCreator, Creating, CreatedOnce
<1> QED BY <1>1, InvHolds, PTL
=============================================================================
