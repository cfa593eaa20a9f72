# juno-pay-server: TLA+ specifications

juno-pay-server accepts shielded payments for merchants. It never holds keys: it derives a
fresh address for each invoice from the merchant's viewing key, learns about incoming notes
from juno-scan, takes the chain height from junocashd, and tells the merchant what happened
through an event log, webhooks and message brokers. This directory models the server's own
logic; the node, the scanner and the sinks appear as the environment.

## The system

| Part | State it keeps | Operations | Talks to |
|---|---|---|---|
| Domain (`internal/domain`) | none | policies, statuses, `CanApplyDeposit` | used by all |
| SQL store (`internal/store/sqlstore`; SQLite, PostgreSQL, MySQL) | invoices, tokens, deposits, scan cursors, invoice events, review cases, refunds, sinks, outbox, merchants, wallets, API keys | one transaction per method of `store.Store` | called by everything |
| MongoDB store, in-memory store | the same | the same interface | alternatives to the SQL store |
| Ingestor (`internal/ingest`) and the loop in `cmd/juno-pay-server` | local cursor and page | `Sync`, then `UpdateInvoiceConfirmations` | juno-scan, junocashd, store |
| Outbox worker (`internal/outbox`) | listed batch | `Sync`: list, deliver, record | sinks, store |
| API (`internal/api`) | per-request locals, admin session key, uptime watch | invoices, public reads, admin endpoints | store, deriver, junocashd |
| Key derivation (`internal/keys`, `rust/keys`) | none | unified address from viewing key and index | API |
| Checkout hook (`useJunoPayInvoice` of the UI package) | cursor, events shown, request in flight | poll the event list, drop late answers | API |
| Dashboard, demo shop, deployment | none of the server's | call the API | API |

Three groups of goroutines run side by side: HTTP handlers, the ingest loop and the outbox
loop. They share nothing but the store, whose transactions are the atomic steps; every call
to another service and every second transaction of one operation is a point where another
goroutine, a failure or a crash may come in between.

What is hard about it:

- the chain reorganises, so a note is detected, confirmed, unconfirmed, orphaned and detected
  again elsewhere, while its invoice's sums, status, events and review cases must follow;
- the log of the scanner is copied page by page with crashes and failing calls in between;
- a height, a batch or an address index that was read earlier is stale when it is used;
- the status of an invoice is written by Go code at run time and by an SQL expression at
  start-up, and depends on the clock;
- sending an event and recording that it was sent are two steps;
- `POST /v1/invoices` is five store calls, each of them a transaction of its own, and an administrator
  may change settings, wallets, keys or the password between any two of them;
- the same rules are written three times (SQL, MongoDB, in memory), and the tests of the other
  packages run on the third;
- a browser follows the event table by a cursor, over answers that get lost or come too late.

## Modules

| Module | Models | Builds on |
|---|---|---|
| `Accounting` | status function, start-up backfill, status events, review policies, height rules (pure operators) | |
| `StoreTypes` | requests, notes and the rows that the stores keep | `Accounting` |
| `SqlStore` | the payment tables and every method that writes them | `StoreTypes` |
| `MongoStore` | the payment collections of the MongoDB store; implements `SqlStore` | `StoreTypes`, instance of `SqlStore` |
| `MemStore` | the in-memory store that the tests use | `StoreTypes` |
| `StoreParity` | SQL and in-memory store given the same calls | `SqlStore`, instance of `MemStore` |
| `PayServer` | chain, scanner, ingest loop, invoice creation and crashes around the store | `SqlStore` |
| `Backoff` | the retry delay in 64-bit arithmetic | |
| `Outbox` | sinks, deliveries, the worker | |
| `InvoiceApi` | concurrent `POST /v1/invoices` | |
| `AdminApi` | sessions, merchants, settings, wallets and keys, changed under running requests | |
| `EventStream` | event list, event stream and the checkout hook that polls | |
| `SqlStoreProofs`, `MongoProofs`, `ParityProofs`, `OutboxProofs`, `InvoiceApiProofs`, `AdminProofs`, `EventStreamProofs` | theorems | the module each is named after |
| `PayServerProofs` | theorems of the pipeline | `PayServer`, `SqlStoreProofs` |
| `MC...` | instances for TLC | the module each is named after |

### SqlStore

One invoice per external order id (`Orders`), one deposit row per note (`Outputs`); a row that
does not exist has status `absent`. `Order`, `Output` and `WalletOf` are constants: an
invoice's amount, policies and address never change after its creation, a note's amount and
address never change at all, and a merchant's wallet can be set once. Sets stand for tables
with a unique index: `events` for (invoice, type, deposit or refund), `reviews` for (invoice,
reason, status) and (deposit, reason).

`ApplyScanEvent` is the whole method with `applyDepositEventTx`, the event, the review case and
the recomputation that it ends with; `UpdateInvoiceConfirmations` confirms every deep enough
deposit and recomputes each touched invoice; `Restart` is the backfill of `Store.Init`;
`CreateRefund`, `ResolveReviewCase`, `RejectReviewCase` and `CreateInvoice` are the methods of
these names. In this module the callers are arbitrary: any scan event (in any order, at any
height) and any best height, so what holds here does not depend on the scanner's good manners.
Calls that only read, or that fail validation, are not steps. Amounts are small integers;
sums of 64-bit amounts are not modelled as overflowing (the supply of coins is far below 2^63, which `AmountsAssumption` says of
each note). `Unaddressed` are the notes that are reported without `recipient_address`, an optional field: here they pay nobody's
address, so they are recorded and get a review case.

### MongoStore

The same interface over collections: a document that does not exist is outside the domain of its
collection, a deposit nobody is credited with has no `invoice_id`. Where SQL has one UPDATE with CASE and
COALESCE, the code reads the document, upserts it with fields that are set on insert only, and sets
`invoice_id` in a second update where there is none (`attribute`). Events are upserts on a dedupe key, review cases
upserts on the open case of an invoice or on any case of a deposit. Each method is one
`WithTransaction`, so an action is the whole method; a write conflict makes the driver run it again.
There is no start-up backfill. A unique index on the `wallet_id` of a merchant's wallet
(`WalletIdUnique`) excludes the shared wallets that SQL allows. A report without an address returns before the lookup
(`mongo.go:1406`): only the cursor moves, where SQL records a deposit and opens a case.

`Sql == INSTANCE SqlStore WITH ...` reads the collections as tables (`Rows`). `SameCalls` compares call by call: each leaves the rows
that the same call with the same arguments leaves in SQL, but a report without an address leaves what SQL leaves after an event of
a kind it does not know (`AsSql`). Hence `Implements`: every behaviour is one of `SqlStore`, and what is checked and proved of all
its behaviours holds of this one too. For a note without an address that says less than it does of SQL: `NoSilentDeposit` speaks of recorded
deposits, and such a note is not recorded. No document promises a case for it, so there is no run that contradicts the code.

### MemStore and StoreParity

`mem.go` keeps maps behind one mutex, so a method is an action. It is a second writing of the rules and
differs from SQL in six places that the model keeps: a deposit that has an invoice is never treated as
stray again, whatever its new height; the invoice that a deposit is credited to is the one recomputed; a
review case is compared with the open ones only (so cases are counted, not kept as a set); a wallet of several
merchants is no error; a note reported without an address leaves nothing behind; and an invoice expires to the nanosecond, where
SQL (and MongoDB) keep and compare whole seconds. For the last one the clock has a part below the second, `nanos`, of `Subseconds`
moments; the in-memory store keeps it of each expiry (`expiryNanos`), SQL never reads it. `applyDepositLocked` also drops an amount
beyond int64, which `AmountsAssumption` rules out, and takes the wallet of the event when the payload names none, which is
the same wallet in all that the scanner sends.

`StoreParity` gives both stores each call at once and closes review cases in each on its own. `apart` collects the invoices that the
stores have treated differently, for one of two reasons: a deposit of the invoice was reported at or below `created_after_height`
(`MovesBelow`), or the invoice was recomputed after the moment of its expiry and still within that second (`LastSecond`). `Parity` is what a
passing test on the in-memory store says about the server: cursors, refunds and the deposits that have an address agree always;
an invoice, its events and the questions asked about it and its deposits agree as long as the invoice is not in `apart`, whatever
happened to the others; of a note without address only SQL keeps a trace. `Parity` compares which questions were ever asked.
That none is open twice in the in-memory store is `MemOneOpenCase` (in SQL a unique index sees to it).

### PayServer

`MineBlock`, `DisconnectBlock` and `Report` are the environment: a chain of at most `MaxHeight`
blocks that disconnects at most `MaxReorgs`, and a scanner that appends to each wallet's log what
it has to say about a note (detected, confirmed by its own depth `ScanConfs`, unconfirmed,
orphaned), as late as it likes, at most `MaxCursor` entries in all. The ingest goroutine is `loop`: its program counter, the merchant it
is at, the local cursor, the end of the page it holds and the height it has read. Each call
it makes is one action. `ApplyNext` is the store's `ApplyScanEvent`; an event at or below the
stored cursor would be skipped by the store, which cannot happen with the one loop that the
server runs. `ApplyRejected` is the error for a note nobody is credited with in a wallet of
several merchants. `SyncFails` and `TipFails` are failing calls, `Crash` a restart at any point.
`ApiBestTip` and `ApiCreateInvoice` are the two halves of invoice creation that matter here: the
height is read first and stored later.

`StreamOrdered` has a clause for deposits that were put before a person. With one disconnected block a
confirmed deposit was always announced as detected first. With more it need not be: a note is found at height 2 before the
invoice of its address exists, so a review case is opened; the invoice is then stored with the height 1 that its
request read earlier; the report that the note was orphaned, still at height 2, credits it without `deposit.detected`
(an orphaned deposit emits none); and when it is mined again at height 1, which is not above `created_after_height`, it is
treated as an unknown address again, with its invoice kept. Its confirmation is then the first event the merchant
gets about it, but the case was there all along. The proof attempt of the simpler statement showed this history.

### Outbox

A delivery holds the seconds until its next retry (`wait`) and since its last update (`age`), so
that time needs no bound: both saturate at `MaxAge`. `Send` is one call of `deliver`. It ends received and
acknowledged, received with the answer lost, or not received. A webhook answers 2xx, Kafka is written to with `RequireAll`, NATS is
flushed: success means that the event arrived (`Confirming`). RabbitMQ is published to without confirm mode and the errors of `Close` are
dropped (`outbox.go:396`), so for such a sink `deliver` may also return nil with nothing received, and `DeliveredReceived` says nothing
of it. A failure may also be local (a configuration that does not parse): what is counted are calls of `deliver`. `Record` computes the next retry from the
moment the batch was listed, as the code does. `RecordFails` and `Crash` drop the batch between
the two. `Enqueue` is the store's part, run in the transaction of the event: a delivery for each
sink the merchant has at that moment. It is assumed that a driver accepts the INSERTs that
`enqueueOutboxForInvoiceEventTx` makes while its query on the sinks is open.

### InvoiceApi

Requests of one merchant as processes. Addresses are identified with their index. `ReadIndex` and
`BumpIndex` are the two statements of `NextAddressIndex`; with `Serialized` (SQLite, one
connection) no second transaction starts between them.

### AdminApi

A session is a signed cookie with the key derived from the password, so `Restart` with another password ends
all of them and one with the same password none. An administrative request is two steps: `requireAdmin` reads the cookie when the headers have
come, and the handler (`CreateMerchant`, the settings, wallet and key endpoints, or `Refuse`) decodes the body and changes the store. The server
sets `ReadHeaderTimeout` only, so any time may pass between them; `admitted` holds the moment of the check. `ChangesByRecentLogin` is
therefore about that moment: a change comes from a request that was let in at most `SessionTTL` after a login with the present
password. It may be made after the session has expired or was logged out; a restart ends the request. An invoice request is `Authenticate`, `ReadSettings`, `ReadWallet`, `Create`, each a call of its own; the calls after the wallet
are in `InvoiceApi`. Three variables are history: the logins, the settings in force while a request ran, and whether
its key was revoked before it came (`late`).

### EventStream

Rows of `invoice_events` get their id when they are inserted and are visible when their transaction commits
or vanish with it. `ServeEvents` is the event list, a page after a cursor; `StreamPoll` and `StreamSend` are one SSE connection
that resumes after the last id its client has. The hook asks on a timer, one request at a time; a re-render or a switch
to another invoice marks the request in flight as stopped, and its answer is dropped. With `Serialized` transactions
that insert events follow each other (SQLite's one connection, the mutex of the in-memory store, MongoDB's counter document). With
`Serialized = FALSE` (PostgreSQL, MySQL with several connections) TLC shows a reader that passes an id whose transaction is
still open and never sees it; no document promises otherwise, so there is no run for it.

## Runs

| Run | Result | What it shows |
|---|---|---|
| `sql_store` | pass | two merchants watching one viewing key, refunds, late payments under manual review, restarts: statuses are announced and explained, no deposit is silent, events stay with their owner |
| `store_parity` | pass | sums, review cases and attribution in the SQL and the in-memory store, with two notes for one invoice, one without address and moments within a second: the stores agree unless a credited note is reported at or below `created_after_height` or the invoice is recomputed in the rest of the second of its expiry; no question is open twice |
| `mongo_store` | pass | every call of the MongoDB store leaves what the SQL store leaves, but for a note without an address, with two more notes that pay one invoice exactly, in part or too much, review decisions and a refund |
| `pay_server` | pass | exactly-once ingestion and a sensible event stream with reorganisations, failures and crashes, beside a wallet that fails on every pass |
| `pay_live` | pass | the loop catches up again and again; once the chain is quiet the store agrees with it |
| `outbox` | pass | at least once where the transport confirms, honest failure, bounded duplicates, no stale task, everything settled in the end |
| `invoice_api` | pass | unique addresses, valid tokens, one creator per order, every request answered, on a database where two requests can read the same index |
| `admin_api` | pass | an invoice has terms, wallet and owner that were right while its request ran; nothing is administered but by a request let in with a recent login |
| `event_stream` | pass | a polling browser and an SSE client see each event of their invoice once and in order, and in the end all of them |
| `pay_sync_pass` | violation of `CatchesUp` | one shared `wallet_id` with a stray note stops ingestion for all merchants that sort after it |
| `backoff` | violation of `BackoffCapped` | at attempt 35 and some later ones the delay overflows and the retry is due at once |
| `api_retry` | violation of `RetryGetsInvoice` | a repeated request gets 409, not the existing invoice |

The three violations are disagreements between the code and its comments or its API
description; `PROJECT.json` quotes both sides.

Bounds. Two notes with amounts 2 and 1 against an invoice of 2 reach exact, partial and over-payment.
`MaxHeight = 2` lets a note be too low, move up and move down. `MaxCursor` bounds the scan events per wallet: two in
`sql_store` (two wallets, so four in all) and in `mongo_store`, where one step after any state is what a refinement asks
about, and in `store_parity`. That is enough for
a note to be detected and then orphaned, confirmed or moved; one that is orphaned and detected again occurs in the pipeline runs,
and the theorems have no such bound. `MaxTime = 2` and a time-to-live of 1
give before, at and after the expiry; in `store_parity` a second has two moments, so an invoice can be made in the first half of
a second and recomputed in the second half of the one in which it expires. It has one invoice; that a difference stays with the invoice it
happened to, when there are several, is left to the proof. A refund changes neither invoices nor deposits, so there behaviours with
one are followed through one scan event of the first second only (`RefundsEarly`). In the pipeline one reorganisation and one fault (a failing call
or a crash) are allowed; a page holds two events, so a page can be partly applied. In the outbox
three deliveries, one to a sink that does not confirm, compete for a batch of two with two attempts each and one fault. Four requests
cover a repeated, a conflicting and an unrelated one together. In `admin_api` a session lasts one tick of two, with one administrative request in progress at a time, one restart,
two passwords and two settings. In `event_stream` three events over two invoices with pages of two give a full page,
a partial one and an empty one; two disturbances (lost answers, re-renders, switches, dropped connections) let one meet
another's leftovers.

Deadlock is checked except in the `InvoiceApi`, `MCBackoff` and `EventStream` runs, where a finite set of requests,
attempts or events comes to its end.

Fairness. `FairPSpec` is weakly fair to the ingest loop as a whole (a goroutine in an endless
loop with a sleep) and to the scanner's reports; nothing is assumed of the chain, the clock or the clients,
and faults are finitely many. `Outbox!FairSpec` is weakly fair to the worker's steps (each call
has a timeout) and to time. `InvoiceApi!Spec` is weakly fair to each handler, which runs to its end. `EventStream!Spec` is
weakly fair to the hook's timer, the server's answer, its receipt and the two steps of the stream (timers and handlers
that run); nothing makes a transaction commit, and disturbances are finitely many.

Each property of a passing run has a mutant, defined just before the definition it changes, that
TLC refutes.

## Proofs

`OutboxProofs` proves, for all sets of events and sinks, any batch size and number of
attempts, delays and number of faults: `TypeCorrect`, `AtLeastOnce`, `HonestFailure`, `BoundedDuplication`,
`BatchNeverStale` and `SettledForGood`. The inductive invariant `Inv` is the conjunction of the
state properties `TypeOK`, `DeliveredReceived`, `GivesUpHonestly`, `DuplicatesBounded` and
`BatchCurrent` with two more: `FlightSound` (at most one task is in flight, it was sent once more than its
counter says, and a success of a confirming transport that waits to be recorded is a real one) and `RowsSound` (rows exist only for
enqueued events, and a pending row has an attempt left). Without `FlightSound` the record step could mark a
delivery that never arrived, or count an attempt that was never made; without `RowsSound` a row could be
overwritten by a second enqueueing, or outlive its last attempt. Assumption: `OutboxAssumption`, the types of the constants.

`SqlStoreProofs` proves, for all invoices, notes, wallets, merchants and policies, any order of
transactions, scan events and best heights: `PaidAnnouncedHolds`, `StatusExplainedHolds`,
`NoSilentDepositHolds`, `ReviewsRaisedHolds`, `ConfirmedDepositSoundHolds`, `EventsOwnedHolds`,
`AggregatesExactHolds` and the action properties `AttributionStickyHolds` and `LatePaymentReviewedHolds`. The inductive
invariant `Inv` joins these state properties with four more. `Shape` is `TypeOK` without the claim
that the two sums are naturals, which no other part depends on. `CreditedToAddressee`
says a credited deposit is credited to the existing invoice whose address the note pays: without it a
note mined again could carry an event of one invoice and the `invoice_id` of another.
`DepositCases` says a case about a deposit is about its unknown address: it is why one case per
deposit is enough. `RefundsWritten` says a refund not yet created names no invoice. The
argument for the writers of a status: `RecomputeStep` covers the transactions that recompute
invoices and emit what the change asks for; the start-up backfill emits nothing, and
`BackfillAgrees` (the SQL CASE equals the Go switch) with `ExpiryOnly` (judging the expiry again moves a
status only between open and expired, or confirmed and paid_late) shows that it need not.
Assumptions: `ConstantsAssumption`, the types of the constants and the disjointness of the id sets, and `FiniteOutputs`, that there
are finitely many notes (a chain of bounded height holds no more); the second is used for the sums only.
`AggregatesExactHolds` is proved on top of `Inv`, with `Exact`, the same claim split per invoice: a step either
recomputes an invoice or leaves every deposit counted in it alone, so nothing needs to be known of the sum but that it
is a function of the set and zero when it is empty (`SumNone`, for an invoice that is just created).
`TypeCorrect` adds that the sums are naturals. A sum is a recursive function on the sets of deposits that takes any member
first, so first it has to be shown that such a function exists: `SumUnique` and `SumExists` take a smallest set on which it
would be ambiguous or undefined (`LeastSet`, from the well-foundedness of the natural numbers) and show that there is none.
From `SumIsFold` follow `SumNat` and `SumRemove`: a sum is the same whichever deposit is counted last.

`PayServerProofs` proves `ImplementsStore`: every behaviour of the pipeline is one of `SqlStore`, so the store's theorems hold of the
server with its scanner, loop and API. Its steps are those of the store with arguments that the loop has read earlier; that
these are legal arguments is `Base`: `PipelineOK` (types), `LogOwned` (a wallet's log is about its notes, within `MaxCursor`) and `LoopSound` (the
loop's local cursor is the stored one while it works on a wallet, and its page lies within the log). Without `LoopSound` an entry could be
applied twice or skipped after a failed call. `PTypeCorrect` follows. `History` is what makes the other properties
inductive: `LogOrder` (a note is found only when unknown or orphaned, and any other report keeps the height it was found at),
`Reflected` and `HeightCurrent` (`LogReflected` and `ConfirmedHeightCurrent`, note by note), `ToldOf` (a recorded deposit of a
merchant's wallet was announced or put before a person) and `PaidBacked` (a paid invoice has a confirmed deposit that was announced). The
point of `ConfirmedHeightCurrentHolds` is that a confirmed deposit that is reported again without having been orphaned is
reported at the height it has, which only `LogOrder` says; a scanner that moved a note without orphaning it would break it. Assumption:
`PipelineAssumption` beside the two above. All hold for any page size, chain height, number of reorganisations and faults.

`EventStreamProofs` proves `TypeCorrect` and, with `Serialized`, `HistoryExactHolds` and `StreamExactHolds`, for any invoices, writers,
page limit and disturbances. `PageExact` says what a page is: the ids after the cursor, in order, none left out up to the
last (by ranks: `RankTaken` shows that each rank below the number of ids is taken once). The inductive invariant `StreamInv` has
`Table` (an open transaction is the only one and its ids are above all committed ones), `ViewOK` and `StreamOK` (what is shown is complete up to the
cursor, and the cursor is `Fixed`: no event at or below it can still appear), `SavedOK` (so are the cursors kept for later views)
and `FlightOK` (a request that is not stopped has the view's invoice and cursor, and its answer is complete). `Fixed` is where serialized
transactions are needed, and what PostgreSQL and MySQL do not give; a connection opened at a cursor of the client's choice
is complete at once, fixed only after its first page.

`MongoProofs` proves `SameCallsHold` and `ImplementsSql`: for all invoices, notes, wallets, merchants and policies, each call is
the call of that name in `SqlStore` (of `AsSql(e)` for a scan event `e`), and every
behaviour of `MongoStore` is a behaviour of `SqlStore` under the mapping above. The invariant `Inv`
says documents have the fields the code writes and a status other than `absent`
(else a written row could read as missing), a confirmation height exists exactly while the
deposit is confirmed (`ConfirmationHeights`: SQL keeps the old height where this store writes null, which is
the same only then), a credited deposit's invoice exists (`CreditsExist`: the code skips
deposits whose invoice is missing, SQL joins), and a case about a deposit is about its unknown address
(`DepositCases`: SQL looks for any case of the deposit, this store for one of that reason). One
lemma per action shows that it keeps `Inv` and is the action of that name in `SqlStore`; `OneMerchant`
uses the unique index. Assumptions: `ConstantsAssumption` and `WalletIdUnique`.

`ParityProofs` proves `ParityHolds`, `MemAggregatesHolds` and `MemOneOpenCaseHolds` for all
invoices, notes, merchants and policies, any fineness of the clock and any order of calls. The inductive invariant `PInv` is `Inv` of the
SQL store with `Pair`: `SameRows` and `MemRows` (both stores have the same cursors, refunds, addressed deposits and the same invoices in
existence, with the same height and second of expiry, which is what makes them take the same branches), `InvoicesAgree`,
`StraysAgree` and `NothingAsked` (`Parity` by invoice, by deposit and for notes without an address), and `MemCounts`, `MemOneOpenCase` and `MemSummed` of the
in-memory store alone. The two copies of the status function give the same status for the same sums and the same judgement of
expiry; the judgements agree outside `LastSecond`, and an invoice recomputed within it enters `apart` in that step.
That the agreement survives review decisions rests on comparing the questions ever asked, not the open ones. A note without an
address pays nobody, so in SQL it is never in a sum, and the sums of the two stores range over the same deposits. Assumptions: those of
the SQL store with `UnaddressedAssumption`, `AmountsAssumption` and `SubsecondsAssumption`.

`InvoiceApiProofs` proves `AddressUniqueHolds`, `TokenHoldsAlways` and `CreatedOnceHolds` for any requests, orders, failures and
crashes, serialised or not. `Inv` adds `HandlersSound` (a handler past the insert has its invoice, and a creator finds no
token), `OneCreator` (one creator from the insert on, not only from the 201), `TokensOwned` and `AnswersLast`. Without
`OneCreator` two creators could overwrite each other's token after one of them was handed out.

`AdminProofs` proves `TermsInForceHolds`, `OneWalletHolds`, `KeyRespectedHolds` and `ChangesByRecentLoginHolds` for any
merchants, wallets, keys, passwords, requests and session length. `Inv` says of each call of a handler what it knows there
(`RequestSound`), of an invoice what stays true of it (`InvoiceSound`), that a key belongs to an existing merchant and that a
cookie comes from a login (`CookiesFromLogins`) and that an admitted request came in with such a cookie (`AdmittedByLogin`): the cookie may
be gone when the change is made, so the login has to be remembered of the request.

Assumptions of these three: the types of the constants, as named in the modules.

Left to TLC: liveness, that is `CatchesUp`, `Settles`, `EverySettled`, `EveryAnswered`, `EventuallyShown` and `EventuallyStreamed` (fairness
and ENABLED are outside the prover). Every invariant and every action property of a passing run is a theorem; `PTypeOK` of `PayServer` is proved and has no run of its own.

## Not modelled, and the plan

1. The outbox, token, merchant, wallet and key parts of the MongoDB and in-memory stores; the first has an atomic `$inc` for the
   address index where SQL has two statements.
2. The restart counter of junocashd in the admin status, a diagnostic.

Met while modelling, with no promise in the repository to check against: ids of events that become visible out of order on
PostgreSQL and MySQL (see `EventStream`); two different orders handed the same address index there, one of
which gets 409; a credited note mined again at or below `created_after_height`, which the SQL store gives an `unknown_address`
case without recomputing its invoice (the premise of `AggregatesExact`, and `MovesBelow` in `StoreParity`);
a note reported without an address, of which MongoDB and the in-memory store keep nothing; RabbitMQ deliveries marked delivered
that no queue has confirmed; administrative changes made after their session has ended, by a body that was slow to come.

Not planned: address derivation (cryptography, assumed injective), HTTP and JSON encoding,
the wire protocols of the sinks, dashboard, demo shop and deployment.
