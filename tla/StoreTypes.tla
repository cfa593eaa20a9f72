---------------------------- MODULE StoreTypes ----------------------------
(***************************************************************************)
(* What the stores of juno-pay-server have in common (internal/domain and  *)
(* internal/store/store.go): the requests and notes they are given, and    *)
(* the rows they keep.  A row that does not exist has status "absent".     *)
(***************************************************************************)
EXTENDS Accounting, FiniteSets, FiniteSetsExt

CONSTANTS
    Orders,     \* external order ids; the store keeps one invoice for each
    Outputs,    \* the notes (wallet_id, txid, action_index) juno-scan reports
    Wallets, Merchants,
    Refunds,    \* refund ids
    Order,      \* Order[o]: the invoice request: merchant, amount, policies...
    Output,     \* Output[d]: the note: wallet, the order whose address it pays, amount
    Unaddressed,    \* the notes reported without recipient_address (omitempty)
    WalletOf,   \* WalletOf[m]: the wallet_id of merchant m
    Nobody,     \* "no invoice" / NULL
    MaxInt64,   \* the largest amount a column holds
    MaxHeight, MaxCursor, MaxTime   \* bounds of the inputs

Null == -1
OrderRow ==
    [merchant : Merchants, amount : Nat \ {0}, required : Nat, ttl : Nat,
     policy : [late : LatePolicies, partial : PartialPolicies, over : OverPolicies]]
OutputRow == [wallet : Wallets, to : Orders \cup {Nobody}, amount : Nat \ {0}]

ASSUME ConstantsAssumption ==
    /\ Order \in [Orders -> OrderRow]
    /\ Output \in [Outputs -> OutputRow]
    /\ WalletOf \in [Merchants -> Wallets]
    /\ Nobody \notin Orders \cup Outputs \cup Refunds
    /\ Outputs \cap Refunds = {} /\ Orders \cap Outputs = {}
    /\ MaxHeight \in Nat /\ MaxCursor \in Nat /\ MaxTime \in Nat

\* "" is the address of no invoice.
ASSUME UnaddressedAssumption ==
    /\ Unaddressed \subseteq Outputs
    /\ \A d \in Unaddressed : Output[d].to = Nobody

\* All coins there will ever be are far fewer than 2^63 zatoshis.
ASSUME AmountsAssumption ==
    MaxInt64 \in Nat /\ \A d \in Outputs : Output[d].amount <= MaxInt64

\* A chain of bounded height holds finitely many notes.
ASSUME FiniteOutputs == IsFiniteSet(Outputs)

InvoiceRow ==
    [status : InvoiceStatuses \cup {"absent"}, pending : Nat, confirmed : Nat,
     after : Nat, expires : Nat \cup {Null}]
DepositStatuses == {"detected", "unconfirmed", "orphaned", "confirmed"}
DepositRow ==
    [status : DepositStatuses \cup {"absent"}, height : Nat,
     confHeight : Nat \cup {Null}, invoice : Orders \cup {Nobody}]
EventTypes ==
    {"invoice.created", "invoice.expired", "invoice.paid", "invoice.overpaid",
     "deposit.detected", "deposit.confirmed", "refund.requested", "refund.sent"}
Event == [invoice : Orders, typ : EventTypes, ref : Outputs \cup Refunds \cup {Nobody}]
Reasons == {"partial_payment", "overpayment", "late_payment", "unknown_address"}
Review ==
    [subject : Orders \cup Outputs, reason : Reasons, status : {"open", "resolved", "rejected"}]
RefundRow ==
    [merchant : Merchants \cup {Nobody}, invoice : Orders \cup {Nobody},
     status : {"absent", "requested", "sent"}]

DepositKinds == {"DepositEvent", "DepositConfirmed", "DepositUnconfirmed", "DepositOrphaned"}
\* What the ingestor hands to ApplyScanEvent; "Other" stands for the kinds
\* (spends, outgoing outputs) that the store skips.
ScanEvents ==
    [cursor : 1..MaxCursor, kind : DepositKinds \cup {"Other"},
     output : Outputs, height : 1..MaxHeight]

NoInvoice == [status |-> "absent", pending |-> 0, confirmed |-> 0, after |-> 0, expires |-> Null]
NoDeposit == [status |-> "absent", height |-> 0, confHeight |-> Null, invoice |-> Nobody]
NoRefund == [merchant |-> Nobody, invoice |-> Nobody, status |-> "absent"]

\* The sum of amount_zat over a set of notes.
SumAmounts(notes) == MapThenSumSet(LAMBDA d : Output[d].amount, notes)
===========================================================================
