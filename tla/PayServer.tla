----------------------------- MODULE PayServer -----------------------------
(***************************************************************************)
(* The payment pipeline as it runs: the node's best chain (external), the  *)
(* wallet event log that juno-scan derives from it (external), and the     *)
(* background loop of cmd/juno-pay-server, which copies the log into the   *)
(* SQL store page by page, then asks the node for its height and confirms  *)
(* deposits with it.  Each call the loop makes is a step of its own, so    *)
(* the chain, the scanner, the API and a crash may come between any two:   *)
(* a page may be stale when it is applied, and so may the height.          *)
(*                                                                         *)
(* The store's transactions are those of SqlStore.                         *)
(***************************************************************************)
EXTENDS SqlStore, Sequences

CONSTANTS
    MerchantSeq,    \* ListMerchantWallets: merchants in the order of merchant_id
    PageSize,       \* limit passed to ListWalletEvents (200 in the code)
    ScanConfs,      \* juno-scan's own confirmation threshold
    MaxReorgs,      \* blocks that the chain may disconnect
    MaxFaults       \* failed calls and crashes

ASSUME PipelineAssumption ==
    /\ MerchantSeq \in Seq(Merchants)
    /\ Len(MerchantSeq) > 0
    /\ {MerchantSeq[i] : i \in DOMAIN MerchantSeq} = Merchants
    /\ PageSize \in Nat \ {0} /\ ScanConfs \in Nat \ {0}
    /\ MaxReorgs \in Nat /\ MaxFaults \in Nat

VARIABLES
    tip,        \* height of the node's best block
    mined,      \* Outputs -> height of the block that holds the note, 0: none
    log,        \* Wallets -> juno-scan's event log; the cursor is the position
    api,        \* Orders -> the tip a POST /v1/invoices has read, Null: no request
    loop,       \* the ingest goroutine: program counter and local variables
    reorgs, faults

envVars == <<tip, mined, log, reorgs>>
allVars == <<vars, envVars, api, loop, faults>>

LoopRow ==
    [pc : {"wallet", "list", "apply", "tip", "confirm"}, i : 1..Len(MerchantSeq),
     cursor : Nat, last : Nat, best : 0..MaxHeight]
LoopStart == [pc |-> "wallet", i |-> 1, cursor |-> 0, last |-> 0, best |-> 0]

PInit ==
    /\ Init
    /\ tip = 0
    /\ mined = [d \in Outputs |-> 0]
    /\ log = [w \in Wallets |-> <<>>]
    /\ api = [o \in Orders |-> Null]
    /\ loop = LoopStart
    /\ reorgs = 0
    /\ faults = 0

---------------------------------------------------------------------------
(* The chain: external. *)

MineBlock ==
    /\ tip < MaxHeight
    /\ tip' = tip + 1
    /\ \E S \in SUBSET {d \in Outputs : mined[d] = 0} :
          mined' = [d \in Outputs |-> IF d \in S THEN tip + 1 ELSE mined[d]]
    /\ UNCHANGED <<vars, log, api, loop, reorgs, faults>>

DisconnectBlock ==
    /\ reorgs < MaxReorgs
    /\ tip > 0
    /\ tip' = tip - 1
    /\ mined' = [d \in Outputs |-> IF mined[d] = tip THEN 0 ELSE mined[d]]
    /\ reorgs' = reorgs + 1
    /\ UNCHANGED <<vars, log, api, loop, faults>>

(* The scanner: external. It reports each note of a wallet in this order. *)

LogEntry == [kind : DepositKinds, output : Outputs, height : 1..MaxHeight]

\* The positions in its wallet's log at which note d is reported.
Reports(d) ==
    {n \in DOMAIN log[Output[d].wallet] : log[Output[d].wallet][n].output = d}

LastReport(d) ==
    IF Reports(d) = {}
    THEN [kind |-> "DepositOrphaned", output |-> d, height |-> 0]
    ELSE log[Output[d].wallet][Max(Reports(d))]

\* What juno-scan has to say of note d next ("none": nothing).
NextReport(d) ==
    LET last == LastReport(d)
        deep == tip - last.height + 1 >= ScanConfs
    IN  CASE last.kind = "DepositOrphaned" ->
                IF mined[d] = 0 THEN "none" ELSE "DepositEvent"
          [] last.kind # "DepositOrphaned" /\ mined[d] # last.height -> "DepositOrphaned"
          [] last.kind = "DepositConfirmed" /\ mined[d] = last.height ->
                IF deep THEN "none" ELSE "DepositUnconfirmed"
          [] OTHER -> IF deep THEN "DepositConfirmed" ELSE "none"

Report(d) ==
    LET w == Output[d].wallet
    IN  /\ NextReport(d) # "none"
        /\ Len(log[w]) < MaxCursor
        /\ log' = [log EXCEPT ![w] = Append(@,
                [kind |-> NextReport(d), output |-> d,
                 height |-> IF NextReport(d) = "DepositEvent"
                            THEN mined[d] ELSE LastReport(d).height])]
        /\ UNCHANGED <<vars, tip, mined, api, loop, reorgs, faults>>

---------------------------------------------------------------------------
(* The API and the clock. *)

\* handleCreateInvoice: read the best tip, ...
ApiBestTip(o) ==
    /\ api[o] = Null
    /\ ~Exists(o)
    /\ api' = [api EXCEPT ![o] = tip]
    /\ UNCHANGED <<vars, envVars, loop, faults>>

\* ... later insert the invoice with that height, by now perhaps an old one, as
\* its created_after_height.
ApiCreateInvoice(o) ==
    /\ api[o] # Null
    /\ CreateInvoice(o, api[o])
    /\ api' = [api EXCEPT ![o] = Null]
    /\ UNCHANGED <<envVars, loop, faults>>

ClockTick == Tick /\ UNCHANGED <<envVars, api, loop, faults>>

---------------------------------------------------------------------------
(* The ingest goroutine: Ingestor.Sync, then UpdateInvoiceConfirmations. *)

LoopWallet == WalletOf[MerchantSeq[loop.i]]

\* UpsertWallet and ScanCursor for the next merchant.
BeginWallet ==
    /\ loop.pc = "wallet"
    /\ loop' = [loop EXCEPT !.pc = "list", !.cursor = cursor[LoopWallet]]
    /\ UNCHANGED <<vars, envVars, api, faults>>

\* ListWalletEvents after the local cursor, at most PageSize events.
ListPage ==
    LET n == Len(log[LoopWallet]) - loop.cursor
    IN  /\ loop.pc = "list"
        /\ n > 0
        /\ loop' = [loop EXCEPT !.pc = "apply",
                        !.last = loop.cursor + (IF n < PageSize THEN n ELSE PageSize)]
        /\ UNCHANGED <<vars, envVars, api, faults>>

\* Mutant of EndWallet: a page that is not full is taken for the end.
EndWalletShort ==
    /\ loop.pc = "list"
    /\ Len(log[LoopWallet]) - loop.cursor < PageSize
    /\ loop' = IF loop.i < Len(MerchantSeq)
               THEN [LoopStart EXCEPT !.i = loop.i + 1]
               ELSE [LoopStart EXCEPT !.pc = "tip"]
    /\ UNCHANGED <<vars, envVars, api, faults>>

\* An empty page ends the wallet; after the last one comes the tip.
EndWallet ==
    /\ loop.pc = "list"
    /\ Len(log[LoopWallet]) = loop.cursor
    /\ loop' = IF loop.i < Len(MerchantSeq)
               THEN [LoopStart EXCEPT !.i = loop.i + 1]
               ELSE [LoopStart EXCEPT !.pc = "tip"]
    /\ UNCHANGED <<vars, envVars, api, faults>>

\* Mutant of PageEvent: the page's cursor is stored with each of its events.
PageEventPageCursor ==
    LET e == log[LoopWallet][loop.cursor + 1]
    IN  [cursor |-> loop.last, kind |-> e.kind, output |-> e.output, height |-> e.height]

PageEvent ==
    LET e == log[LoopWallet][loop.cursor + 1]
    IN  [cursor |-> loop.cursor + 1, kind |-> e.kind, output |-> e.output, height |-> e.height]

\* The loop's position after the event at hand: the page, or the next page.
AfterEvent ==
    [loop EXCEPT !.cursor = @ + 1, !.pc = IF loop.cursor + 1 = loop.last THEN "list" ELSE "apply"]

ApplyNext ==
    /\ loop.pc = "apply"
    /\ ApplyScanEvent(PageEvent)
    /\ loop' = AfterEvent
    /\ UNCHANGED <<envVars, api, faults>>

\* ApplyScanEvent fails: nobody to credit, and the wallet belongs to several
\* merchants.  Sync returns the error, leaving the other wallets untouched.
ApplyRejected ==
    LET e == PageEvent
    IN  /\ loop.pc = "apply"
        /\ applyInvoiceID(e.output, e.height) = Nobody
        /\ Cardinality(MerchantsOf(LoopWallet)) > 1
        /\ loop' = [LoopStart EXCEPT !.pc = "tip"]
        /\ UNCHANGED <<vars, envVars, api, faults>>

\* Any call of Sync fails; the loop logs it and goes on to the tip.
SyncFails ==
    /\ faults < MaxFaults
    /\ faults' = faults + 1
    /\ loop.pc \in {"wallet", "list", "apply"}
    /\ loop' = [LoopStart EXCEPT !.pc = "tip"]
    /\ UNCHANGED <<vars, envVars, api>>

\* GetBlockCount.
ReadTip ==
    /\ loop.pc = "tip"
    /\ loop' = [loop EXCEPT !.pc = "confirm", !.best = tip]
    /\ UNCHANGED <<vars, envVars, api, faults>>

\* GetBlockCount or the confirmation transaction fails: sleep and start over.
TipFails ==
    /\ faults < MaxFaults
    /\ faults' = faults + 1
    /\ loop.pc \in {"tip", "confirm"}
    /\ loop' = LoopStart
    /\ UNCHANGED <<vars, envVars, api>>

ConfirmDeposits ==
    /\ loop.pc = "confirm"
    /\ UpdateInvoiceConfirmations(loop.best)
    /\ loop' = LoopStart
    /\ UNCHANGED <<envVars, api, faults>>

\* The process dies between any two transactions and starts again.
Crash ==
    /\ faults < MaxFaults
    /\ faults' = faults + 1
    /\ Restart
    /\ loop' = LoopStart
    /\ api' = [o \in Orders |-> Null]
    /\ UNCHANGED envVars

Ingest ==
    \/ BeginWallet \/ ListPage \/ EndWallet
    \/ ApplyNext \/ ApplyRejected
    \/ ReadTip \/ ConfirmDeposits

PNext ==
    \/ MineBlock
    \/ DisconnectBlock
    \/ \E d \in Outputs : Report(d)
    \/ \E o \in Orders : ApiBestTip(o)
    \/ \E o \in Orders : ApiCreateInvoice(o)
    \/ ClockTick
    \/ BeginWallet \/ ListPage \/ EndWallet
    \/ ApplyNext \/ ApplyRejected
    \/ ReadTip \/ ConfirmDeposits
    \/ SyncFails \/ TipFails \/ Crash

PSpec == PInit /\ [][PNext]_allVars

\* The loop never stops by itself (for {} with a sleep) and juno-scan reports
\* what it has seen; nothing is assumed of the chain, the clock or the clients.
FairPSpec ==
    /\ PSpec
    /\ WF_allVars(Ingest)
    /\ \A d \in Outputs : WF_allVars(Report(d))

---------------------------------------------------------------------------
(***************************************************************************)
(* Properties                                                              *)
(***************************************************************************)

\* The loop and the environment stay in range.
PTypeOK ==
    /\ TypeOK
    /\ tip \in 0..MaxHeight
    /\ mined \in [Outputs -> 0..MaxHeight]
    /\ log \in [Wallets -> Seq(LogEntry)]
    /\ api \in [Orders -> 0..MaxHeight \cup {Null}]
    /\ loop \in LoopRow
    /\ reorgs \in 0..MaxReorgs /\ faults \in 0..MaxFaults

\* The reports of note d that the store has consumed.
Consumed(d) == {n \in Reports(d) : n <= cursor[Output[d].wallet]}

\* Exactly-once ingestion: through pages, failed calls, crashes and wallets
\* visited twice, the deposits table is what the log up to the cursor says,
\* with detected deposits possibly confirmed by the tip.
LogReflected ==
    \A d \in Outputs :
        LET last == log[Output[d].wallet][Max(Consumed(d))]
        IN  IF Consumed(d) = {} THEN deposits[d].status = "absent"
            ELSE /\ deposits[d].height = last.height
                 /\ \/ deposits[d].status = incomingStatus(last.kind)
                    \/ deposits[d].status = "confirmed" /\ incomingStatus(last.kind) = "detected"

\* A merchant's event stream makes sense: a deposit is announced as confirmed
\* only if it was announced as detected or, having come before its invoice, was
\* put before a person; and an invoice is announced as paid only if a deposit of
\* it was announced as confirmed.
StreamOrdered ==
    \A o \in Orders :
        /\ \A d \in Outputs :
              EventOf(o, "deposit.confirmed", d) \in events =>
                \/ EventOf(o, "deposit.detected", d) \in events
                \/ \E c \in reviews : c.subject = d
        /\ EventOf(o, "invoice.paid", Nobody) \in events =>
              \E d \in Outputs : EventOf(o, "deposit.confirmed", d) \in events

\* confirmed_height always belongs to the block the deposit is recorded in: a
\* deposit that moved to another block has to be confirmed again.
ConfirmedHeightCurrent ==
    \A d \in Outputs : deposits[d].status = "confirmed" =>
        deposits[d].confHeight =
            deposits[d].height + Required(Order[deposits[d].invoice].required) - 1

\* The loop catches up with every wallet's log again and again.
CatchesUp == \A w \in Wallets : []<>(cursor[w] = Len(log[w]))

\* Once the chain is quiet the store agrees with it: each credited note that is
\* deep enough is confirmed, each one that left the chain is orphaned.
Agrees(d) ==
    deposits[d].invoice # Nobody =>
        /\ mined[d] = 0 => deposits[d].status = "orphaned"
        /\ /\ mined[d] # 0
           /\ DeepEnough(tip, mined[d], Order[deposits[d].invoice].required)
           /\ DeepEnough(tip, mined[d], ScanConfs)
           => deposits[d].status = "confirmed"

Settles == \A d \in Outputs : <>[]Agrees(d)
===========================================================================
