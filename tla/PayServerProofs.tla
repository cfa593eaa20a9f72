-------------------------- MODULE PayServerProofs --------------------------
(***************************************************************************)
(* What the payment pipeline promises for every chain, event log, page     *)
(* size and set of merchants: the background loop makes only the steps of  *)
(* the SQL store, so all that SqlStoreProofs shows holds of it; the        *)
(* deposits table is what the consumed part of the scanner's log says; and *)
(* the stream of a merchant's events is in order.                          *)
(***************************************************************************)
EXTENDS PayServer, SqlStoreProofs

USE ConstantsAssumption

---------------------------------------------------------------------------
(* Least and greatest numbers *)

\* A nonempty set of natural numbers has a least member.
LEMMA Least ==
  ASSUME NEW T \in SUBSET Nat, T # {}
  PROVE  \E n \in T : \A k \in T : n <= k
<1> DEFINE R == OpToRel(<, Nat)
<1>1. IsWellFoundedOn(R, Nat)
  BY NatLessThanWellFounded
<1>2. \A x \in Nat, y \in Nat : y < x => <<y, x>> \in R
  BY DEF OpToRel
<1> HIDE DEF R
<1>3. PICK x \in T : \A y \in T : ~(<<y, x>> \in R)
  BY <1>1, WFMin
<1>4. ASSUME NEW k \in T PROVE x <= k
  <2>1. ~(k < x)
    BY <1>2, <1>3, Zenon
  <2> QED BY <2>1
<1> QED BY <1>4

\* A nonempty set of positions has a last one, which Max names.
LEMMA LastPosition ==
  ASSUME NEW k \in Nat, NEW S \in SUBSET (1..k), S # {}
  PROVE  Max(S) \in S /\ \A n \in S : n <= Max(S)
<1> DEFINE Uppers == {u \in Nat : \A n \in S : n <= u}
<1>1. k \in Uppers /\ Uppers \in SUBSET Nat
  OBVIOUS
<1> HIDE DEF Uppers
<1>2. PICK u \in Uppers : \A v \in Uppers : u <= v
  BY <1>1, Least
<1>3. u \in Nat /\ \A n \in S : n <= u
  BY DEF Uppers
<1>4. u \in S
  <2> SUFFICES ASSUME u \notin S PROVE FALSE
    OBVIOUS
  <2>1. \A n \in S : n <= u - 1
    BY <1>3
  <2>2. u - 1 \in Nat
    <3>1. PICK n \in S : TRUE
      OBVIOUS
    <3> QED BY <1>3, <2>1, <3>1
  <2>3. u - 1 \in Uppers
    BY <2>1, <2>2 DEF Uppers
  <2> QED BY <1>2, <1>3, <2>3
<1>5. \E x \in S : \A y \in S : x >= y
  BY <1>3, <1>4
<1> QED BY <1>5 DEF Max

---------------------------------------------------------------------------
(* The pipeline in range *)

\* PTypeOK without the store's tables.
PipelineOK ==
    /\ tip \in 0..MaxHeight
    /\ mined \in [Outputs -> 0..MaxHeight]
    /\ log \in [Wallets -> Seq(LogEntry)]
    /\ api \in [Orders -> 0..MaxHeight \cup {Null}]
    /\ loop \in LoopRow
    /\ reorgs \in 0..MaxReorgs /\ faults \in 0..MaxFaults

\* A wallet's log is about the notes of the wallet.
LogOwned ==
    \A w \in Wallets :
        /\ Len(log[w]) <= MaxCursor
        /\ \A n \in 1..Len(log[w]) : Output[log[w][n].output].wallet = w

\* The local cursor of the loop is the stored one while a wallet is being
\* synchronised, and a page in hand lies within the log.
LoopSound ==
    /\ cursor \in [Wallets -> Nat]
    /\ \A w \in Wallets : cursor[w] <= Len(log[w])
    /\ loop.pc \in {"list", "apply"} => loop.cursor = cursor[LoopWallet]
    /\ loop.pc = "apply" => loop.cursor < loop.last /\ loop.last <= Len(log[LoopWallet])

Base == PipelineOK /\ LogOwned /\ LoopSound

\* The wallet that is being synchronised is one of the wallets.
LEMMA LoopWalletType ==
  ASSUME PipelineOK
  PROVE  LoopWallet \in Wallets
<1>1. loop.i \in 1..Len(MerchantSeq)
  BY DEF PipelineOK, LoopRow
<1>2. MerchantSeq[loop.i] \in Merchants
  BY <1>1, PipelineAssumption
<1> QED BY <1>2 DEF LoopWallet

\* A pass starts in range, at any merchant, and ends so.
LEMMA LoopStartType ==
  /\ LoopStart \in LoopRow
  /\ [LoopStart EXCEPT !.pc = "tip"] \in LoopRow
  /\ \A i \in 1..Len(MerchantSeq) : [LoopStart EXCEPT !.i = i] \in LoopRow
<1>1. LoopStart \in LoopRow
  BY PipelineAssumption DEF LoopStart, LoopRow
<1> QED BY <1>1 DEF LoopRow

\* The positions of a note in its wallet's log.
LEMMA ReportsType ==
  ASSUME PipelineOK, NEW d \in Outputs
  PROVE  /\ Output[d].wallet \in Wallets
         /\ log[Output[d].wallet] \in Seq(LogEntry)
         /\ Len(log[Output[d].wallet]) \in Nat
         /\ Reports(d) = {n \in 1..Len(log[Output[d].wallet]) : log[Output[d].wallet][n].output = d}
         /\ Reports(d) # {} =>
              /\ Max(Reports(d)) \in Reports(d)
              /\ \A n \in Reports(d) : n <= Max(Reports(d))
              /\ LastReport(d) = log[Output[d].wallet][Max(Reports(d))]
              /\ LastReport(d) \in LogEntry
<1> DEFINE w == Output[d].wallet
<1>1. w \in Wallets
  BY DEF OutputRow
<1>2. log[w] \in Seq(LogEntry)
  BY <1>1 DEF PipelineOK
<1>3. Len(log[w]) \in Nat /\ DOMAIN log[w] = 1..Len(log[w])
  BY <1>2
<1>4. Reports(d) = {n \in 1..Len(log[w]) : log[w][n].output = d}
  BY <1>3 DEF Reports
<1>5. ASSUME Reports(d) # {}
      PROVE  /\ Max(Reports(d)) \in Reports(d)
             /\ \A n \in Reports(d) : n <= Max(Reports(d))
  <2>1. Reports(d) \in SUBSET (1..Len(log[w]))
    BY <1>4
  <2> QED BY <1>3, <1>5, <2>1, LastPosition
<1>6. ASSUME Reports(d) # {}
      PROVE  LastReport(d) = log[w][Max(Reports(d))] /\ LastReport(d) \in LogEntry
  <2>1. LastReport(d) = log[w][Max(Reports(d))]
    BY <1>6 DEF LastReport
  <2>2. Max(Reports(d)) \in 1..Len(log[w])
    BY <1>4, <1>5, <1>6
  <2> QED BY <1>2, <2>1, <2>2
<1> QED BY <1>1, <1>2, <1>3, <1>4, <1>5, <1>6

\* What the scanner appends for note d.
NewEntry(d) ==
    [kind |-> NextReport(d), output |-> d,
     height |-> IF NextReport(d) = "DepositEvent" THEN mined[d] ELSE LastReport(d).height]

\* It is an entry of the log, and it follows on the last report of d: a note
\* is found only when it was not known or was orphaned, and any other report
\* speaks of the height at which it was found.
LEMMA NewEntryType ==
  ASSUME PipelineOK, NEW d \in Outputs, NextReport(d) # "none"
  PROVE  /\ NewEntry(d) \in LogEntry
         /\ NewEntry(d).output = d
         /\ NewEntry(d).kind = NextReport(d)
         /\ Reports(d) = {} => NextReport(d) = "DepositEvent"
         /\ NextReport(d) = "DepositEvent" => LastReport(d).kind = "DepositOrphaned"
         /\ NextReport(d) # "DepositEvent" => NewEntry(d).height = LastReport(d).height
<1>1. mined[d] \in 0..MaxHeight
  BY DEF PipelineOK
<1>2. CASE LastReport(d).kind = "DepositOrphaned"
  <2>1. NextReport(d) = "DepositEvent" /\ mined[d] # 0
    BY <1>2 DEF NextReport
  <2>2. mined[d] \in 1..MaxHeight
    BY <1>1, <2>1
  <2> QED BY <1>2, <2>1, <2>2 DEF NewEntry, LogEntry, DepositKinds
<1>3. CASE LastReport(d).kind # "DepositOrphaned"
  <2>1. Reports(d) # {}
    BY <1>3 DEF LastReport
  <2>2. LastReport(d) \in LogEntry
    BY <2>1, ReportsType
  <2>3. NextReport(d) \in {"DepositOrphaned", "DepositUnconfirmed", "DepositConfirmed"}
    BY <1>3 DEF NextReport
  <2>4. LastReport(d).height \in 1..MaxHeight
    BY <2>2 DEF LogEntry
  <2> QED BY <2>1, <2>3, <2>4 DEF NewEntry, LogEntry, DepositKinds
<1> QED BY <1>2, <1>3

---------------------------------------------------------------------------
(* Base is inductive *)

\* The server and the scanner start empty.
LEMMA InitBase == PInit => Base
<1> SUFFICES ASSUME PInit PROVE Base
  OBVIOUS
<1>1. PipelineOK
  BY LoopStartType, PipelineAssumption DEF PInit, PipelineOK, Null
<1>2. LogOwned
  BY DEF PInit, LogOwned
<1>3. LoopSound
  BY DEF PInit, Init, LoopSound, LoopStart
<1> QED BY <1>1, <1>2, <1>3 DEF Base

\* The chain, the clients and the clock: the log and the loop are left alone.
LEMMA EnvironmentBase ==
  ASSUME Base,
         \/ MineBlock \/ DisconnectBlock \/ ClockTick
         \/ \E o \in Orders : ApiBestTip(o) \/ ApiCreateInvoice(o)
  PROVE  Base'
<1>1. log' = log /\ loop' = loop /\ cursor' = cursor
  BY DEF MineBlock, DisconnectBlock, ClockTick, Tick, ApiBestTip, ApiCreateInvoice,
         CreateInvoice, envVars, vars
<1>2. LogOwned' /\ LoopSound'
  BY <1>1 DEF Base, LogOwned, LoopSound, LoopWallet
<1>3. CASE MineBlock
  <2>1. tip' \in 0..MaxHeight /\ tip + 1 \in 0..MaxHeight
    BY <1>3 DEF MineBlock, Base, PipelineOK
  <2>2. mined' \in [Outputs -> 0..MaxHeight]
    BY <1>3, <2>1 DEF MineBlock, Base, PipelineOK
  <2> QED BY <1>1, <1>2, <1>3, <2>1, <2>2 DEF MineBlock, Base, PipelineOK
<1>4. CASE DisconnectBlock
  <2>1. mined' \in [Outputs -> 0..MaxHeight]
    BY <1>4 DEF DisconnectBlock, Base, PipelineOK
  <2>2. tip' \in 0..MaxHeight /\ reorgs' \in 0..MaxReorgs
    BY <1>4, PipelineAssumption DEF DisconnectBlock, Base, PipelineOK
  <2> QED BY <1>1, <1>2, <1>4, <2>1, <2>2 DEF DisconnectBlock, Base, PipelineOK
<1>5. CASE ClockTick
  BY <1>1, <1>2, <1>5 DEF ClockTick, envVars, Base, PipelineOK
<1>6. ASSUME NEW o \in Orders, ApiBestTip(o) \/ ApiCreateInvoice(o) PROVE Base'
  <2>1. api' \in [Orders -> 0..MaxHeight \cup {Null}]
    BY <1>6 DEF ApiBestTip, ApiCreateInvoice, Base, PipelineOK
  <2> QED BY <1>1, <1>2, <1>6, <2>1
        DEF ApiBestTip, ApiCreateInvoice, envVars, Base, PipelineOK
<1> QED BY <1>3, <1>4, <1>5, <1>6

\* What an appended report does to the logs.
LEMMA ReportLog ==
  ASSUME Base, NEW d \in Outputs, Report(d)
  PROVE  LET w == Output[d].wallet
         IN  /\ log' \in [Wallets -> Seq(LogEntry)]
             /\ Len(log'[w]) = Len(log[w]) + 1
             /\ Len(log'[w]) <= MaxCursor
             /\ log'[w][Len(log[w]) + 1] = NewEntry(d)
             /\ \A n \in 1..Len(log[w]) : log'[w][n] = log[w][n]
             /\ \A v \in Wallets : v # w => log'[v] = log[v]
<1> DEFINE w == Output[d].wallet
<1>1. w \in Wallets /\ log[w] \in Seq(LogEntry) /\ Len(log[w]) \in Nat
  BY ReportsType DEF Base
<1>2. NewEntry(d) \in LogEntry
  BY NewEntryType DEF Report, Base
<1>3. log' = [log EXCEPT ![w] = Append(@, NewEntry(d))] /\ Len(log[w]) < MaxCursor
  BY DEF Report, NewEntry
<1>4. log \in [Wallets -> Seq(LogEntry)]
  BY DEF Base, PipelineOK
<1> HIDE DEF w
<1>5. log'[w] = Append(log[w], NewEntry(d))
  BY <1>1, <1>3, <1>4
<1>6. Append(log[w], NewEntry(d)) \in Seq(LogEntry)
  BY <1>1, <1>2
<1>7. log' \in [Wallets -> Seq(LogEntry)]
  BY <1>3, <1>4, <1>6
<1>8. \A v \in Wallets : v # w => log'[v] = log[v]
  BY <1>3, <1>4
<1>9. /\ Len(log'[w]) = Len(log[w]) + 1
      /\ log'[w][Len(log[w]) + 1] = NewEntry(d)
      /\ \A n \in 1..Len(log[w]) : log'[w][n] = log[w][n]
  BY <1>1, <1>2, <1>5
<1>10. Len(log'[w]) <= MaxCursor
  BY <1>1, <1>3, <1>9
<1> QED BY <1>7, <1>8, <1>9, <1>10 DEF w

\* The scanner reports.
LEMMA ReportBase ==
  ASSUME Base, NEW d \in Outputs, Report(d)
  PROVE  Base'
<1> DEFINE w == Output[d].wallet
<1>1. /\ w \in Wallets
      /\ \A v \in Wallets : Len(log[v]) \in Nat
  <2>1. \A v \in Wallets : log[v] \in Seq(LogEntry)
    BY DEF Base, PipelineOK
  <2> QED BY <2>1, ReportsType DEF Base
<1>2. /\ log' \in [Wallets -> Seq(LogEntry)]
      /\ Len(log'[w]) = Len(log[w]) + 1
      /\ Len(log'[w]) <= MaxCursor
      /\ log'[w][Len(log[w]) + 1] = NewEntry(d)
      /\ \A n \in 1..Len(log[w]) : log'[w][n] = log[w][n]
      /\ \A v \in Wallets : v # w => log'[v] = log[v]
  BY ReportLog
<1>3. /\ UNCHANGED <<vars, tip, mined, api, loop, reorgs, faults>>
      /\ NextReport(d) # "none"
  BY DEF Report
<1>4. NewEntry(d).output = d
  BY <1>3, NewEntryType DEF Base
<1>5. PipelineOK'
  BY <1>2, <1>3 DEF Base, PipelineOK
<1> HIDE DEF w
<1>6. ASSUME NEW v \in Wallets PROVE Len(log[v]) <= Len(log'[v])
  <2>1. Len(log[v]) \in Nat /\ (v = w \/ log'[v] = log[v])
    BY <1>1, <1>2
  <2> QED BY <1>2, <2>1
<1>7. LogOwned'
  <2> SUFFICES ASSUME NEW v \in Wallets
               PROVE  /\ Len(log'[v]) <= MaxCursor
                      /\ \A n \in 1..Len(log'[v]) : Output[log'[v][n].output].wallet = v
    BY DEF LogOwned
  <2>1. /\ Len(log[v]) <= MaxCursor
        /\ \A n \in 1..Len(log[v]) : Output[log[v][n].output].wallet = v
    BY DEF Base, LogOwned
  <2>2. CASE v # w
    BY <1>2, <2>1, <2>2
  <2>3. CASE v = w
    <3>1. \A n \in 1..Len(log'[w]) : n \in 1..Len(log[w]) \/ n = Len(log[w]) + 1
      BY <1>1, <1>2
    <3>2. Output[log'[w][Len(log[w]) + 1].output].wallet = w
      BY <1>2, <1>4 DEF w
    <3> QED BY <1>2, <2>1, <2>3, <3>1, <3>2
  <2> QED BY <2>2, <2>3
<1>8. LoopSound'
  <2>1. loop' = loop /\ cursor' = cursor /\ LoopWallet' = LoopWallet
    BY <1>3 DEF vars, LoopWallet
  <2>2. LoopWallet \in Wallets
    BY LoopWalletType DEF Base
  <2>3. \A v \in Wallets : Len(log'[v]) \in Nat
    BY <1>1, <1>2
  <2>4. loop.last \in Nat
    BY DEF Base, PipelineOK, LoopRow
  <2> QED BY <1>1, <1>6, <2>1, <2>2, <2>3, <2>4 DEF Base, LoopSound
<1> QED BY <1>5, <1>7, <1>8 DEF Base

\* The event at hand is the one after the stored cursor of the loop's wallet.
LEMMA PageEventType ==
  ASSUME Base, loop.pc = "apply"
  PROVE  /\ LoopWallet \in Wallets
         /\ loop.cursor = cursor[LoopWallet]
         /\ cursor[LoopWallet] + 1 \in 1..Len(log[LoopWallet])
         /\ Output[PageEvent.output].wallet = LoopWallet
         /\ PageEvent \in ScanEvents
         /\ PageEvent.cursor = cursor[LoopWallet] + 1
         /\ PageEvent.kind \in DepositKinds
         /\ PageEvent.kind = log[LoopWallet][cursor[LoopWallet] + 1].kind
         /\ PageEvent.height = log[LoopWallet][cursor[LoopWallet] + 1].height
         /\ PageEvent.output = log[LoopWallet][cursor[LoopWallet] + 1].output
<1> DEFINE w == LoopWallet
           n == cursor[w] + 1
           e == log[w][n]
<1>1. w \in Wallets
  BY LoopWalletType DEF Base
<1>2. loop.cursor = cursor[w] /\ loop.cursor < loop.last /\ loop.last <= Len(log[w])
  BY DEF Base, LoopSound
<1>3. cursor[w] \in Nat /\ loop.last \in Nat
  BY <1>1 DEF Base, LoopSound, PipelineOK, LoopRow
<1>4. log[w] \in Seq(LogEntry) /\ Len(log[w]) \in Nat
  BY <1>1 DEF Base, PipelineOK
<1>5. n \in 1..Len(log[w])
  BY <1>2, <1>3, <1>4
<1>6. e \in LogEntry
  BY <1>4, <1>5
<1>7. Output[e.output].wallet = w /\ Len(log[w]) <= MaxCursor
  BY <1>1, <1>5 DEF Base, LogOwned
<1>8. PageEvent = [cursor |-> n, kind |-> e.kind, output |-> e.output, height |-> e.height]
  BY <1>2 DEF PageEvent
<1>9. n \in 1..MaxCursor
  BY <1>3, <1>4, <1>5, <1>7
<1> HIDE DEF w, n, e
<1>10. PageEvent \in ScanEvents
  BY <1>6, <1>8, <1>9 DEF LogEntry, ScanEvents
<1>11. /\ PageEvent.cursor = n /\ PageEvent.kind = e.kind /\ PageEvent.kind \in DepositKinds
       /\ PageEvent.output = e.output /\ PageEvent.height = e.height
  BY <1>6, <1>8 DEF LogEntry
<1> QED BY <1>1, <1>2, <1>5, <1>7, <1>10, <1>11 DEF w, n, e

\* Applying an event moves the stored cursor of the loop's wallet by one.
LEMMA ApplyNextCursor ==
  ASSUME Base, ApplyNext
  PROVE  /\ cursor' = [cursor EXCEPT ![LoopWallet] = cursor[LoopWallet] + 1]
         /\ loop.pc = "apply"
         /\ UNCHANGED <<envVars, api, faults>>
         /\ loop' = AfterEvent
<1>1. loop.pc = "apply" /\ ApplyScanEvent(PageEvent) /\ loop' = AfterEvent
      /\ UNCHANGED <<envVars, api, faults>>
  BY DEF ApplyNext
<1>2. cursor' = [cursor EXCEPT ![Output[PageEvent.output].wallet] = PageEvent.cursor]
  BY <1>1, Zenon DEF ApplyScanEvent
<1>3. Output[PageEvent.output].wallet = LoopWallet /\ PageEvent.cursor = cursor[LoopWallet] + 1
  BY <1>1, PageEventType
<1> QED BY <1>1, <1>2, <1>3, Zenon

LEMMA ApplyNextBase ==
  ASSUME Base, ApplyNext
  PROVE  Base'
<1> DEFINE w == LoopWallet
<1>1. /\ cursor' = [cursor EXCEPT ![w] = cursor[w] + 1]
      /\ loop.pc = "apply"
      /\ UNCHANGED <<envVars, api, faults>>
      /\ loop' = AfterEvent
  BY ApplyNextCursor
<1>2. /\ w \in Wallets
      /\ loop.cursor = cursor[w]
      /\ cursor[w] + 1 \in 1..Len(log[w])
  BY <1>1, PageEventType
<1>3. cursor \in [Wallets -> Nat] /\ (\A v \in Wallets : cursor[v] <= Len(log[v]))
      /\ loop.last \in Nat /\ loop.cursor < loop.last /\ loop.last <= Len(log[w])
      /\ loop \in LoopRow
  BY <1>1 DEF Base, LoopSound, PipelineOK, LoopRow
<1>4. /\ loop' \in LoopRow
      /\ loop'.cursor = loop.cursor + 1 /\ loop'.last = loop.last /\ loop'.i = loop.i
      /\ loop'.pc = IF loop.cursor + 1 = loop.last THEN "list" ELSE "apply"
  <2> DEFINE pc == IF loop.cursor + 1 = loop.last THEN "list" ELSE "apply"
             c == loop.cursor + 1
  <2>1. loop' = [loop EXCEPT !.cursor = c, !.pc = pc]
    BY <1>1 DEF AfterEvent
  <2>2. pc \in {"list", "apply"} /\ c \in Nat
    BY <1>3 DEF LoopRow
  <2> HIDE DEF pc, c
  <2>3. /\ loop' \in LoopRow /\ loop'.cursor = c /\ loop'.last = loop.last
        /\ loop'.i = loop.i /\ loop'.pc = pc
    BY <1>3, <2>1, <2>2 DEF LoopRow
  <2> QED BY <2>3 DEF pc, c
<1>5. LoopWallet' = w /\ log' = log
  BY <1>1, <1>4 DEF LoopWallet, envVars
<1>6. PipelineOK'
  BY <1>1, <1>4 DEF envVars, Base, PipelineOK
<1>7. LogOwned'
  BY <1>5 DEF Base, LogOwned
<1> HIDE DEF w
<1>8. cursor' \in [Wallets -> Nat] /\ cursor'[w] = cursor[w] + 1
      /\ \A v \in Wallets : v # w => cursor'[v] = cursor[v]
  BY <1>1, <1>2, <1>3
<1>9. cursor'[w] <= Len(log[w])
  BY <1>2, <1>8
<1>10. LoopSound'
  <2>1. \A v \in Wallets : cursor'[v] <= Len(log[v])
    BY <1>3, <1>8, <1>9
  <2>2. loop'.cursor = cursor'[w]
    BY <1>2, <1>4, <1>8
  <2>3. loop'.pc = "apply" => loop'.cursor < loop'.last /\ loop'.last <= Len(log[w])
    BY <1>2, <1>3, <1>4
  <2> QED BY <1>5, <1>8, <2>1, <2>2, <2>3 DEF LoopSound
<1> QED BY <1>6, <1>7, <1>10 DEF Base

\* The steps of the loop that write nothing to the store, and a crash.
LEMMA LoopBase ==
  ASSUME Base,
         \/ BeginWallet \/ ListPage \/ EndWallet \/ ApplyRejected
         \/ ReadTip \/ ConfirmDeposits \/ SyncFails \/ TipFails \/ Crash
  PROVE  Base'
<1>1. UNCHANGED envVars /\ cursor' = cursor
  BY DEF BeginWallet, ListPage, EndWallet, ApplyRejected, ReadTip, ConfirmDeposits, SyncFails,
         TipFails, Crash, Restart, UpdateInvoiceConfirmations, vars
<1>2. log' = log /\ LogOwned'
  BY <1>1 DEF envVars, Base, LogOwned
<1>3. api' \in [Orders -> 0..MaxHeight \cup {Null}] /\ faults' \in 0..MaxFaults
  <2>1. api' = api \/ api' = [o \in Orders |-> Null]
    BY DEF BeginWallet, ListPage, EndWallet, ApplyRejected, ReadTip, ConfirmDeposits, SyncFails,
           TipFails, Crash
  <2>2. faults' = faults \/ (faults < MaxFaults /\ faults' = faults + 1)
    BY DEF BeginWallet, ListPage, EndWallet, ApplyRejected, ReadTip, ConfirmDeposits, SyncFails,
           TipFails, Crash
  <2> QED BY <2>1, <2>2, PipelineAssumption DEF Base, PipelineOK
<1>4. SUFFICES /\ loop' \in LoopRow
               /\ loop'.pc \in {"list", "apply"} => loop'.cursor = cursor[LoopWallet']
               /\ loop'.pc = "apply" =>
                    loop'.cursor < loop'.last /\ loop'.last <= Len(log[LoopWallet'])
  BY <1>1, <1>2, <1>3 DEF envVars, Base, PipelineOK, LoopSound
<1>5. loop \in LoopRow /\ tip \in 0..MaxHeight /\ LoopWallet \in Wallets
  BY LoopWalletType DEF Base, PipelineOK
<1>6. cursor[LoopWallet] \in Nat /\ Len(log[LoopWallet]) \in Nat
  BY <1>5 DEF Base, PipelineOK, LoopSound
<1>7. CASE loop' = LoopStart \/ loop' = [LoopStart EXCEPT !.pc = "tip"]
  BY <1>7, LoopStartType DEF LoopStart
<1>8. CASE BeginWallet
  <2>1. loop' = [loop EXCEPT !.pc = "list", !.cursor = cursor[LoopWallet]]
    BY <1>8 DEF BeginWallet
  <2>2. loop' \in LoopRow /\ loop'.pc = "list" /\ loop'.cursor = cursor[LoopWallet] /\ loop'.i = loop.i
    BY <1>5, <1>6, <2>1 DEF LoopRow
  <2> QED BY <2>2 DEF LoopWallet
<1>9. CASE ListPage
  <2> DEFINE n == Len(log[LoopWallet]) - loop.cursor
             m == loop.cursor + (IF n < PageSize THEN n ELSE PageSize)
  <2>1. loop' = [loop EXCEPT !.pc = "apply", !.last = m] /\ n > 0 /\ loop.pc = "list"
    BY <1>9 DEF ListPage
  <2>2. loop.cursor \in Nat /\ loop.cursor = cursor[LoopWallet]
    BY <1>5, <2>1 DEF LoopRow, Base, LoopSound
  <2>3. m \in Nat /\ loop.cursor < m /\ m <= Len(log[LoopWallet])
    <3>1. PageSize \in Nat \ {0} /\ n \in Int /\ n > 0
      BY <1>6, <2>1, <2>2, PipelineAssumption
    <3>2. CASE n < PageSize
      BY <1>6, <2>2, <3>1, <3>2
    <3>3. CASE ~(n < PageSize)
      BY <1>6, <2>2, <3>1, <3>3
    <3> QED BY <3>2, <3>3
  <2> HIDE DEF m, n
  <2>4. /\ loop' \in LoopRow /\ loop'.pc = "apply" /\ loop'.last = m
        /\ loop'.cursor = loop.cursor /\ loop'.i = loop.i
    BY <1>5, <2>1, <2>3 DEF LoopRow
  <2> QED BY <2>2, <2>3, <2>4 DEF LoopWallet
<1>10. CASE EndWallet
  <2>1. CASE loop.i < Len(MerchantSeq)
    <3>1. loop' = [LoopStart EXCEPT !.i = loop.i + 1]
      BY <1>10, <2>1 DEF EndWallet
    <3>2. loop.i + 1 \in 1..Len(MerchantSeq)
      BY <1>5, <2>1, PipelineAssumption DEF LoopRow
    <3>3. loop' \in LoopRow
      BY <3>1, <3>2, LoopStartType
    <3>4. loop'.pc = "wallet"
      BY <3>1 DEF LoopStart
    <3> QED BY <3>3, <3>4
  <2>2. CASE ~(loop.i < Len(MerchantSeq))
    BY <1>7, <1>10, <2>2 DEF EndWallet
  <2> QED BY <2>1, <2>2
<1>11. CASE ReadTip
  <2>1. loop' = [loop EXCEPT !.pc = "confirm", !.best = tip]
    BY <1>11 DEF ReadTip
  <2> QED BY <1>5, <2>1 DEF LoopRow
<1> QED BY <1>7, <1>8, <1>9, <1>10, <1>11
      DEF ApplyRejected, ConfirmDeposits, SyncFails, TipFails, Crash

LEMMA NextBase == Base /\ [PNext]_allVars => Base'
<1> SUFFICES ASSUME Base, [PNext]_allVars PROVE Base'
  OBVIOUS
<1>1. CASE UNCHANGED allVars
  BY <1>1 DEF allVars, envVars, vars, Base, PipelineOK, LogOwned, LoopSound, LoopWallet
<1>2. CASE PNext
  <2>1. ASSUME NEW d \in Outputs, Report(d) PROVE Base'
    BY <2>1, ReportBase
  <2>2. CASE \/ MineBlock \/ DisconnectBlock \/ ClockTick
             \/ \E o \in Orders : ApiBestTip(o) \/ ApiCreateInvoice(o)
    BY <2>2, EnvironmentBase
  <2>3. CASE \/ BeginWallet \/ ListPage \/ EndWallet \/ ApplyRejected
             \/ ReadTip \/ ConfirmDeposits \/ SyncFails \/ TipFails \/ Crash
    BY <2>3, LoopBase
  <2>4. CASE ApplyNext
    BY <2>4, ApplyNextBase
  <2> QED BY <1>2, <2>1, <2>2, <2>3, <2>4 DEF PNext
<1> QED BY <1>1, <1>2

---------------------------------------------------------------------------
(* The pipeline implements the store *)

\* What a step of the pipeline does to the store.  All of them but the four
\* transactions and the clock leave it alone.
LEMMA StoreStep ==
  ASSUME Base, [PNext]_allVars
  PROVE  \/ UNCHANGED vars
         \/ \E o \in Orders, best \in 0..MaxHeight : CreateInvoice(o, best) /\ log' = log
         \/ ApplyNext /\ PageEvent \in ScanEvents /\ ApplyScanEvent(PageEvent) /\ log' = log
         \/ \E best \in 0..MaxHeight : UpdateInvoiceConfirmations(best) /\ log' = log
         \/ (Restart \/ Tick) /\ log' = log
<1>1. CASE UNCHANGED allVars
  BY <1>1 DEF allVars
<1>2. CASE PNext
  <2>1. ASSUME NEW o \in Orders, ApiCreateInvoice(o)
        PROVE  \E best \in 0..MaxHeight : CreateInvoice(o, best) /\ log' = log
    <3>1. api[o] \in 0..MaxHeight
      BY <2>1 DEF ApiCreateInvoice, Base, PipelineOK
    <3> QED BY <2>1, <3>1 DEF ApiCreateInvoice, envVars
  <2>2. CASE ApplyNext
    <3>1. loop.pc = "apply" /\ ApplyScanEvent(PageEvent) /\ log' = log
      BY <2>2 DEF ApplyNext, envVars
    <3>2. PageEvent \in ScanEvents
      BY <3>1, PageEventType
    <3> QED BY <2>2, <3>1, <3>2
  <2>3. CASE ConfirmDeposits
    <3>1. loop.best \in 0..MaxHeight
      BY DEF Base, PipelineOK, LoopRow
    <3>2. UpdateInvoiceConfirmations(loop.best) /\ log' = log
      BY <2>3 DEF ConfirmDeposits, envVars
    <3> QED BY <3>1, <3>2
  <2>4. CASE Crash \/ ClockTick
    BY <2>4 DEF Crash, ClockTick, envVars
  <2>5. CASE \/ MineBlock \/ DisconnectBlock \/ (\E d \in Outputs : Report(d))
             \/ (\E o \in Orders : ApiBestTip(o))
             \/ BeginWallet \/ ListPage \/ EndWallet \/ ApplyRejected
             \/ ReadTip \/ SyncFails \/ TipFails
    BY <2>5 DEF MineBlock, DisconnectBlock, Report, ApiBestTip, BeginWallet, ListPage, EndWallet,
                ApplyRejected, ReadTip, SyncFails, TipFails
  <2> QED BY <1>2, <2>1, <2>2, <2>3, <2>4, <2>5 DEF PNext
<1> QED BY <1>1, <1>2

LEMMA StoreNext ==
  ASSUME Base, [PNext]_allVars
  PROVE  [Next]_vars
<1>1. \/ UNCHANGED vars
      \/ \E o \in Orders, best \in 0..MaxHeight : CreateInvoice(o, best)
      \/ PageEvent \in ScanEvents /\ ApplyScanEvent(PageEvent)
      \/ \E best \in 0..MaxHeight : UpdateInvoiceConfirmations(best)
      \/ Restart \/ Tick
  BY StoreStep
<1> QED BY <1>1 DEF Next

\* The loop hands the store only what the store accepts of any caller: the
\* pipeline, seen through its tables, is a behaviour of SqlStore, so every
\* theorem of SqlStoreProofs is one about the running server.
THEOREM ImplementsStore == PSpec => Spec
<1>1. PInit => Init
  BY DEF PInit
<1>2. PSpec => []Base
  BY InitBase, NextBase, PTL DEF PSpec
<1>3. Base /\ [PNext]_allVars => [Next]_vars
  BY StoreNext
<1> QED BY <1>1, <1>2, <1>3, PTL DEF PSpec, Spec

\* The chain, the log, the requests and the loop stay in range, and so do the
\* store's tables.
THEOREM PTypeCorrect == PSpec => []PTypeOK
<1>1. PSpec => []Base
  BY InitBase, NextBase, PTL DEF PSpec
<1>2. Base /\ TypeOK => PTypeOK
  BY DEF Base, PipelineOK, PTypeOK
<1> QED BY <1>1, <1>2, ImplementsStore, TypeCorrect, PTL

---------------------------------------------------------------------------
(* The log and the deposits table *)

\* The reports of a note follow each other: the first finds it, a later one
\* finds it only after it was orphaned, and any other report is about the
\* height at which it was found last.
LogOrder ==
    \A d \in Outputs : \A n \in Reports(d) :
        LET L == log[Output[d].wallet]
        IN  /\ (\A m \in Reports(d) : n <= m) => L[n].kind = "DepositEvent"
            /\ \A m \in Reports(d) : m < n /\ (\A k \in Reports(d) : k <= m \/ n <= k) =>
                  /\ L[n].kind = "DepositEvent" => L[m].kind = "DepositOrphaned"
                  /\ L[n].kind # "DepositEvent" => L[n].height = L[m].height

\* A report adds one position to the reports of its note and none to others.
LEMMA ReportsAfter ==
  ASSUME Base, NEW d \in Outputs, Report(d), NEW x \in Outputs
  PROVE  /\ Reports(x)' = IF x = d THEN Reports(d) \cup {Len(log[Output[d].wallet]) + 1}
                          ELSE Reports(x)
         /\ \A n \in Reports(x) : log'[Output[x].wallet][n] = log[Output[x].wallet][n]
<1> DEFINE w == Output[d].wallet
           v == Output[x].wallet
           k == Len(log[w]) + 1
<1>1. w \in Wallets /\ v \in Wallets /\ Len(log[w]) \in Nat /\ Len(log[v]) \in Nat
      /\ Reports(x) = {n \in 1..Len(log[v]) : log[v][n].output = x}
  BY ReportsType DEF Base
<1>2. /\ Len(log'[w]) = k
      /\ log'[w][k] = NewEntry(d)
      /\ \A n \in 1..Len(log[w]) : log'[w][n] = log[w][n]
      /\ \A u \in Wallets : u # w => log'[u] = log[u]
  BY ReportLog
<1>3. NewEntry(d).output = d
  BY NewEntryType DEF Report, Base
<1>4. PipelineOK'
  BY ReportBase DEF Base
<1>5. Reports(x)' = {n \in 1..Len(log'[v]) : log'[v][n].output = x}
  <2>1. log'[v] \in Seq(LogEntry)
    BY <1>1, <1>4 DEF PipelineOK
  <2>2. DOMAIN log'[v] = 1..Len(log'[v])
    BY <2>1
  <2> QED BY <2>2 DEF Reports
<1> HIDE DEF w, v, k
<1>6. \A n \in 1..Len(log[v]) : log'[v][n] = log[v][n]
  BY <1>1, <1>2
<1>7. CASE v # w
  <2>1. Reports(x)' = Reports(x)
    BY <1>1, <1>2, <1>5, <1>7
  <2>2. x # d
    BY <1>7 DEF v, w
  <2> QED BY <1>1, <1>6, <2>1, <2>2 DEF v
<1>8. CASE v = w
  <2>1. 1..Len(log'[v]) = (1..Len(log[v])) \cup {k}
    BY <1>1, <1>2, <1>8 DEF k
  <2>2. log'[v][k].output = d
    BY <1>2, <1>3, <1>8
  <2>3. Reports(x)' = Reports(x) \cup (IF x = d THEN {k} ELSE {})
    BY <1>1, <1>5, <1>6, <2>1, <2>2
  <2> QED BY <1>1, <1>6, <2>3 DEF v, w, k
<1> QED BY <1>7, <1>8

LEMMA LogUntouched ==
  ASSUME [PNext]_allVars
  PROVE  log' = log \/ \E d \in Outputs : Report(d)
  BY DEF PNext, allVars, envVars, vars, MineBlock, DisconnectBlock, ApiBestTip, ApiCreateInvoice,
         ClockTick, BeginWallet, ListPage, EndWallet, ApplyNext, ApplyRejected, ReadTip,
         ConfirmDeposits, SyncFails, TipFails, Crash

LEMMA NextLogOrder ==
  ASSUME Base, LogOrder, [PNext]_allVars
  PROVE  LogOrder'
<1>1. CASE log' = log
  BY <1>1 DEF LogOrder, Reports
<1>2. ASSUME NEW d \in Outputs, Report(d) PROVE LogOrder'
  <2> SUFFICES ASSUME NEW x \in Outputs, NEW n \in Reports(x)'
               PROVE  LET L == log'[Output[x].wallet]
                      IN  /\ (\A m \in Reports(x)' : n <= m) => L[n].kind = "DepositEvent"
                          /\ \A m \in Reports(x)' :
                                m < n /\ (\A k \in Reports(x)' : k <= m \/ n <= k) =>
                                  /\ L[n].kind = "DepositEvent" => L[m].kind = "DepositOrphaned"
                                  /\ L[n].kind # "DepositEvent" => L[n].height = L[m].height
    BY DEF LogOrder
  <2> DEFINE v == Output[x].wallet
             k == Len(log[v]) + 1
             L == log[v]
             M == log'[v]
  <2>1. /\ Reports(x)' = IF x = d THEN Reports(x) \cup {k} ELSE Reports(x)
        /\ \A m \in Reports(x) : M[m] = L[m]
    BY <1>2, ReportsAfter
  <2>2. Reports(x) \subseteq 1..(k - 1) /\ k \in Nat
    BY ReportsType DEF Base
  <2>3. CASE n \in Reports(x)
    <3>1. /\ (\A m \in Reports(x) : n <= m) => L[n].kind = "DepositEvent"
          /\ \A m \in Reports(x) : m < n /\ (\A j \in Reports(x) : j <= m \/ n <= j) =>
                /\ L[n].kind = "DepositEvent" => L[m].kind = "DepositOrphaned"
                /\ L[n].kind # "DepositEvent" => L[n].height = L[m].height
      BY <2>3 DEF LogOrder
    <3> HIDE DEF v, k, L, M
    <3>2. \A m \in Reports(x)' : m < n => m \in Reports(x)
      BY <2>1, <2>2, <2>3
    <3>3. Reports(x) \subseteq Reports(x)'
      BY <2>1
    <3>4. M[n] = L[n]
      BY <2>1, <2>3
    <3>5. (\A m \in Reports(x)' : n <= m) => M[n].kind = "DepositEvent"
      BY <3>1, <3>3, <3>4
    <3>6. ASSUME NEW m \in Reports(x)', m < n, \A j \in Reports(x)' : j <= m \/ n <= j
          PROVE  /\ M[n].kind = "DepositEvent" => M[m].kind = "DepositOrphaned"
                 /\ M[n].kind # "DepositEvent" => M[n].height = M[m].height
      <4>1. m \in Reports(x) /\ \A j \in Reports(x) : j <= m \/ n <= j
        BY <3>2, <3>3, <3>6
      <4>2. M[m] = L[m]
        BY <2>1, <4>1
      <4> QED BY <3>1, <3>4, <3>6, <4>1, <4>2
    <3> QED BY <3>5, <3>6 DEF M, v
  <2>4. CASE n \notin Reports(x)
    <3>1. x = d /\ n = k /\ Reports(x)' = Reports(x) \cup {k}
      BY <2>1, <2>4
    <3>2. NextReport(x) # "none"
      BY <1>2, <3>1 DEF Report
    <3>3. M[k] = NewEntry(x)
      BY <1>2, <3>1, ReportLog
    <3>4. /\ NewEntry(x).kind = NextReport(x)
          /\ Reports(x) = {} => NextReport(x) = "DepositEvent"
          /\ NextReport(x) = "DepositEvent" => LastReport(x).kind = "DepositOrphaned"
          /\ NextReport(x) # "DepositEvent" => NewEntry(x).height = LastReport(x).height
      BY <3>2, NewEntryType DEF Base
    <3>5. Reports(x) # {} => /\ Max(Reports(x)) \in Reports(x)
                             /\ \A m \in Reports(x) : m <= Max(Reports(x))
                             /\ LastReport(x) = L[Max(Reports(x))]
      BY ReportsType DEF Base
    <3> HIDE DEF v, k, L, M
    <3>6. (\A m \in Reports(x)' : n <= m) => M[n].kind = "DepositEvent"
      <4>1. (\A m \in Reports(x)' : n <= m) => Reports(x) = {}
        BY <2>2, <3>1
      <4> QED BY <3>1, <3>3, <3>4, <4>1
    <3>7. ASSUME NEW m \in Reports(x)', m < n, \A j \in Reports(x)' : j <= m \/ n <= j
          PROVE  /\ M[n].kind = "DepositEvent" => M[m].kind = "DepositOrphaned"
                 /\ M[n].kind # "DepositEvent" => M[n].height = M[m].height
      <4>1. m \in Reports(x)
        BY <2>2, <3>1, <3>7
      <4>2. \A j \in Reports(x) : j <= m
        BY <2>2, <3>1, <3>7
      <4>3. m = Max(Reports(x))
        BY <2>2, <3>5, <4>1, <4>2
      <4>4. LastReport(x) = M[m]
        BY <2>1, <3>5, <4>1, <4>3
      <4> QED BY <3>1, <3>3, <3>4, <4>4
    <3> QED BY <3>6, <3>7 DEF M, v
  <2> QED BY <2>3, <2>4
<1> QED BY <1>1, <1>2, LogUntouched

\* LogReflected for one note.
Reflected(d) ==
    LET last == log[Output[d].wallet][Max(Consumed(d))]
    IN  IF Consumed(d) = {} THEN deposits[d].status = "absent"
        ELSE /\ deposits[d].height = last.height
             /\ \/ deposits[d].status = incomingStatus(last.kind)
                \/ deposits[d].status = "confirmed" /\ incomingStatus(last.kind) = "detected"

\* The consumed reports of a note have a last one.
LEMMA ConsumedType ==
  ASSUME PipelineOK, NEW d \in Outputs
  PROVE  /\ Consumed(d) \subseteq Reports(d)
         /\ Consumed(d) # {} => /\ Max(Consumed(d)) \in Consumed(d)
                                /\ \A n \in Consumed(d) : n <= Max(Consumed(d))
<1>1. Consumed(d) \subseteq Reports(d)
  BY DEF Consumed
<1>2. /\ Len(log[Output[d].wallet]) \in Nat
      /\ Reports(d) \subseteq 1..Len(log[Output[d].wallet])
  BY ReportsType
<1> QED BY <1>1, <1>2, LastPosition

\* While the cursor stands still nothing is consumed and nothing consumed changes:
\* the log only grows beyond the cursor.
LEMMA ConsumedSame ==
  ASSUME Base, [PNext]_allVars, cursor' = cursor, NEW x \in Outputs
  PROVE  /\ Consumed(x)' = Consumed(x)
         /\ \A n \in Consumed(x) : log'[Output[x].wallet][n] = log[Output[x].wallet][n]
<1>1. CASE log' = log
  BY <1>1 DEF Consumed, Reports
<1>2. ASSUME NEW d \in Outputs, Report(d)
      PROVE  /\ Consumed(x)' = Consumed(x)
             /\ \A n \in Consumed(x) : log'[Output[x].wallet][n] = log[Output[x].wallet][n]
  <2> DEFINE v == Output[x].wallet
  <2>1. /\ Reports(x)' = IF x = d THEN Reports(x) \cup {Len(log[v]) + 1} ELSE Reports(x)
        /\ \A n \in Reports(x) : log'[v][n] = log[v][n]
    BY <1>2, ReportsAfter
  <2>2. v \in Wallets /\ Len(log[v]) \in Nat
    BY ReportsType DEF Base
  <2>3. cursor[v] \in Nat /\ cursor[v] <= Len(log[v])
    BY <2>2 DEF Base, LoopSound
  <2>4. Consumed(x)' = {n \in Reports(x)' : n <= cursor[v]}
    BY DEF Consumed
  <2>5. Consumed(x) = {n \in Reports(x) : n <= cursor[v]}
    BY DEF Consumed
  <2> HIDE DEF v
  <2>6. Consumed(x)' = Consumed(x)
    BY <2>1, <2>2, <2>3, <2>4, <2>5
  <2> QED BY <2>1, <2>5, <2>6 DEF v
<1> QED BY <1>1, <1>2, LogUntouched

\* Such a step keeps the row of a note in agreement with the log when it leaves
\* the row alone or confirms it.
LEMMA ReflectedSame ==
  ASSUME Base, [PNext]_allVars, cursor' = cursor, NEW x \in Outputs, Reflected(x),
         \/ deposits'[x] = deposits[x]
         \/ /\ deposits[x].status = "detected"
            /\ deposits'[x].status = "confirmed"
            /\ deposits'[x].height = deposits[x].height
  PROVE  Reflected(x)'
<1> DEFINE L == log[Output[x].wallet]
           M == log'[Output[x].wallet]
           k == Max(Consumed(x))
<1>1. /\ Consumed(x)' = Consumed(x)
      /\ \A n \in Consumed(x) : M[n] = L[n]
  BY ConsumedSame
<1>2. Consumed(x) # {} => k \in Consumed(x)
  BY ConsumedType DEF Base
<1>3. Consumed(x) # {} => M[k] = L[k]
  BY <1>1, <1>2
<1>4. CASE Consumed(x) = {}
  <2>1. deposits[x].status = "absent"
    BY <1>4 DEF Reflected
  <2> QED BY <1>1, <1>4, <2>1 DEF Reflected
<1>5. CASE Consumed(x) # {}
  <2>1. /\ deposits[x].height = L[k].height
        /\ \/ deposits[x].status = incomingStatus(L[k].kind)
           \/ deposits[x].status = "confirmed" /\ incomingStatus(L[k].kind) = "detected"
    BY <1>5 DEF Reflected
  <2>2. /\ deposits'[x].height = M[k].height
        /\ \/ deposits'[x].status = incomingStatus(M[k].kind)
           \/ deposits'[x].status = "confirmed" /\ incomingStatus(M[k].kind) = "detected"
    BY <1>3, <1>5, <2>1
  <2>3. Max(Consumed(x)') = k
    BY <1>1
  <2> QED BY <1>1, <1>5, <2>2, <2>3 DEF Reflected, incomingStatus
<1> QED BY <1>4, <1>5

\* Applying the event at hand: the row of its note, and what is consumed.
LEMMA ApplyNextRow ==
  ASSUME Base, Inv, ApplyNext
  PROVE  LET e      == PageEvent
             d      == e.output
             old    == deposits[d]
             status == incomingStatus(e.kind)
         IN  /\ d \in Outputs
             /\ \A x \in Outputs : x # d => deposits'[x] = deposits[x]
             /\ deposits'[d].height = e.height
             /\ deposits'[d].status = IF old.status = "confirmed" /\ status = "detected"
                                      THEN "confirmed" ELSE status
             /\ status = "detected" => deposits'[d].confHeight = old.confHeight
             /\ deposits'[d].invoice = IF old.invoice # Nobody THEN old.invoice
                                       ELSE applyInvoiceID(d, e.height)
<1> DEFINE e == PageEvent
           d == e.output
           status == incomingStatus(e.kind)
           o == applyInvoiceID(d, e.height)
<1>1. loop.pc = "apply" /\ ApplyScanEvent(e)
  BY DEF ApplyNext
<1>2. e \in ScanEvents /\ e.kind \in DepositKinds
  BY <1>1, PageEventType
<1>3. d \in Outputs
  BY <1>2 DEF ScanEvents
<1>4. applyDepositEvent(d, e.height, status)
  BY <1>1, <1>2 DEF ApplyScanEvent
<1>5. deposits' = [deposits EXCEPT ![d] = upsertDeposit(d, e.height, status, o)]
  BY <1>4 DEF applyDepositEvent
<1>6. deposits \in [Outputs -> DepositRow]
  BY DEF Inv, Shape
<1> HIDE DEF e, d, status, o
<1>7. deposits'[d] = upsertDeposit(d, e.height, status, o)
      /\ \A x \in Outputs : x # d => deposits'[x] = deposits[x]
  BY <1>3, <1>5, <1>6
<1>8. /\ deposits'[d].height = e.height
      /\ deposits'[d].status = IF deposits[d].status = "confirmed" /\ status = "detected"
                               THEN "confirmed" ELSE status
      /\ status = "detected" => deposits'[d].confHeight = deposits[d].confHeight
      /\ deposits'[d].invoice = IF deposits[d].invoice # Nobody THEN deposits[d].invoice ELSE o
  BY <1>7 DEF upsertDeposit
<1> QED BY <1>3, <1>7, <1>8 DEF e, d, status, o

LEMMA ApplyNextConsumed ==
  ASSUME Base, ApplyNext, NEW d, d = PageEvent.output, NEW w, w = LoopWallet,
         NEW n, n = cursor[w] + 1
  PROVE  /\ n \in Reports(d) /\ n \notin Consumed(d)
         /\ Output[d].wallet = w
         /\ \A k \in Reports(d) : k \in Consumed(d) <=> k < n
         /\ Consumed(d)' = Consumed(d) \cup {n}
         /\ Max(Consumed(d)') = n
         /\ \A x \in Outputs : x # d => Consumed(x)' = Consumed(x)
<1>1. /\ cursor' = [cursor EXCEPT ![w] = cursor[w] + 1]
      /\ loop.pc = "apply"
      /\ log' = log
  BY ApplyNextCursor DEF envVars
<1>2. /\ w \in Wallets
      /\ n \in 1..Len(log[w])
      /\ Output[d].wallet = w
      /\ d = log[w][n].output
      /\ PageEvent \in ScanEvents
  BY <1>1, PageEventType
<1>3. d \in Outputs
  BY <1>2 DEF ScanEvents
<1>4. cursor \in [Wallets -> Nat]
  BY DEF Base, LoopSound
<1>5. ASSUME NEW x \in Outputs
      PROVE  /\ Reports(x) = {k \in 1..Len(log[Output[x].wallet]) :
                                 log[Output[x].wallet][k].output = x}
             /\ Consumed(x) = {k \in Reports(x) : k <= cursor[Output[x].wallet]}
             /\ Consumed(x)' = {k \in Reports(x) : k <= cursor'[Output[x].wallet]}
             /\ Output[x].wallet \in Wallets
             /\ Len(log[Output[x].wallet]) \in Nat
  <2>1. Reports(x)' = Reports(x)
    BY <1>1 DEF Reports
  <2> QED BY <2>1, ReportsType DEF Base, Consumed
<1>6. cursor[w] \in Nat /\ cursor'[w] = n
      /\ \A v \in Wallets : v # w => cursor'[v] = cursor[v]
  BY <1>1, <1>2, <1>4
<1>7. n \in Reports(d) /\ n \notin Consumed(d)
  BY <1>2, <1>3, <1>5, <1>6
<1>8. \A k \in Reports(d) : k \in Consumed(d) <=> k < n
  BY <1>2, <1>3, <1>5, <1>6
<1>9. Consumed(d)' = Consumed(d) \cup {n}
  BY <1>2, <1>3, <1>5, <1>6, <1>7
<1>10. ASSUME NEW x \in Outputs, x # d PROVE Consumed(x)' = Consumed(x)
  <2>1. CASE Output[x].wallet # w
    BY <1>5, <1>6, <2>1
  <2>2. CASE Output[x].wallet = w
    <3>1. n \notin Reports(x)
      BY <1>2, <1>5, <1>10, <2>2
    <3>2. /\ Consumed(x) = {k \in Reports(x) : k <= cursor[w]}
          /\ Consumed(x)' = {k \in Reports(x) : k <= cursor'[w]}
          /\ \A k \in Reports(x) : k \in Nat
      BY <1>5, <2>2
    <3>3. \A k \in Reports(x) : k <= cursor[w] <=> k <= n
      BY <1>6, <3>1, <3>2
    <3> QED BY <1>6, <3>2, <3>3
  <2> QED BY <2>1, <2>2
<1>11. Max(Consumed(d)') = n
  <2>1. n \in Consumed(d)' /\ \A k \in Consumed(d)' : k <= n
    BY <1>3, <1>5, <1>6, <1>2, <1>9
  <2>2. Consumed(d)' \in SUBSET (1..Len(log[Output[d].wallet])) /\ Len(log[Output[d].wallet]) \in Nat
    BY <1>3, <1>5
  <2>3. Max(Consumed(d)') \in Consumed(d)' /\ \A k \in Consumed(d)' : k <= Max(Consumed(d)')
    BY <2>1, <2>2, LastPosition
  <2> QED BY <2>1, <2>2, <2>3
<1> QED BY <1>2, <1>7, <1>8, <1>9, <1>10, <1>11

LEMMA ApplyNextReflected ==
  ASSUME Base, Inv, ApplyNext, NEW x \in Outputs, Reflected(x)
  PROVE  Reflected(x)'
<1>0. PICK d, w, n : d = PageEvent.output /\ w = LoopWallet /\ n = cursor[w] + 1
  OBVIOUS
<1> DEFINE e == PageEvent
<1>1. /\ Consumed(d)' = Consumed(d) \cup {n}
      /\ Max(Consumed(d)') = n
      /\ Output[d].wallet = w
      /\ x # d => Consumed(x)' = Consumed(x)
  BY <1>0, ApplyNextConsumed
<1>2. /\ x # d => deposits'[x] = deposits[x]
      /\ deposits'[d].height = e.height
      /\ deposits'[d].status = IF deposits[d].status = "confirmed"
                                    /\ incomingStatus(e.kind) = "detected"
                               THEN "confirmed" ELSE incomingStatus(e.kind)
  BY <1>0, ApplyNextRow
<1>3. loop.pc = "apply" /\ log' = log
  BY DEF ApplyNext, envVars
<1>4. e.kind = log[w][n].kind /\ e.height = log[w][n].height
  BY <1>0, <1>3, PageEventType
<1> HIDE DEF e
<1>5. CASE x # d
  BY <1>1, <1>2, <1>3, <1>5 DEF Reflected
<1>6. CASE x = d
  <2>1. Consumed(x)' # {} /\ Max(Consumed(x)') = n /\ Output[x].wallet = w
    BY <1>1, <1>6
  <2>2. /\ deposits'[x].height = log[w][n].height
        /\ \/ deposits'[x].status = incomingStatus(log[w][n].kind)
           \/ deposits'[x].status = "confirmed" /\ incomingStatus(log[w][n].kind) = "detected"
    BY <1>2, <1>4, <1>6
  <2> QED BY <1>3, <2>1, <2>2 DEF Reflected, incomingStatus
<1> QED BY <1>5, <1>6

---------------------------------------------------------------------------
(* Confirmations *)

\* What UpdateInvoiceConfirmations does to a row.
LEMMA ConfirmationsRow ==
  ASSUME Inv, NEW best \in 0..MaxHeight, UpdateInvoiceConfirmations(best), NEW x \in Outputs
  PROVE  \/ deposits'[x] = deposits[x]
         \/ /\ deposits[x].status = "detected"
            /\ deposits'[x].status = "confirmed"
            /\ deposits'[x].height = deposits[x].height
            /\ deposits'[x].invoice = deposits[x].invoice
            /\ deposits'[x].confHeight =
                 deposits[x].height + Required(Order[deposits[x].invoice].required) - 1
<1>1. deposits[x] \in DepositRow
  BY DEF Inv, Shape
<1>2. \/ deposits'[x] = deposits[x]
      \/ x \in toConfirm(best) /\ deposits'[x] = confirmedDeposit(x)
  BY DEF UpdateInvoiceConfirmations
<1>3. CASE x \in toConfirm(best) /\ deposits'[x] = confirmedDeposit(x)
  <2> DEFINE h == deposits[x].height + Required(Order[deposits[x].invoice].required) - 1
  <2>1. deposits[x].status = "detected"
    BY <1>3 DEF toConfirm
  <2>2. deposits'[x] = [deposits[x] EXCEPT !.status = "confirmed", !.confHeight = h]
    BY <1>3 DEF confirmedDeposit
  <2> HIDE DEF h
  <2>3. /\ deposits'[x].status = "confirmed" /\ deposits'[x].confHeight = h
        /\ deposits'[x].height = deposits[x].height /\ deposits'[x].invoice = deposits[x].invoice
    BY <1>1, <2>2 DEF DepositRow
  <2> QED BY <2>1, <2>3 DEF h
<1> QED BY <1>2, <1>3

\* A status that an event asks for.
LEMMA IncomingStatus ==
  ASSUME NEW kind \in DepositKinds
  PROVE  /\ incomingStatus(kind) \notin {"absent", "confirmed"}
         /\ incomingStatus(kind) = "detected" => kind # "DepositOrphaned"
         /\ kind = "DepositEvent" => incomingStatus(kind) = "detected"
  BY DEF incomingStatus, DepositKinds

\* Entries of the log that were consumed are entries.
LEMMA ConsumedEntry ==
  ASSUME Base, NEW d \in Outputs, NEW k \in Consumed(d)
  PROVE  log[Output[d].wallet][k] \in LogEntry
<1>1. log[Output[d].wallet] \in Seq(LogEntry) /\ k \in 1..Len(log[Output[d].wallet])
  BY ReportsType DEF Base, Consumed
<1> QED BY <1>1

\* An event that finds a confirmed deposit in the chain again is about the block
\* it is confirmed in: a move to another block passes through an orphaning.
LEMMA SameBlock ==
  ASSUME Base, LogOrder, ApplyNext, NEW d, d = PageEvent.output, d \in Outputs, Reflected(d),
         deposits[d].status = "confirmed", incomingStatus(PageEvent.kind) = "detected"
  PROVE  PageEvent.height = deposits[d].height
<1>0. PICK w, n : w = LoopWallet /\ n = cursor[w] + 1
  OBVIOUS
<1> DEFINE L == log[w]
           k == Max(Consumed(d))
<1>1. /\ n \in Reports(d)
      /\ Output[d].wallet = w
      /\ \A j \in Reports(d) : j \in Consumed(d) <=> j < n
  BY <1>0, ApplyNextConsumed
<1>2. /\ PageEvent.kind = L[n].kind /\ PageEvent.height = L[n].height
      /\ PageEvent.kind \in DepositKinds
  BY <1>0, PageEventType DEF ApplyNext
<1>3. Consumed(d) # {}
  BY DEF Reflected
<1>4. /\ deposits[d].height = L[k].height
      /\ \/ deposits[d].status = incomingStatus(L[k].kind)
         \/ incomingStatus(L[k].kind) = "detected"
  BY <1>1, <1>3 DEF Reflected
<1>5. k \in Consumed(d) /\ (\A j \in Consumed(d) : j <= k) /\ k \in Reports(d)
  BY <1>3, ConsumedType DEF Base
<1>6. L[k] \in LogEntry
  BY <1>1, <1>5, ConsumedEntry
<1>7. L[k].kind # "DepositOrphaned"
  <2>1. L[k].kind \in DepositKinds
    BY <1>6 DEF LogEntry
  <2> QED BY <1>4, <2>1, IncomingStatus
<1>8. Reports(d) \subseteq Nat
  BY ReportsType DEF Base
<1> HIDE DEF L, k
<1>9. k < n /\ \A j \in Reports(d) : j <= k \/ n <= j
  BY <1>1, <1>5, <1>8
<1>10. /\ L[n].kind = "DepositEvent" => L[k].kind = "DepositOrphaned"
       /\ L[n].kind # "DepositEvent" => L[n].height = L[k].height
  BY <1>1, <1>5, <1>9 DEF LogOrder, L
<1> QED BY <1>2, <1>4, <1>7, <1>10

\* ConfirmedHeightCurrent for one note.
HeightCurrent(d) ==
    deposits[d].status = "confirmed" =>
        deposits[d].confHeight =
            deposits[d].height + Required(Order[deposits[d].invoice].required) - 1

LEMMA ApplyNextHeight ==
  ASSUME Base, Inv, LogOrder, ApplyNext, NEW x \in Outputs, Reflected(x), HeightCurrent(x)
  PROVE  HeightCurrent(x)'
<1>0. PICK d : d = PageEvent.output
  OBVIOUS
<1> DEFINE status == incomingStatus(PageEvent.kind)
<1>1. /\ d \in Outputs
      /\ x # d => deposits'[x] = deposits[x]
      /\ deposits'[d].height = PageEvent.height
      /\ deposits'[d].status = IF deposits[d].status = "confirmed" /\ status = "detected"
                               THEN "confirmed" ELSE status
      /\ status = "detected" => deposits'[d].confHeight = deposits[d].confHeight
      /\ deposits'[d].invoice = IF deposits[d].invoice # Nobody THEN deposits[d].invoice
                                ELSE applyInvoiceID(d, PageEvent.height)
  BY <1>0, ApplyNextRow
<1>2. status # "confirmed"
  BY DEF incomingStatus
<1>3. CASE x # d
  BY <1>1, <1>3 DEF HeightCurrent
<1>4. CASE x = d
  <2> SUFFICES ASSUME deposits'[x].status = "confirmed"
               PROVE  deposits'[x].confHeight =
                        deposits'[x].height + Required(Order[deposits'[x].invoice].required) - 1
    BY DEF HeightCurrent
  <2>1. deposits[x].status = "confirmed" /\ status = "detected"
    BY <1>1, <1>2, <1>4
  <2>2. deposits[x].invoice # Nobody
    BY <2>1 DEF Inv, ConfirmedDepositSound
  <2>3. PageEvent.height = deposits[x].height
    BY <1>0, <1>4, <2>1, SameBlock
  <2> HIDE DEF status
  <2> QED BY <1>1, <1>4, <2>1, <2>2, <2>3 DEF HeightCurrent
<1> QED BY <1>3, <1>4

---------------------------------------------------------------------------
(* The stream of events *)

\* Somebody was told of a deposit: the merchant, that the note at the invoice's
\* address was detected, or a person, by a review case.
Told(d) ==
    \/ Output[d].to \in Orders /\ EventOf(Output[d].to, "deposit.detected", d) \in events
    \/ \E c \in reviews : c.subject = d

\* A recorded deposit of a merchant's wallet was told of; one that is not
\* recorded is not credited.
ToldOf(d) ==
    /\ deposits[d].status = "absent" => deposits[d].invoice = Nobody
    /\ deposits[d].status # "absent" /\ MerchantsOf(Output[d].wallet) # {} => Told(d)

\* The pipeline takes back no event and no case.
LEMMA NothingTakenBack ==
  ASSUME Base, [PNext]_allVars
  PROVE  events \subseteq events' /\ reviews \subseteq reviews'
<1>1. CASE UNCHANGED vars \/ Restart \/ Tick
  BY <1>1 DEF vars, Restart, Tick
<1>2. ASSUME NEW o \in Orders, NEW best, CreateInvoice(o, best)
      PROVE  events \subseteq events' /\ reviews \subseteq reviews'
  BY <1>2 DEF CreateInvoice
<1>3. ASSUME ApplyScanEvent(PageEvent)
      PROVE  events \subseteq events' /\ reviews \subseteq reviews'
  BY <1>3 DEF ApplyScanEvent, applyDepositEvent
<1>4. ASSUME NEW best, UpdateInvoiceConfirmations(best)
      PROVE  events \subseteq events' /\ reviews \subseteq reviews'
  BY <1>4 DEF UpdateInvoiceConfirmations
<1> QED BY <1>1, <1>2, <1>3, <1>4, StoreStep

\* The first report of a note that is consumed says that it was found.
LEMMA FirstIsFound ==
  ASSUME Base, LogOrder, ApplyNext, NEW d, d = PageEvent.output, d \in Outputs, Reflected(d),
         deposits[d].status = "absent"
  PROVE  incomingStatus(PageEvent.kind) = "detected"
<1>0. PICK w, n : w = LoopWallet /\ n = cursor[w] + 1
  OBVIOUS
<1> DEFINE L == log[w]
           k == Max(Consumed(d))
<1>1. /\ n \in Reports(d)
      /\ Output[d].wallet = w
      /\ \A j \in Reports(d) : j \in Consumed(d) <=> j < n
  BY <1>0, ApplyNextConsumed
<1>2. PageEvent.kind = L[n].kind /\ PageEvent.kind \in DepositKinds
  BY <1>0, PageEventType DEF ApplyNext
<1>3. Consumed(d) = {}
  <2> SUFFICES ASSUME Consumed(d) # {} PROVE FALSE
    OBVIOUS
  <2>1. k \in Consumed(d)
    BY ConsumedType DEF Base
  <2>2. L[k] \in LogEntry
    BY <1>1, <2>1, ConsumedEntry
  <2>3. incomingStatus(L[k].kind) # "absent"
    BY <2>2, IncomingStatus DEF LogEntry
  <2> QED BY <1>1, <2>3 DEF Reflected
<1>4. Reports(d) \subseteq Nat
  BY ReportsType DEF Base
<1>5. \A j \in Reports(d) : n <= j
  BY <1>1, <1>3, <1>4
<1>6. L[n].kind = "DepositEvent"
  BY <1>1, <1>5 DEF LogOrder
<1> QED BY <1>2, <1>6, IncomingStatus

LEMMA ApplyNextTold ==
  ASSUME Base, Inv, LogOrder, ApplyNext, NEW x \in Outputs, Reflected(x), ToldOf(x),
         events \subseteq events', reviews \subseteq reviews'
  PROVE  ToldOf(x)'
<1>0. PICK d : d = PageEvent.output
  OBVIOUS
<1> DEFINE status == incomingStatus(PageEvent.kind)
           o == applyInvoiceID(d, PageEvent.height)
<1>1. /\ d \in Outputs
      /\ x # d => deposits'[x] = deposits[x]
      /\ deposits'[d].status = IF deposits[d].status = "confirmed" /\ status = "detected"
                               THEN "confirmed" ELSE status
  BY <1>0, ApplyNextRow
<1>2. Told(x) => Told(x)'
  BY DEF Told
<1>3. CASE x # d \/ deposits[x].status # "absent"
  <2>1. deposits'[d].status # "absent"
    BY <1>1 DEF incomingStatus
  <2> QED BY <1>1, <1>2, <1>3, <2>1 DEF ToldOf, MerchantsOf
<1>4. CASE x = d /\ deposits[x].status = "absent"
  <2>1. status = "detected"
    BY <1>0, <1>4, FirstIsFound
  <2>2. deposits'[x].status # "absent"
    BY <1>1, <1>4, <2>1
  <2>3. PageEvent.kind \in DepositKinds
    BY PageEventType DEF ApplyNext
  <2>4. applyDepositEvent(d, PageEvent.height, status)
    BY <1>0, <2>3 DEF ApplyNext, ApplyScanEvent
  <2>5. \/ o = Nobody /\ reviews' = reviews \cup unattributedReviews(d)
        \/ o # Nobody /\ DetectionEvents(o, d, status) \subseteq events'
    BY <2>4 DEF applyDepositEvent
  <2>6. ASSUME MerchantsOf(Output[x].wallet) # {} PROVE Told(x)'
    <3>1. CASE o = Nobody /\ reviews' = reviews \cup unattributedReviews(d)
      <4>1. \E c \in reviews' : c.subject = d
        <5>1. CASE \E c \in reviews : c.subject = d
          BY <5>1, <3>1
        <5>2. CASE ~\E c \in reviews : c.subject = d
          <6> DEFINE case == [subject |-> d, reason |-> "unknown_address", status |-> "open"]
          <6>1. unattributedReviews(d) = {case}
            BY <1>4, <2>6, <5>2 DEF unattributedReviews
          <6>2. case.subject = d
            OBVIOUS
          <6> HIDE DEF case
          <6> QED BY <3>1, <6>1, <6>2
        <5> QED BY <5>1, <5>2
      <4> QED BY <1>4, <4>1 DEF Told
    <3>2. CASE o # Nobody /\ DetectionEvents(o, d, status) \subseteq events'
      <4>1. o = Output[d].to /\ o \in Orders
        BY <1>1, <3>2, ApplyInvoiceId
      <4>2. EventOf(o, "deposit.detected", d) \in events'
        BY <2>1, <3>2 DEF DetectionEvents
      <4> QED BY <1>4, <4>1, <4>2 DEF Told, EventOf
    <3> QED BY <2>5, <3>1, <3>2
  <2> QED BY <2>2, <2>6 DEF ToldOf, MerchantsOf
<1> QED BY <1>3, <1>4

\* An invoice announced as paid has a confirmed deposit that was announced.
PaidBacked ==
    \A o \in Orders : EventOf(o, "invoice.paid", Nobody) \in events =>
        \E d \in Outputs : EventOf(o, "deposit.confirmed", d) \in events

\* A recomputation that announces a payment has counted a confirmed deposit: an
\* empty sum is zero, and no invoice is for nothing.
LEMMA RecomputedPaid ==
  ASSUME Shape, NEW ACTION deps, NEW x \in Orders, NEW o \in Orders,
         EventOf(o, "invoice.paid", Nobody) \in StatusChangeEvents(x, Recomputed(deps, x))
  PROVE  x = o /\ \E d \in Outputs : deps[d].invoice = o /\ deps[d].status = "confirmed"
<1> DEFINE row == Recomputed(deps, x)
           paying == {d \in Outputs : deps[d].invoice = x /\ deps[d].status \in {"confirmed"}}
<1>1. /\ row.status = computeInvoiceStatus(Order[x].amount, row.pending, row.confirmed,
                                           Expired(x), Order[x].policy.late)
      /\ row.confirmed = Received(deps, x, {"confirmed"})
  BY RecomputedRow, RecomputedSums
<1> HIDE DEF row
<1>2. EventOf(o, "invoice.paid", Nobody) = EventOf(x, statusEvent(row.status), Nobody)
  BY DEF StatusChangeEvents, row
<1>3. x = o /\ statusEvent(row.status) = "invoice.paid"
  BY <1>2 DEF EventOf
<1>4. row.status \in {"confirmed", "paid_late"}
  BY <1>3 DEF statusEvent
<1>5. row.confirmed = Order[x].amount
  BY <1>1, <1>4 DEF computeInvoiceStatus
<1>6. Order[x].amount # 0
  BY DEF OrderRow
<1>7. row.confirmed = SumAmounts(paying)
  BY <1>1 DEF Received
<1>8. paying # {}
  BY <1>5, <1>6, <1>7, SumNone
<1> QED BY <1>3, <1>8

LEMMA NextPaidBacked ==
  ASSUME Inv, PaidBacked, [Next]_vars, Inv', events \subseteq events'
  PROVE  PaidBacked'
<1> SUFFICES ASSUME NEW o \in Orders, EventOf(o, "invoice.paid", Nobody) \in events',
                    EventOf(o, "invoice.paid", Nobody) \notin events
             PROVE  \E d \in Outputs : EventOf(o, "deposit.confirmed", d) \in events'
  BY DEF PaidBacked, EventOf
<1> DEFINE paid == EventOf(o, "invoice.paid", Nobody)
<1>1. SUFFICES \E d \in Outputs : deposits'[d].invoice = o /\ deposits'[d].status = "confirmed"
  BY DEF Inv, ConfirmedDepositSound, EventOf
<1>2. Shape
  BY DEF Inv
<1>3. ASSUME NEW e \in ScanEvents, ApplyScanEvent(e)
      PROVE  \E d \in Outputs : deposits'[d].invoice = o /\ deposits'[d].status = "confirmed"
  <2> DEFINE status == incomingStatus(e.kind)
             x == applyInvoiceID(e.output, e.height)
             deps == [deposits EXCEPT ![e.output] = upsertDeposit(e.output, e.height, status, x)]
  <2>1. e.output \in Outputs /\ e.height \in Nat
    BY DEF ScanEvents
  <2>2. applyDepositEvent(e.output, e.height, status)
    BY <1>3 DEF ApplyScanEvent
  <2>3. /\ deposits' = deps
        /\ x # Nobody
        /\ events' = events \cup DetectionEvents(x, e.output, status)
                            \cup StatusChangeEvents(x, Recomputed(deps, x))
    BY <2>2 DEF applyDepositEvent
  <2>4. x \in Orders
    BY <2>1, <2>3, ApplyInvoiceId
  <2> HIDE DEF x, deps, status
  <2>5. paid \notin DetectionEvents(x, e.output, status)
    BY DEF DetectionEvents, EventOf
  <2>6. paid \in StatusChangeEvents(x, Recomputed(deps, x))
    BY <2>3, <2>5
  <2> QED BY <1>2, <2>3, <2>4, <2>6, RecomputedPaid
<1>4. ASSUME NEW best \in 0..MaxHeight, UpdateInvoiceConfirmations(best)
      PROVE  \E d \in Outputs : deposits'[d].invoice = o /\ deposits'[d].status = "confirmed"
  <2> DEFINE ready == toConfirm(best)
             deps == [d \in Outputs |-> IF d \in ready THEN confirmedDeposit(d) ELSE deposits[d]]
             affected == {deposits[d].invoice : d \in ready}
  <2>1. /\ deposits' = deps
        /\ events' = events
              \cup {EventOf(deposits[d].invoice, "deposit.confirmed", d) : d \in ready}
              \cup UNION {StatusChangeEvents(x, Recomputed(deps, x)) : x \in affected}
    BY <1>4 DEF UpdateInvoiceConfirmations
  <2>2. affected \subseteq Orders
    BY <1>2 DEF toConfirm, Shape, DepositRow
  <2> HIDE DEF ready, deps, affected
  <2>3. paid \notin {EventOf(deposits[d].invoice, "deposit.confirmed", d) : d \in ready}
    BY DEF EventOf
  <2>4. PICK x \in affected : paid \in StatusChangeEvents(x, Recomputed(deps, x))
    BY <2>1, <2>3
  <2> QED BY <1>2, <2>1, <2>2, <2>4, RecomputedPaid
<1>5. ASSUME NEW x \in Orders, NEW best, CreateInvoice(x, best) PROVE FALSE
  BY <1>5 DEF CreateInvoice, EventOf
<1>6. ASSUME NEW r, NEW m, NEW x, NEW status, CreateRefund(r, m, x, status) PROVE FALSE
  BY <1>6 DEF CreateRefund, refundEvent, EventOf
<1>7. ~(UNCHANGED events)
  OBVIOUS
<1> QED BY <1>3, <1>4, <1>5, <1>6, <1>7
      DEF Next, vars, ResolveReviewCase, RejectReviewCase, CloseReview, Restart, Tick

---------------------------------------------------------------------------
(* The inductive invariant and the theorems *)

\* What the log says of note d, and what was made of it.
History ==
    /\ LogOrder
    /\ \A d \in Outputs : Reflected(d) /\ HeightCurrent(d) /\ ToldOf(d)
    /\ PaidBacked

LEMMA InitHistory == PInit => History
<1> SUFFICES ASSUME PInit PROVE History
  OBVIOUS
<1>1. ASSUME NEW d \in Outputs PROVE Reports(d) = {} /\ Consumed(d) = {}
  <2>1. Output[d].wallet \in Wallets
    BY DEF OutputRow
  <2>2. log[Output[d].wallet] = <<>>
    BY <2>1 DEF PInit
  <2> QED BY <2>2 DEF Reports, Consumed
<1>2. LogOrder
  BY <1>1 DEF LogOrder
<1>3. ASSUME NEW d \in Outputs PROVE Reflected(d) /\ HeightCurrent(d) /\ ToldOf(d)
  <2>1. deposits[d].status = "absent" /\ deposits[d].invoice = Nobody
    BY DEF PInit, Init, NoDeposit
  <2> QED BY <1>1, <2>1 DEF Reflected, HeightCurrent, ToldOf
<1>4. PaidBacked
  BY DEF PInit, Init, PaidBacked
<1> QED BY <1>2, <1>3, <1>4 DEF History

LEMMA NextHistory ==
  ASSUME Base, Inv, Inv', History, [PNext]_allVars
  PROVE  History'
<1>1. events \subseteq events' /\ reviews \subseteq reviews'
  BY NothingTakenBack
<1>2. LogOrder'
  BY NextLogOrder DEF History
<1>3. PaidBacked'
  BY <1>1, StoreNext, NextPaidBacked DEF History
<1>4. ASSUME NEW x \in Outputs PROVE Reflected(x)' /\ HeightCurrent(x)' /\ ToldOf(x)'
  <2>1. LogOrder /\ Reflected(x) /\ HeightCurrent(x) /\ ToldOf(x)
    BY DEF History
  <2>2. CASE ApplyNext
    BY <1>1, <2>1, <2>2, ApplyNextReflected, ApplyNextHeight, ApplyNextTold
  <2>3. Told(x) => Told(x)'
    BY <1>1 DEF Told
  <2>4. CASE UNCHANGED <<deposits, cursor>>
    <3>1. Reflected(x)'
      BY <2>1, <2>4, ReflectedSame
    <3>2. HeightCurrent(x)'
      BY <2>1, <2>4 DEF HeightCurrent
    <3>3. ToldOf(x)'
      BY <2>1, <2>3, <2>4 DEF ToldOf, MerchantsOf
    <3> QED BY <3>1, <3>2, <3>3
  <2>5. ASSUME NEW best \in 0..MaxHeight, UpdateInvoiceConfirmations(best)
        PROVE  Reflected(x)' /\ HeightCurrent(x)' /\ ToldOf(x)'
    <3>1. cursor' = cursor
      BY <2>5 DEF UpdateInvoiceConfirmations
    <3>2. \/ deposits'[x] = deposits[x]
          \/ /\ deposits[x].status = "detected"
             /\ deposits'[x].status = "confirmed"
             /\ deposits'[x].height = deposits[x].height
             /\ deposits'[x].invoice = deposits[x].invoice
             /\ deposits'[x].confHeight =
                  deposits[x].height + Required(Order[deposits[x].invoice].required) - 1
      BY <2>5, ConfirmationsRow
    <3>3. Reflected(x)'
      BY <2>1, <3>1, <3>2, ReflectedSame
    <3>4. HeightCurrent(x)'
      BY <2>1, <3>2 DEF HeightCurrent
    <3>5. ToldOf(x)'
      BY <2>1, <2>3, <3>2 DEF ToldOf, MerchantsOf
    <3> QED BY <3>3, <3>4, <3>5
  <2>6. ASSUME NEW o \in Orders, NEW best, CreateInvoice(o, best)
        PROVE  UNCHANGED <<deposits, cursor>>
    BY <2>6 DEF CreateInvoice
  <2>7. UNCHANGED vars \/ Restart \/ Tick => UNCHANGED <<deposits, cursor>>
    BY DEF vars, Restart, Tick
  <2> QED BY <2>2, <2>4, <2>5, <2>6, <2>7, StoreStep
<1> QED BY <1>2, <1>3, <1>4 DEF History

\* The invariant of the pipeline.
THEOREM HistoryHolds == PSpec => [](Base /\ Inv /\ History)
<1>1. PSpec => []Base
  BY InitBase, NextBase, PTL DEF PSpec
<1>2. PSpec => []Inv
  BY ImplementsStore, InvHolds, PTL
<1>3. Base /\ Inv /\ Inv' /\ History /\ [PNext]_allVars => History'
  BY NextHistory
<1>4. PSpec => []History
  BY <1>1, <1>2, <1>3, InitHistory, PTL DEF PSpec
<1> QED BY <1>1, <1>2, <1>4, PTL

\* Exactly-once ingestion: through pages, failed calls, crashes and wallets
\* visited twice, the deposits table is what the consumed part of the log says.
THEOREM LogReflectedHolds == PSpec => []LogReflected
<1>1. History => LogReflected
  BY DEF History, Reflected, LogReflected
<1> QED BY <1>1, HistoryHolds, PTL

\* confirmed_height belongs to the block the deposit is recorded in, because the
\* scanner orphans a note before it finds it in another block.
THEOREM ConfirmedHeightCurrentHolds == PSpec => []ConfirmedHeightCurrent
<1>1. History => ConfirmedHeightCurrent
  BY DEF History, HeightCurrent, ConfirmedHeightCurrent
<1> QED BY <1>1, HistoryHolds, PTL

\* The stream of a merchant's events is in order.
THEOREM StreamOrderedHolds == PSpec => []StreamOrdered
<1>1. Inv /\ History => StreamOrdered
  <2> SUFFICES ASSUME Inv, History, NEW o \in Orders, NEW d \in Outputs,
                      EventOf(o, "deposit.confirmed", d) \in events
               PROVE  \/ EventOf(o, "deposit.detected", d) \in events
                      \/ \E c \in reviews : c.subject = d
    BY DEF History, PaidBacked, StreamOrdered
  <2> DEFINE ev == EventOf(o, "deposit.confirmed", d)
  <2>1. ev.invoice = o /\ ev.ref = d
    BY DEF EventOf
  <2>2. deposits[d].invoice = o
    BY <2>1 DEF Inv, EventsOwned
  <2>3. o # Nobody
    OBVIOUS
  <2>4. o = Output[d].to /\ Output[d].wallet = WalletOf[Order[o].merchant]
    BY <2>2, <2>3 DEF Inv, CreditedToAddressee
  <2>5. Order[o].merchant \in MerchantsOf(Output[d].wallet)
    BY <2>4 DEF MerchantsOf, OrderRow
  <2>6. deposits[d].status # "absent"
    BY <2>2, <2>3 DEF History, ToldOf
  <2>7. Told(d)
    BY <2>5, <2>6 DEF History, ToldOf
  <2> QED BY <2>4, <2>7 DEF Told
<1> QED BY <1>1, HistoryHolds, PTL
=============================================================================
