--------------------------- MODULE OutboxProofs ---------------------------
(***************************************************************************)
(* To a sink whose transport confirms, the outbox delivers at least once.  *)
(* It gives up only after MaxAttempts calls, repeats an event only because *)
(* of a fault and never reopens a settled delivery: for every set of       *)
(* events and sinks, every batch size, every limit of attempts and any     *)
(* number of faults.                                                       *)
(***************************************************************************)
EXTENDS Outbox, TLAPS

\* The one task in flight was sent once more than its counter says, and a success
\* that waits to be recorded is a real one if the sink confirms.
FlightSound ==
    /\ \A x, y \in flight : x = y
    /\ \A d \in flight : deliveries[d].attempt + 1 <= sends[d]
    /\ outcome => \A d \in flight : d[2] \in Confirming => d \in received

\* Rows exist only for enqueued events, and a pending row has an attempt left.
RowsSound ==
    \A d \in Deliveries :
        /\ d[1] \notin enqueued => deliveries[d].status = "absent"
        /\ deliveries[d].status = "absent" => deliveries[d].attempt = 0
        /\ deliveries[d].status = "pending" => deliveries[d].attempt < MaxAttempts

\* The inductive invariant.
Inv ==
    /\ TypeOK
    /\ DeliveredReceived
    /\ GivesUpHonestly
    /\ DuplicatesBounded
    /\ BatchCurrent
    /\ FlightSound
    /\ RowsSound

USE OutboxAssumption

\* The outbox starts empty, so every part of the invariant holds.
LEMMA InitInv == Init => Inv
<1> SUFFICES ASSUME Init PROVE Inv
  OBVIOUS
<1>1. TypeOK
  <2>1. NoDelivery \in DeliveryRow
    BY DEF NoDelivery, DeliveryRow
  <2>2. deliveries \in [Deliveries -> DeliveryRow] /\ sends \in [Deliveries -> Nat]
    BY <2>1 DEF Init
  <2>3. elapsed \in 0..MaxAge /\ faults \in 0..MaxFaults
    BY DEF Init
  <2>4. outcome \in BOOLEAN
    BY DEF Init
  <2> QED BY <2>2, <2>3, <2>4 DEF Init, TypeOK
<1>2. DeliveredReceived /\ GivesUpHonestly /\ BatchCurrent
  BY DEF Init, DeliveredReceived, GivesUpHonestly, BatchCurrent, NoDelivery
<1>3. DuplicatesBounded
  BY DEF Init, DuplicatesBounded, NoDelivery
<1>4. FlightSound
  BY DEF Init, FlightSound
<1>5. RowsSound
  BY DEF Init, RowsSound, NoDelivery
<1> QED BY <1>1, <1>2, <1>3, <1>4, <1>5 DEF Inv

\* CreateEventSink touches no delivery.
LEMMA CreateEventSinkInv ==
  ASSUME Inv, NEW s \in Sinks, CreateEventSink(s)
  PROVE  Inv'
  BY DEF CreateEventSink, Inv, TypeOK, DeliveredReceived, GivesUpHonestly, DuplicatesBounded,
         BatchCurrent, FlightSound, RowsSound, workerVars

\* enqueueOutboxForInvoiceEventTx only writes rows that did not exist.
LEMMA EnqueueInv ==
  ASSUME Inv, NEW e \in Events, Enqueue(e)
  PROVE  Inv'
<1> DEFINE New == {d \in Deliveries : d[1] = e /\ d[2] \in sinks
                                        /\ SinkMerchant[d[2]] = EventMerchant[e]}
<1>1. \A d \in New : deliveries[d].status = "absent" /\ deliveries[d].attempt = 0
  BY DEF Inv, RowsSound, Enqueue
<1>2. \A d \in New : deliveries'[d] = [NoDelivery EXCEPT !.status = "pending"]
  BY DEF Enqueue
<1>3. \A d \in Deliveries \ New : deliveries'[d] = deliveries[d]
  BY DEF Enqueue
<1>4. TypeOK'
  <2>1. [NoDelivery EXCEPT !.status = "pending"] \in DeliveryRow
    BY DEF NoDelivery, DeliveryRow
  <2>2. deliveries' \in [Deliveries -> DeliveryRow]
    BY <1>2, <1>3, <2>1 DEF Enqueue, Inv, TypeOK
  <2> QED BY <2>2 DEF Enqueue, Inv, TypeOK, workerVars
<1>5. \A d \in batch : d \notin New
  BY <1>1 DEF Inv, BatchCurrent, TypeOK
<1>6. DeliveredReceived' /\ GivesUpHonestly'
  BY <1>2, <1>3 DEF Enqueue, Inv, DeliveredReceived, GivesUpHonestly, NoDelivery
<1>7. DuplicatesBounded'
  BY <1>1, <1>2, <1>3 DEF Enqueue, Inv, DuplicatesBounded, NoDelivery, workerVars, TypeOK
<1>8. BatchCurrent' /\ FlightSound'
  BY <1>3, <1>5 DEF Enqueue, Inv, BatchCurrent, FlightSound, workerVars, TypeOK
<1>9. RowsSound'
  BY <1>2, <1>3 DEF Enqueue, Inv, RowsSound, NoDelivery
<1> QED BY <1>4, <1>6, <1>7, <1>8, <1>9 DEF Inv

\* ListDueDeliveries takes only pending, due rows into the batch.
LEMMA ListDueDeliveriesInv ==
  ASSUME Inv, ListDueDeliveries
  PROVE  Inv'
<1>1. PICK B \in SUBSET Due : batch' = B
  BY DEF ListDueDeliveries
<1>2. flight = {} /\ flight' = {}
  BY DEF ListDueDeliveries, Inv, TypeOK
<1>3. TypeOK'
  <2>1. batch' \subseteq Deliveries
    BY <1>1 DEF Due
  <2>2. elapsed' \in 0..MaxAge
    BY DEF ListDueDeliveries
  <2> QED BY <1>2, <2>1, <2>2 DEF ListDueDeliveries, Inv, TypeOK
<1>4. BatchCurrent'
  BY <1>1 DEF ListDueDeliveries, BatchCurrent, Due
<1>5. FlightSound'
  BY <1>2 DEF ListDueDeliveries, Inv, FlightSound
<1>6. DeliveredReceived' /\ GivesUpHonestly' /\ RowsSound'
  BY DEF ListDueDeliveries, Inv, DeliveredReceived, GivesUpHonestly, RowsSound
<1>7. DuplicatesBounded'
  BY DEF ListDueDeliveries, Inv, DuplicatesBounded
<1> QED BY <1>3, <1>4, <1>5, <1>6, <1>7 DEF Inv

\* Send puts one task of the batch in flight and counts the send.
LEMMA SendInv ==
  ASSUME Inv, Send
  PROVE  Inv'
<1>1. PICK d \in batch :
        /\ flight' = {d}
        /\ sends' = [sends EXCEPT ![d] = @ + 1]
        /\ \/ outcome' = TRUE /\ received' = received \cup {d}
           \/ outcome' = FALSE /\ received' = received \cup {d}
           \/ outcome' = FALSE /\ received' = received
           \/ d[2] \notin Confirming /\ outcome' = TRUE /\ received' = received
  BY DEF Send
<1>2. flight = {} /\ UNCHANGED <<sinks, enqueued, deliveries, batch, elapsed, faults>>
  BY DEF Send
<1>3. d \in Deliveries
  BY DEF Inv, TypeOK
<1>4. sends' \in [Deliveries -> Nat] /\ sends'[d] = sends[d] + 1
      /\ \A x \in Deliveries : x # d => sends'[x] = sends[x]
  BY <1>1, <1>3 DEF Inv, TypeOK
<1>5. received \subseteq received' /\ received' \subseteq Deliveries
      /\ outcome' \in BOOLEAN /\ (outcome' => (d[2] \in Confirming => d \in received'))
  <2>1. received \subseteq received' /\ received' \subseteq Deliveries
    BY <1>1, <1>3 DEF Inv, TypeOK
  <2>2. CASE outcome' = TRUE /\ received' = received \cup {d}
    BY <2>1, <2>2
  <2>3. CASE outcome' = FALSE
    BY <2>1, <2>3
  <2>4. CASE d[2] \notin Confirming /\ outcome' = TRUE
    BY <2>1, <2>4
  <2> QED BY <1>1, <2>2, <2>3, <2>4
<1>6. TypeOK'
  BY <1>1, <1>2, <1>4, <1>5 DEF Inv, TypeOK
<1>7. DeliveredReceived'
  BY <1>2, <1>5 DEF Inv, DeliveredReceived
<1>8. GivesUpHonestly'
  <2> SUFFICES ASSUME NEW x \in Deliveries, deliveries[x].status = "failed"
               PROVE  sends'[x] >= MaxAttempts
    BY <1>2 DEF GivesUpHonestly
  <2>1. sends[x] \in Nat /\ sends[x] >= MaxAttempts
    BY DEF Inv, GivesUpHonestly, TypeOK
  <2> QED BY <1>4, <2>1
<1>9. DuplicatesBounded'
  <2> SUFFICES ASSUME NEW x \in Deliveries
               PROVE  /\ deliveries[x].attempt <= sends'[x]
                      /\ sends'[x] <= deliveries[x].attempt + faults
                                        + (IF x \in {d} THEN 1 ELSE 0)
    BY <1>1, <1>2 DEF DuplicatesBounded
  <2>1. deliveries[x].attempt \in Nat /\ sends[x] \in Nat /\ faults \in Nat
    BY DEF Inv, TypeOK, DeliveryRow
  <2>2. deliveries[x].attempt <= sends[x] /\ sends[x] <= deliveries[x].attempt + faults
    BY <1>2, <2>1 DEF Inv, DuplicatesBounded
  <2> QED BY <1>4, <2>1, <2>2
<1>10. BatchCurrent' /\ RowsSound'
  BY <1>2 DEF Inv, BatchCurrent, RowsSound
<1>11. FlightSound'
  <2>1. deliveries[d].attempt \in Nat /\ deliveries[d].attempt <= sends[d] /\ sends[d] \in Nat
    BY <1>3 DEF Inv, TypeOK, DeliveryRow, DuplicatesBounded
  <2>2. deliveries[d].attempt + 1 <= sends'[d]
    BY <1>4, <2>1
  <2> QED BY <1>1, <1>2, <1>5, <2>2 DEF FlightSound
<1> QED BY <1>6, <1>7, <1>8, <1>9, <1>10, <1>11 DEF Inv

\* DropBatch forgets the batch; the send in flight becomes the fault's duplicate.
LEMMA DropBatchInv ==
  ASSUME Inv, DropBatch
  PROVE  Inv'
<1>1. batch' = {} /\ flight' = {} /\ outcome' = FALSE /\ elapsed' = 0 /\ faults' = faults + 1
      /\ faults < MaxFaults
  BY DEF DropBatch
<1>2. UNCHANGED <<sinks, enqueued, deliveries, sends, received>>
  BY DEF DropBatch
<1>3. TypeOK'
  <2>1. elapsed' \in 0..MaxAge /\ faults' \in 0..MaxFaults
    BY <1>1 DEF Inv, TypeOK
  <2> QED BY <1>1, <1>2, <2>1 DEF Inv, TypeOK
<1>4. DeliveredReceived' /\ GivesUpHonestly' /\ RowsSound'
  BY <1>2 DEF Inv, DeliveredReceived, GivesUpHonestly, RowsSound
<1>5. BatchCurrent' /\ FlightSound'
  BY <1>1 DEF BatchCurrent, FlightSound
<1>6. DuplicatesBounded'
  <2> SUFFICES ASSUME NEW x \in Deliveries
               PROVE  /\ deliveries[x].attempt <= sends[x]
                      /\ sends[x] <= deliveries[x].attempt + (faults + 1) + 0
    BY <1>1, <1>2 DEF DuplicatesBounded
  <2>1. deliveries[x].attempt \in Nat /\ sends[x] \in Nat /\ faults \in Nat
    BY DEF Inv, TypeOK, DeliveryRow
  <2>2. deliveries[x].attempt <= sends[x]
        /\ sends[x] <= deliveries[x].attempt + faults + (IF x \in flight THEN 1 ELSE 0)
    BY DEF Inv, DuplicatesBounded
  <2> QED BY <2>1, <2>2
<1> QED BY <1>3, <1>4, <1>5, <1>6 DEF Inv

\* UpdateEventDelivery writes the outcome of the task in flight.
LEMMA RecordInv ==
  ASSUME Inv, Record
  PROVE  Inv'
<1>1. PICK d \in flight :
        /\ deliveries' = [deliveries EXCEPT ![d] = recorded(deliveries[d])]
        /\ batch' = batch \ {d}
  BY DEF Record
<1>2. flight' = {} /\ outcome' = FALSE
      /\ UNCHANGED <<sinks, enqueued, elapsed, faults, sends, received>>
  BY DEF Record
<1>3. d \in batch /\ d \in Deliveries /\ flight = {d}
  BY DEF Inv, TypeOK, FlightSound
<1> DEFINE row == deliveries[d]
           new == recorded(row)
<1>4. row \in DeliveryRow /\ row.status = "pending" /\ row.attempt \in 0..MaxAttempts
      /\ row.attempt < MaxAttempts
  BY <1>3 DEF Inv, TypeOK, BatchCurrent, RowsSound, DeliveryRow
<1>5. new.attempt = row.attempt + 1 /\ new.age = 0
      /\ new.status \in {"delivered", "failed", "pending"}
  BY DEF recorded
<1>6. new.status = "delivered" => outcome
  BY DEF recorded
<1>7. new.status = "failed" => row.attempt + 1 >= MaxAttempts
  BY DEF recorded
<1>8. new.status = "pending" => ~(row.attempt + 1 >= MaxAttempts)
  BY DEF recorded
<1>9. new \in DeliveryRow
  <2>1. new.attempt \in 0..MaxAttempts
    BY <1>4, <1>5
  <2>2. new.wait \in 0..MaxAge
    <3>1. CASE outcome \/ row.attempt + 1 >= MaxAttempts \/ Delay[row.attempt + 1] <= elapsed
      <4>1. new.wait = 0
        BY <3>1 DEF recorded
      <4> QED BY <4>1
    <3>2. CASE ~(outcome \/ row.attempt + 1 >= MaxAttempts \/ Delay[row.attempt + 1] <= elapsed)
      <4>1. new.wait = Delay[row.attempt + 1] - elapsed
        BY <3>2 DEF recorded
      <4>2. ~(row.attempt + 1 >= MaxAttempts) /\ ~(Delay[row.attempt + 1] <= elapsed)
        BY <3>2
      <4>3. Delay[row.attempt + 1] \in 0..MaxAge /\ elapsed \in 0..MaxAge
        BY <1>4, <4>2 DEF Inv, TypeOK
      <4> QED BY <4>1, <4>2, <4>3
    <3> QED BY <3>1, <3>2
  <2>3. new = [status |-> new.status, attempt |-> new.attempt, wait |-> new.wait, age |-> new.age]
    BY DEF recorded
  <2>4. new.age \in 0..MaxAge
    BY <1>5
  <2> HIDE DEF new
  <2> QED BY <1>5, <2>1, <2>2, <2>3, <2>4 DEF DeliveryRow
<1> HIDE DEF new
<1>10. deliveries' \in [Deliveries -> DeliveryRow] /\ deliveries'[d] = new
       /\ \A x \in Deliveries : x # d => deliveries'[x] = deliveries[x]
  BY <1>1, <1>3, <1>9 DEF Inv, TypeOK, new
<1>11. TypeOK'
  <2>1. outcome' \in BOOLEAN
    BY <1>2
  <2> QED BY <1>1, <1>2, <1>10, <2>1 DEF Inv, TypeOK
<1>12. DeliveredReceived'
  BY <1>2, <1>3, <1>6, <1>10 DEF Inv, DeliveredReceived, FlightSound
<1>13. row.attempt + 1 <= sends[d] /\ sends[d] \in Nat
  BY <1>3 DEF Inv, FlightSound, TypeOK
<1>14. GivesUpHonestly'
  <2> SUFFICES ASSUME NEW x \in Deliveries, deliveries'[x].status = "failed"
               PROVE  sends[x] >= MaxAttempts
    BY <1>2 DEF GivesUpHonestly
  <2>1. CASE x = d
    BY <1>4, <1>7, <1>10, <1>13, <2>1
  <2>2. CASE x # d
    BY <1>10, <2>2 DEF Inv, GivesUpHonestly
  <2> QED BY <2>1, <2>2
<1>15. DuplicatesBounded'
  <2> SUFFICES ASSUME NEW x \in Deliveries
               PROVE  /\ deliveries'[x].attempt <= sends[x]
                      /\ sends[x] <= deliveries'[x].attempt + faults + 0
    BY <1>2 DEF DuplicatesBounded
  <2>1. deliveries[x].attempt \in Nat /\ sends[x] \in Nat /\ faults \in Nat
    BY DEF Inv, TypeOK, DeliveryRow
  <2>2. deliveries[x].attempt <= sends[x]
        /\ sends[x] <= deliveries[x].attempt + faults + (IF x \in flight THEN 1 ELSE 0)
    BY DEF Inv, DuplicatesBounded
  <2>3. CASE x = d
    BY <1>3, <1>5, <1>10, <1>13, <2>1, <2>2, <2>3
  <2>4. CASE x # d
    BY <1>3, <1>10, <2>1, <2>2, <2>4
  <2> QED BY <2>3, <2>4
<1>16. BatchCurrent'
  BY <1>1, <1>10 DEF Inv, BatchCurrent, TypeOK
<1>17. FlightSound'
  BY <1>2 DEF FlightSound
<1>18. RowsSound'
  <2> SUFFICES ASSUME NEW x \in Deliveries
               PROVE  /\ x[1] \notin enqueued => deliveries'[x].status = "absent"
                      /\ deliveries'[x].status = "absent" => deliveries'[x].attempt = 0
                      /\ deliveries'[x].status = "pending" => deliveries'[x].attempt < MaxAttempts
    BY <1>2 DEF RowsSound
  <2>1. CASE x = d
    <3>1. d[1] \in enqueued
      BY <1>3, <1>4 DEF Inv, RowsSound
    <3>2. new.status # "absent"
      BY <1>5
    <3>3. new.status = "pending" => new.attempt < MaxAttempts
      BY <1>4, <1>5, <1>8
    <3> QED BY <1>10, <2>1, <3>1, <3>2, <3>3
  <2>2. CASE x # d
    BY <1>10, <2>2 DEF Inv, RowsSound
  <2> QED BY <2>1, <2>2
<1> QED BY <1>11, <1>12, <1>14, <1>15, <1>16, <1>17, <1>18 DEF Inv

\* Time moves the clocks of pending rows and nothing else.
LEMMA TickInv ==
  ASSUME Inv, Tick
  PROVE  Inv'
<1>1. UNCHANGED <<sinks, enqueued, batch, flight, outcome, faults, sends, received>>
  BY DEF Tick
<1>2. ASSUME NEW x \in Deliveries
      PROVE  /\ deliveries'[x] \in DeliveryRow
             /\ deliveries'[x].status = deliveries[x].status
             /\ deliveries'[x].attempt = deliveries[x].attempt
             /\ deliveries[x].wait = 0 => deliveries'[x].wait = 0
  <2>1. deliveries[x] \in DeliveryRow
    BY DEF Inv, TypeOK
  <2>2. Older(deliveries[x].age) \in 0..MaxAge
    BY <2>1 DEF Older, DeliveryRow
  <2>3. (IF deliveries[x].wait > 0 THEN deliveries[x].wait - 1 ELSE 0) \in 0..MaxAge
    BY <2>1 DEF DeliveryRow
  <2>4. deliveries'[x] = IF deliveries[x].status # "pending" THEN deliveries[x]
                         ELSE [deliveries[x] EXCEPT
                                !.wait = IF deliveries[x].wait > 0 THEN deliveries[x].wait - 1 ELSE 0,
                                !.age = Older(deliveries[x].age)]
    BY DEF Tick
  <2> DEFINE wait == IF deliveries[x].wait > 0 THEN deliveries[x].wait - 1 ELSE 0
             age  == Older(deliveries[x].age)
  <2>5. deliveries[x].wait = 0 => wait = 0
    OBVIOUS
  <2>6. age \in 0..MaxAge /\ wait \in 0..MaxAge
    BY <2>2, <2>3
  <2> HIDE DEF wait, age
  <2>7. CASE deliveries[x].status # "pending"
    BY <2>1, <2>4, <2>7
  <2>8. CASE deliveries[x].status = "pending"
    <3>1. deliveries'[x] = [deliveries[x] EXCEPT !.wait = wait, !.age = age]
      BY <2>4, <2>8 DEF wait, age
    <3> QED BY <2>1, <2>5, <2>6, <3>1 DEF DeliveryRow
  <2> QED BY <2>7, <2>8
<1>3. TypeOK'
  <2>1. deliveries' \in [Deliveries -> DeliveryRow]
    <3>1. deliveries' = [x \in Deliveries |-> deliveries'[x]]
      BY DEF Tick
    <3> QED BY <1>2, <3>1
  <2>2. elapsed' \in 0..MaxAge
    <3>1. elapsed \in 0..MaxAge /\ elapsed' = IF batch = {} THEN 0 ELSE Older(elapsed)
      BY DEF Inv, TypeOK, Tick
    <3>2. Older(elapsed) \in 0..MaxAge
      BY <3>1 DEF Older
    <3> QED BY <3>1, <3>2
  <2> QED BY <1>1, <2>1, <2>2 DEF Inv, TypeOK
<1>4. DeliveredReceived' /\ GivesUpHonestly' /\ DuplicatesBounded' /\ RowsSound'
  BY <1>1, <1>2 DEF Inv, DeliveredReceived, GivesUpHonestly, DuplicatesBounded, RowsSound
<1>5. BatchCurrent' /\ FlightSound'
  BY <1>1, <1>2 DEF Inv, TypeOK, BatchCurrent, FlightSound
<1> QED BY <1>3, <1>4, <1>5 DEF Inv

\* Every step of the outbox keeps the invariant.
LEMMA NextInv == Inv /\ [Next]_vars => Inv'
<1> SUFFICES ASSUME Inv, [Next]_vars PROVE Inv'
  OBVIOUS
<1>1. ASSUME NEW s \in Sinks, CreateEventSink(s) PROVE Inv'
  BY <1>1, CreateEventSinkInv
<1>2. ASSUME NEW e \in Events, Enqueue(e) PROVE Inv'
  BY <1>2, EnqueueInv
<1>3. CASE ListDueDeliveries
  BY <1>3, ListDueDeliveriesInv
<1>4. CASE Send
  BY <1>4, SendInv
<1>5. CASE Record
  BY <1>5, RecordInv
<1>6. CASE RecordFails \/ Crash
  BY <1>6, DropBatchInv DEF RecordFails, Crash
<1>7. CASE Tick
  BY <1>7, TickInv
<1>8. CASE UNCHANGED vars
  BY <1>8 DEF vars, workerVars, Inv, TypeOK, DeliveredReceived, GivesUpHonestly,
              DuplicatesBounded, BatchCurrent, FlightSound, RowsSound
<1> QED BY <1>1, <1>2, <1>3, <1>4, <1>5, <1>6, <1>7, <1>8 DEF Next

\* The invariant holds in every state of every behaviour.
THEOREM OutboxInv == Spec => []Inv
<1>1. Init => Inv
  BY InitInv
<1>2. Inv /\ [Next]_vars => Inv'
  BY NextInv
<1> QED BY <1>1, <1>2, PTL DEF Spec

\* Rows and worker variables keep their shape (tables event_sinks,
\* outbox_events, event_deliveries and the locals of Worker.Sync).
THEOREM TypeCorrect == Spec => []TypeOK
<1>1. Inv => TypeOK
  BY DEF Inv
<1> QED BY OutboxInv, <1>1, PTL

\* A delivery to a sink that confirms (webhook, Kafka, NATS) has reached it when the
\* store calls it delivered, although sending and recording are separate steps of
\* Worker.Sync.
THEOREM AtLeastOnce == Spec => []DeliveredReceived
<1>1. Inv => DeliveredReceived
  BY DEF Inv
<1> QED BY OutboxInv, <1>1, PTL

\* The worker marks a delivery failed only after MaxAttempts calls of deliver.
THEOREM HonestFailure == Spec => []GivesUpHonestly
<1>1. Inv => GivesUpHonestly
  BY DEF Inv
<1> QED BY OutboxInv, <1>1, PTL

\* A sink sees an event more often than the attempt counter says only as often
\* as an update failed or the process died.
THEOREM BoundedDuplication == Spec => []DuplicatesBounded
<1>1. Inv => DuplicatesBounded
  BY DEF Inv
<1> QED BY OutboxInv, <1>1, PTL

\* What the worker is about to send is still pending and due: the batch listed
\* by ListDueDeliveries does not go stale.
THEOREM BatchNeverStale == Spec => []BatchCurrent
<1>1. Inv => BatchCurrent
  BY DEF Inv
<1> QED BY OutboxInv, <1>1, PTL

\* A delivered or failed delivery is never reopened and never sent again.
THEOREM SettledForGood == Spec => SettledStays
<1> DEFINE A == \A d \in Deliveries : deliveries[d].status \in {"delivered", "failed"} =>
                  /\ deliveries'[d].status = deliveries[d].status
                  /\ sends'[d] = sends[d]
<1>1. Inv /\ [Next]_vars => [A]_vars
  <2> SUFFICES ASSUME Inv, Next, NEW d \in Deliveries,
                      deliveries[d].status \in {"delivered", "failed"}
               PROVE  deliveries'[d].status = deliveries[d].status /\ sends'[d] = sends[d]
    OBVIOUS
  <2>1. d \notin batch /\ d \notin flight
    BY DEF Inv, TypeOK, BatchCurrent
  <2>2. d[1] \in enqueued
    BY DEF Inv, RowsSound
  <2>3. ASSUME NEW e \in Events, Enqueue(e)
        PROVE  deliveries'[d] = deliveries[d] /\ sends'[d] = sends[d]
    BY <2>2, <2>3 DEF Enqueue
  <2>4. ASSUME NEW s \in Sinks, CreateEventSink(s)
        PROVE  deliveries'[d] = deliveries[d] /\ sends'[d] = sends[d]
    BY <2>4 DEF CreateEventSink
  <2>5. CASE ListDueDeliveries \/ RecordFails \/ Crash
    BY <2>5 DEF ListDueDeliveries, RecordFails, Crash, DropBatch
  <2>6. CASE Send
    <3>1. PICK x \in batch : sends' = [sends EXCEPT ![x] = @ + 1]
      BY <2>6 DEF Send
    <3>2. deliveries' = deliveries
      BY <2>6 DEF Send
    <3> QED BY <2>1, <3>1, <3>2 DEF Inv, TypeOK
  <2>7. CASE Record
    <3>1. PICK x \in flight : deliveries' = [deliveries EXCEPT ![x] = recorded(deliveries[x])]
      BY <2>7 DEF Record
    <3>2. sends' = sends
      BY <2>7 DEF Record
    <3> QED BY <2>1, <3>1, <3>2 DEF Inv, TypeOK
  <2>8. CASE Tick
    BY <2>8 DEF Tick
  <2> QED BY <2>3, <2>4, <2>5, <2>6, <2>7, <2>8 DEF Next
<1> QED BY OutboxInv, <1>1, PTL DEF Spec, SettledStays
===========================================================================
