------------------------------- MODULE Outbox -------------------------------
(***************************************************************************)
(* The transactional outbox: event sinks, the deliveries that a store      *)
(* transaction enqueues with each invoice event, and the worker            *)
(* (internal/outbox) that lists a batch of due deliveries, sends them one  *)
(* by one and records each outcome.  A send and its record are separate    *)
(* steps: the process may die between them.                                *)
(*                                                                         *)
(* Time is relative, so that it never runs out: a delivery keeps the       *)
(* seconds left until next_retry_at (`wait`, 0 when due) and the seconds   *)
(* since updated_at (`age`, which saturates at MaxAge and only matters for *)
(* the order of a batch).                                                  *)
(***************************************************************************)
EXTENDS Integers, FiniteSets

CONSTANTS
    Events, Sinks, Merchants,
    EventMerchant, SinkMerchant,  \* who an event and a sink belong to
    Confirming, \* the sinks whose transport says that the event arrived: a webhook's
                \* 2xx, Kafka's RequireAll, the flush of NATS; RabbitMQ does not
    BatchSize, MaxAttempts,       \* JUNO_PAY_OUTBOX_BATCH_SIZE, ..._MAX_ATTEMPTS
    Delay,      \* Delay[n]: backoff(n) in seconds, n < MaxAttempts
    MaxAge, MaxFaults             \* bounds

Deliveries == Events \X Sinks

ASSUME OutboxAssumption ==
    /\ EventMerchant \in [Events -> Merchants]
    /\ SinkMerchant \in [Sinks -> Merchants]
    /\ Confirming \subseteq Sinks
    /\ BatchSize \in Nat \ {0}
    /\ MaxAttempts \in Nat \ {0}
    /\ MaxAge \in Nat /\ MaxFaults \in Nat
    /\ Delay \in [1..(MaxAttempts - 1) -> 0..MaxAge]

VARIABLES
    sinks,      \* table event_sinks (every sink is created active and stays so)
    enqueued,   \* table outbox_events
    deliveries, \* table event_deliveries: Deliveries -> row
    batch,      \* Worker.Sync: the tasks of the listed batch not yet recorded
    flight,     \* the task that was sent and whose outcome is not recorded
    outcome,    \* did deliver return without an error
    elapsed,    \* seconds since Sync read `now` (saturates at MaxAge)
    faults,     \* crashes and failed updates so far
    sends,      \* Deliveries -> how often deliver was called
    received    \* the deliveries whose event reached the sink

workerVars == <<batch, flight, outcome, elapsed>>
vars == <<sinks, enqueued, deliveries, workerVars, faults, sends, received>>

DeliveryRow ==
    [status : {"absent", "pending", "delivered", "failed"}, attempt : 0..MaxAttempts,
     wait : 0..MaxAge, age : 0..MaxAge]
NoDelivery == [status |-> "absent", attempt |-> 0, wait |-> 0, age |-> 0]

Init ==
    /\ sinks = {}
    /\ enqueued = {}
    /\ deliveries = [d \in Deliveries |-> NoDelivery]
    /\ batch = {}
    /\ flight = {}
    /\ outcome = FALSE
    /\ elapsed = 0
    /\ faults = 0
    /\ sends = [d \in Deliveries |-> 0]
    /\ received = {}

---------------------------------------------------------------------------
(* The store's side. *)

CreateEventSink(s) ==
    /\ s \notin sinks
    /\ sinks' = sinks \cup {s}
    /\ UNCHANGED <<enqueued, deliveries, workerVars, faults, sends, received>>

\* Mutant of Enqueue: an event may be enqueued twice.
EnqueueAgain(e) ==
    /\ enqueued' = enqueued \cup {e}
    /\ deliveries' = [d \in Deliveries |->
            IF d[1] = e /\ d[2] \in sinks /\ SinkMerchant[d[2]] = EventMerchant[e]
            THEN [NoDelivery EXCEPT !.status = "pending"]
            ELSE deliveries[d]]
    /\ UNCHANGED <<sinks, workerVars, faults, sends, received>>

\* enqueueOutboxForInvoiceEventTx: one delivery, due at once, for every sink the
\* merchant has at this moment.
Enqueue(e) ==
    /\ e \notin enqueued
    /\ enqueued' = enqueued \cup {e}
    /\ deliveries' = [d \in Deliveries |->
            IF d[1] = e /\ d[2] \in sinks /\ SinkMerchant[d[2]] = EventMerchant[e]
            THEN [NoDelivery EXCEPT !.status = "pending"]
            ELSE deliveries[d]]
    /\ UNCHANGED <<sinks, workerVars, faults, sends, received>>

---------------------------------------------------------------------------
(* The worker's side. *)

\* Mutants of Due: next_retry_at is ignored; the last attempt is never due.
DueAnyTime == {d \in Deliveries : deliveries[d].status = "pending"}
DueButLast ==
    {d \in Deliveries :
        /\ deliveries[d].status = "pending"
        /\ deliveries[d].wait = 0
        /\ deliveries[d].attempt + 1 < MaxAttempts}

\* status = 'pending' AND next_retry_at <= now, for an active sink.
Due == {d \in Deliveries : deliveries[d].status = "pending" /\ deliveries[d].wait = 0}

\* ListDueDeliveries: at most BatchSize due deliveries, the longest untouched
\* first (ORDER BY updated_at LIMIT n; ties fall to a random id).
ListDueDeliveries ==
    /\ batch = {}
    /\ Due # {}
    /\ \E B \in SUBSET Due :
          /\ B # {}
          /\ Cardinality(B) <= BatchSize
          /\ B = Due \/ Cardinality(B) = BatchSize
          /\ \A b \in B, x \in Due \ B : deliveries[b].age >= deliveries[x].age
          /\ batch' = B
    /\ elapsed' = 0
    /\ UNCHANGED <<sinks, enqueued, deliveries, flight, outcome, faults, sends, received>>

\* Worker.deliver.  The sink gets the event or not, and the answer may be lost.
\* deliverRabbitMQ publishes without confirms and does not look at the error of
\* Close, so it succeeds once the frames are written; the other transports wait
\* for an answer.  A failure may be local (an invalid config).
Send ==
    /\ flight = {}
    /\ \E d \in batch :
          /\ \A x \in batch : deliveries[d].age >= deliveries[x].age
          /\ flight' = {d}
          /\ sends' = [sends EXCEPT ![d] = @ + 1]
          /\ \/ outcome' = TRUE /\ received' = received \cup {d}
             \/ outcome' = FALSE /\ received' = received \cup {d}
             \/ outcome' = FALSE /\ received' = received
             \/ d[2] \notin Confirming /\ outcome' = TRUE /\ received' = received
    /\ UNCHANGED <<sinks, enqueued, deliveries, batch, elapsed, faults>>

\* Mutants of recorded: no limit of attempts; out of attempts taken for success;
\* one attempt too few; a failed attempt not counted.
recordedForever(row) ==
    [status  |-> IF outcome THEN "delivered" ELSE "pending",
     attempt |-> row.attempt + 1, wait |-> 0, age |-> 0]
recordedOptimist(row) ==
    LET attempt == row.attempt + 1
    IN  [status  |-> IF outcome \/ attempt >= MaxAttempts THEN "delivered" ELSE "pending",
         attempt |-> attempt, wait |-> 0, age |-> 0]
recordedEarly(row) ==
    LET attempt == row.attempt + 1
    IN  [status  |-> IF outcome THEN "delivered"
                     ELSE IF attempt + 1 >= MaxAttempts THEN "failed" ELSE "pending",
         attempt |-> attempt, wait |-> 0, age |-> 0]
recordedUncounted(row) ==
    [status  |-> IF outcome THEN "delivered" ELSE "pending",
     attempt |-> IF outcome THEN row.attempt + 1 ELSE row.attempt, wait |-> 0, age |-> 0]

\* The row after an attempt: delivered, failed for good, or pending until
\* `now` + backoff, where `now` is the moment the batch was listed.
recorded(row) ==
    LET attempt == row.attempt + 1
    IN  [status  |-> IF outcome THEN "delivered"
                     ELSE IF attempt >= MaxAttempts THEN "failed" ELSE "pending",
         attempt |-> attempt,
         wait    |-> IF outcome \/ attempt >= MaxAttempts \/ Delay[attempt] <= elapsed THEN 0
                     ELSE Delay[attempt] - elapsed,
         age     |-> 0]

\* UpdateEventDelivery.
Record ==
    /\ \E d \in flight :
          /\ deliveries' = [deliveries EXCEPT ![d] = recorded(deliveries[d])]
          /\ batch' = batch \ {d}
    /\ flight' = {}
    /\ outcome' = FALSE
    /\ UNCHANGED <<sinks, enqueued, elapsed, faults, sends, received>>

\* The rest of the batch is dropped and the worker starts over.
DropBatch ==
    /\ faults < MaxFaults
    /\ faults' = faults + 1
    /\ batch' = {}
    /\ flight' = {}
    /\ outcome' = FALSE
    /\ elapsed' = 0
    /\ UNCHANGED <<sinks, enqueued, deliveries, sends, received>>

\* UpdateEventDelivery fails: Sync returns its error.
RecordFails == flight # {} /\ DropBatch

\* The process dies and starts again.
Crash == batch # {} /\ DropBatch

Older(n) == IF n < MaxAge THEN n + 1 ELSE n

\* A second passes.  Only pending rows and a running Sync look at the time.
Tick ==
    /\ deliveries' = [d \in Deliveries |->
            IF deliveries[d].status # "pending" THEN deliveries[d]
            ELSE [deliveries[d] EXCEPT !.wait = IF @ > 0 THEN @ - 1 ELSE 0, !.age = Older(@)]]
    /\ elapsed' = IF batch = {} THEN 0 ELSE Older(elapsed)
    /\ UNCHANGED <<sinks, enqueued, batch, flight, outcome, faults, sends, received>>

Next ==
    \/ \E s \in Sinks : CreateEventSink(s)
    \/ \E e \in Events : Enqueue(e)
    \/ ListDueDeliveries
    \/ Send
    \/ Record
    \/ RecordFails
    \/ Crash
    \/ Tick

Spec == Init /\ [][Next]_vars

\* The worker's goroutine loops for ever, every call it makes has a timeout, and
\* time passes; nobody has to create sinks or events.
FairSpec ==
    /\ Spec
    /\ WF_vars(ListDueDeliveries)
    /\ WF_vars(Send)
    /\ WF_vars(Record)
    /\ WF_vars(Tick)

---------------------------------------------------------------------------
(***************************************************************************)
(* Properties                                                              *)
(***************************************************************************)

\* Rows and the worker's local variables have their shape.
TypeOK ==
    /\ sinks \subseteq Sinks
    /\ enqueued \subseteq Events
    /\ deliveries \in [Deliveries -> DeliveryRow]
    /\ batch \subseteq Deliveries
    /\ flight \subseteq batch
    /\ outcome \in BOOLEAN
    /\ elapsed \in 0..MaxAge
    /\ faults \in 0..MaxFaults
    /\ sends \in [Deliveries -> Nat]
    /\ received \subseteq Deliveries

\* At least once, where the transport confirms: what the store calls delivered has
\* reached its sink, through lost answers, failed updates and crashes between
\* sending and recording.  Of a RabbitMQ sink it is not true.
DeliveredReceived ==
    \A d \in Deliveries :
        deliveries[d].status = "delivered" /\ d[2] \in Confirming => d \in received

\* The worker gives up only after MaxAttempts calls of deliver, whatever a crash
\* between a call and its record lost.
GivesUpHonestly ==
    \A d \in Deliveries : deliveries[d].status = "failed" => sends[d] >= MaxAttempts

\* Duplicates come from faults only: the sends that are not in the attempt
\* counter number at most one per fault, plus the one in flight.
DuplicatesBounded ==
    \A d \in Deliveries :
        /\ deliveries[d].attempt <= sends[d]
        /\ sends[d] <= deliveries[d].attempt + faults + (IF d \in flight THEN 1 ELSE 0)

\* A task the worker holds is still pending and due: time only makes it older,
\* and no other step can settle it.
BatchCurrent ==
    \A d \in batch : deliveries[d].status = "pending" /\ deliveries[d].wait = 0

\* A delivery that is settled stays settled; nothing sends it again.
SettledStays ==
    [][\A d \in Deliveries : deliveries[d].status \in {"delivered", "failed"} =>
          /\ deliveries'[d].status = deliveries[d].status
          /\ sends'[d] = sends[d]]_vars

\* Every delivery is settled in the end, also one that shares a full batch with
\* deliveries that keep failing.
EverySettled ==
    \A d \in Deliveries :
        deliveries[d].status = "pending" ~> deliveries[d].status \in {"delivered", "failed"}
===========================================================================
