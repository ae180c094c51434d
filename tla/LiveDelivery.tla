---------------------------- MODULE LiveDelivery ----------------------------
(***************************************************************************)
(* The delivery of live klines to sessions: the subscriptions and the      *)
(* delivery leases in the database, the Kafka worker of every              *)
(* control-panel process (its refresh loop and the consumer of the one     *)
(* partition of one topic), the window of unacknowledged chunks, and the   *)
(* stream over which a session's runtime receives and acknowledges them.   *)
(*                                                                         *)
(* A time is a number of ticks still to go, so that no clock has to grow.  *)
(* All subscriptions ask for the one route of the topic; each belongs to a *)
(* session of its own.                                                     *)
(***************************************************************************)
EXTENDS Naturals, Sequences, FiniteSets

CONSTANTS
    Instance,    \* control-panel processes; a restarted process has a new id
    Sub,         \* subscription ids
    MaxMessage,  \* bound: offsets of the partition
    MaxFaults,   \* bound: failures, losses and changes made from outside
    Capacity,    \* capacity of the data window of a process
    TTL,         \* ticks a lease lasts when it is granted or renewed
    None

ASSUME DeliveryAssumption ==
    /\ MaxMessage \in Nat
    /\ MaxFaults \in Nat
    /\ Capacity \in Nat \ {0}
    /\ TTL \in Nat \ {0}
    /\ None \notin Instance \cup Sub

VARIABLES
    sub,       \* session_market_data_subscriptions.status, joined with the runtime's
    lease,     \* stream_delivery_leases: the active row of a subscription
    worker,    \* per process: the refresh loop of the Kafka worker
    routes,    \* per process: subsByRoute
    part,      \* per process: the consumer of the partition
    produced,  \* offset of the last message in the partition
    window,    \* per process: RuntimeDataWindow
    conn,      \* the process whose registry has the stream of a session's runtime
    flight,    \* frames sent on that stream, not yet received
    faults     \* how often something failed so far

dbVars == <<sub, lease>>
procVars == <<worker, routes, part, window>>
streamVars == <<conn, flight>>
envVars == <<produced, faults>>
vars == <<dbVars, procVars, envVars, streamVars>>

-----------------------------------------------------------------------------
Offset == 0..MaxMessage
Left == 0..TTL

LeaseRow == [owner : Instance \cup {None}, left : Left, offset : Offset]
NoLease == [owner |-> None, left |-> 0, offset |-> 0]

Refreshing == {"wait", "renew"}
Loop == [pc : Refreshing \cup {"ended", "dead"},
         todo : SUBSET Sub, next : SUBSET Sub, fetched : Offset]
FreshLoop == [pc |-> "wait", todo |-> {}, next |-> {}, fetched |-> MaxMessage]

Consumer == [st : {"none", "idle", "busy", "granted", "handled"}, pos : Offset,
             todo : SUBSET Sub, cur : Sub \cup {None}, left : Left]
NoConsumer == [st |-> "none", pos |-> 0, todo |-> {}, cur |-> None, left |-> 0]

Frame == [by : Instance, msg : Offset, seq : Nat \ {0}]

Window == [seq : [Sub -> Nat], unacked : SUBSET ((Sub \cup {None}) \X (Nat \ {0}))]
EmptyWindow == [seq |-> [s \in Sub |-> 0], unacked |-> {}]

Alive(i) == worker[i].pc # "dead"
Running(i) == worker[i].pc \in Refreshing

Init ==
    /\ sub = [s \in Sub |-> "none"]
    /\ lease = [s \in Sub |-> NoLease]
    /\ worker = [i \in Instance |-> FreshLoop]
    /\ routes = [i \in Instance |-> {}]
    /\ part = [i \in Instance |-> NoConsumer]
    /\ produced = 0
    /\ faults = 0
    /\ window = [i \in Instance |-> EmptyWindow]
    /\ conn = [s \in Sub |-> None]
    /\ flight = [s \in Sub |-> <<>>]

\* Something fails, is lost or is changed from outside.
Fault ==
    /\ faults < MaxFaults
    /\ faults' = faults + 1

-----------------------------------------------------------------------------
\* The subscriptions.

UpsertSessionMarketDataSubscription(s) == sub' = [sub EXCEPT ![s] = "active"]

\* A session's start asks for its streams, each once; a session asks again with
\* a row of its own after the release.
CreateSessionMarketDataSubscriptions(s) ==
    /\ sub[s] = "none"
    /\ UpsertSessionMarketDataSubscription(s)
    /\ UNCHANGED <<lease, procVars, envVars, streamVars>>

ReleasesSubscription(s) ==
    /\ sub[s] \in {"active", "hidden"}
    /\ sub' = [sub EXCEPT ![s] = "released"]

ReleaseSessionMarketDataSubscriptions(s) ==
    /\ ReleasesSubscription(s)
    /\ UNCHANGED <<lease, procVars, envVars, streamVars>>

\* The status of the runtime, which the list of subscriptions joins, becomes
\* heartbeat_stale or one of the terminal ones, or routable again.
RuntimeStatusChanges(s) ==
    /\ \/ sub[s] = "active" /\ sub' = [sub EXCEPT ![s] = "hidden"]
       \/ sub[s] = "hidden" /\ sub' = [sub EXCEPT ![s] = "active"]
    /\ Fault
    /\ UNCHANGED <<lease, procVars, produced, streamVars>>

\* ListActiveSessionMarketDataSubscriptions
Listed == {s \in Sub : sub[s] = "active"}

-----------------------------------------------------------------------------
\* The leases.

\* Faulty: a lease is granted to whoever asks for it.
GrantsToAnyone(i, s) == TRUE

\* Faulty: a lease of another process is never taken over.
GrantsToOwnerOnly(i, s) == lease[s].owner \in {None, i}

\* The conditions of the upsert: no active row, an own one, or an expired one.
Grants(i, s) ==
    \/ lease[s].owner \in {None, i}
    \/ lease[s].left = 0

\* The row keeps its progress columns, whoever it belonged to.
CreateOrRenewStreamDeliveryLease(i, s) ==
    /\ Grants(i, s)
    /\ lease' = [lease EXCEPT ![s].owner = i, ![s].left = TTL]

\* Only the owner's row is written, expired or not.
RecordStreamDeliveryProgress(i, s, m) ==
    IF lease[s].owner = i
    THEN lease' = [lease EXCEPT ![s].offset = m]
    ELSE UNCHANGED lease

\* Only the row that is active, named by its id, and only for its owner.
EndsStreamDeliveryLease(i, s) ==
    /\ lease[s].owner = i
    /\ lease' = [lease EXCEPT ![s] = NoLease]

\* The RPC, on behalf of the owner whose lease it names: the grants the owner
\* acts on are given up with the lease.
ReleaseStreamDeliveryLease(i, s) ==
    /\ EndsStreamDeliveryLease(i, s)
    /\ part' = [part EXCEPT ![i].left = IF part[i].cur = s THEN 0 ELSE @]
    /\ Fault
    /\ UNCHANGED <<sub, worker, routes, window, produced, streamVars>>

Tick ==
    /\ \/ \E s \in Sub : lease[s].left > 0
       \/ \E i \in Instance : part[i].left > 0
    /\ lease' = [s \in Sub |->
         [lease[s] EXCEPT !.left = IF @ = 0 THEN 0 ELSE @ - 1]]
    /\ part' = [i \in Instance |->
         [part[i] EXCEPT !.left = IF @ = 0 THEN 0 ELSE @ - 1]]
    /\ UNCHANGED <<sub, worker, routes, window, envVars, streamVars>>

-----------------------------------------------------------------------------
\* The refresh loop of the worker of a process.

ListSubscriptions(i) ==
    /\ worker[i].pc = "wait"
    /\ worker' = [worker EXCEPT ![i].pc = "renew", ![i].todo = Listed, ![i].next = {}]
    /\ UNCHANGED <<dbVars, routes, part, window, envVars, streamVars>>

\* A subscription leased by another process is left out.
RenewNext(i) ==
    /\ worker[i].pc = "renew"
    /\ \E s \in worker[i].todo :
         \/ /\ CreateOrRenewStreamDeliveryLease(i, s)
            /\ worker' = [worker EXCEPT ![i].todo = @ \ {s}, ![i].next = @ \cup {s}]
         \/ /\ ~Grants(i, s)
            /\ worker' = [worker EXCEPT ![i].todo = @ \ {s}]
            /\ UNCHANGED lease
    /\ UNCHANGED <<sub, routes, part, window, envVars, streamVars>>

\* The list, a renewal or the start of a consumer failed: Run returns the error,
\* nobody starts it again, and the Kafka client it closes fetches nothing more.
WorkerEnds(i) ==
    worker' = [worker EXCEPT ![i] =
                 [FreshLoop EXCEPT !.pc = "ended", !.fetched = produced]]

RefreshFails(i) ==
    /\ \/ worker[i].pc = "wait"
       \/ worker[i].pc = "renew" /\ worker[i].todo # {}
    /\ WorkerEnds(i)
    /\ Fault
    /\ UNCHANGED <<dbVars, routes, part, window, produced, streamVars>>

\* startTopicConsumer: OffsetNewest.
StartTopicConsumer(i) ==
    part' = [part EXCEPT ![i] = [NoConsumer EXCEPT !.st = "idle", !.pos = produced]]

InstallRoutes(i) ==
    /\ worker[i].pc = "renew"
    /\ worker[i].todo = {}
    /\ routes' = [routes EXCEPT ![i] = worker[i].next]

\* ensureTopicConsumers: a consumer runs on when its last route is gone.
EnsureTopicConsumers(i) ==
    /\ InstallRoutes(i)
    /\ IF routes'[i] # {} /\ part[i].st = "none"
       THEN StartTopicConsumer(i)
       ELSE UNCHANGED part
    /\ worker' = [worker EXCEPT ![i].pc = "wait", ![i].next = {}]
    /\ UNCHANGED <<dbVars, window, envVars, streamVars>>

\* Kafka does not know the topic, or the partition cannot be consumed.
TopicConsumerFails(i) ==
    /\ InstallRoutes(i)
    /\ routes'[i] # {} /\ part[i].st = "none"
    /\ WorkerEnds(i)
    /\ Fault
    /\ UNCHANGED <<dbVars, part, window, produced, streamVars>>

-----------------------------------------------------------------------------
\* The consumer of the partition.

\* Messages are fetched while the client is open; the ones fetched before are kept.
TakeMessage(i) ==
    LET m == part[i].pos + 1 IN
    /\ part[i].st = "idle"
    /\ m <= produced /\ m <= worker[i].fetched
    /\ part' = [part EXCEPT ![i].pos = m, ![i].todo = routes[i],
                            ![i].st = IF routes[i] = {} THEN "idle" ELSE "busy"]
    /\ UNCHANGED <<dbVars, worker, routes, window, envVars, streamVars>>

\* Faulty: the topic of a consumer that stopped stays in topicCancels.
StopsForGood(i) ==
    /\ part[i].st = "idle"
    /\ part' = [part EXCEPT ![i] = [NoConsumer EXCEPT !.st = "busy"]]
    /\ Fault
    /\ UNCHANGED <<dbVars, worker, routes, window, produced, streamVars>>

\* Kafka closes the partition consumer: the next refresh starts another.
PartitionStops(i) ==
    /\ part[i].st = "idle"
    /\ part' = [part EXCEPT ![i] = NoConsumer]
    /\ Fault
    /\ UNCHANGED <<dbVars, worker, routes, window, produced, streamVars>>

\* The consumer is done with subscription s of its message.
Done(i, s) ==
    [part[i] EXCEPT !.todo = @ \ {s}, !.cur = None, !.left = 0,
                    !.st = IF part[i].todo = {s} THEN "idle" ELSE "busy"]

RenewForMessage(i) ==
    /\ part[i].st = "busy"
    /\ \E s \in part[i].todo :
         /\ CreateOrRenewStreamDeliveryLease(i, s)
         /\ part' = [part EXCEPT ![i].st = "granted", ![i].cur = s, ![i].left = TTL]
    /\ UNCHANGED <<sub, worker, routes, window, envVars, streamVars>>

\* Denied, or the database failed: the message is not delivered to s.
SkipsSubscription(i) ==
    /\ part[i].st = "busy"
    /\ \E s \in part[i].todo :
         /\ \/ ~Grants(i, s) /\ UNCHANGED faults
            \/ Fault
         /\ part' = [part EXCEPT ![i] = Done(i, s)]
    /\ UNCHANGED <<dbVars, worker, routes, window, produced, streamVars>>

\* isStaleDemoKline: the message is too old, and recorded as if it were delivered.
DropsStale(i) ==
    /\ part[i].st = "granted"
    /\ part' = [part EXCEPT ![i].st = "handled"]
    /\ UNCHANGED <<dbVars, worker, routes, window, envVars, streamVars>>

-----------------------------------------------------------------------------
\* The window and the stream.

NextSequence(i, s) == window[i].seq[s] + 1

HasRoom(i) == Cardinality(window[i].unacked) < Capacity

\* Faulty: the number that was given out is not stored.
EnqueueForgetsNumber(i, s) ==
    window' = [window EXCEPT ![i].unacked = @ \cup {<<s, NextSequence(i, s)>>}]

\* The number and the slot are taken before the stream is looked up.
Enqueue(i, s) ==
    LET n == NextSequence(i, s) IN
    window' = [window EXCEPT ![i].seq[s] = n, ![i].unacked = @ \cup {<<s, n>>}]

\* DeliverLiveKlineBatch sends on the stream of the session's runtime.
DeliverLiveKlineBatch(i) ==
    LET s == part[i].cur IN
    /\ part[i].st = "granted"
    /\ HasRoom(i)
    /\ conn[s] = i
    /\ Enqueue(i, s)
    /\ flight' = [flight EXCEPT ![s] =
         Append(@, [by |-> i, msg |-> part[i].pos, seq |-> NextSequence(i, s)])]
    /\ part' = [part EXCEPT ![i].st = "handled"]
    /\ UNCHANGED <<dbVars, worker, routes, envVars, conn>>

\* No stream of the runtime here, or it closed meanwhile: the slot stays taken.
DeliveryFails(i) ==
    LET s == part[i].cur IN
    /\ part[i].st = "granted"
    /\ HasRoom(i)
    /\ \/ conn[s] # i /\ UNCHANGED faults
       \/ conn[s] = i /\ Fault
    /\ Enqueue(i, s)
    /\ part' = [part EXCEPT ![i] = Done(i, s)]
    /\ UNCHANGED <<dbVars, worker, routes, produced, streamVars>>

\* ErrRuntimeDataBackpressure: the message is dropped and the user notified.
Backpressured(i) ==
    /\ part[i].st = "granted"
    /\ ~HasRoom(i)
    /\ part' = [part EXCEPT ![i] = Done(i, part[i].cur)]
    /\ UNCHANGED <<dbVars, worker, routes, window, envVars, streamVars>>

\* The record may fail too (the lease was lost, the database failed).
RecordsProgress(i) ==
    LET s == part[i].cur IN
    /\ part[i].st = "handled"
    /\ \/ RecordStreamDeliveryProgress(i, s, part[i].pos) /\ UNCHANGED faults
       \/ Fault /\ UNCHANGED lease
    /\ part' = [part EXCEPT ![i] = Done(i, s)]
    /\ UNCHANGED <<sub, worker, routes, window, produced, streamVars>>

\* Faulty: an acknowledgement frees every slot of the session.
AcksWholeSession(i, s, n) ==
    window' = [window EXCEPT ![i].unacked = {u \in @ : u[1] # s}]

Ack(i, s, n) == window' = [window EXCEPT ![i].unacked = @ \ {<<s, n>>}]

\* The runtime takes the next frame and acknowledges it.
HandleRuntimeDataAck(s) ==
    /\ flight[s] # <<>>
    /\ Ack(Head(flight[s]).by, s, Head(flight[s]).seq)
    /\ flight' = [flight EXCEPT ![s] = Tail(@)]
    /\ UNCHANGED <<dbVars, worker, routes, part, envVars, conn>>

\* A chunk of a dataset goes to another session: it takes a slot of the same
\* window, for as long as that session does not acknowledge it.
DeliverDatasetChunk(i) ==
    /\ Alive(i)
    /\ HasRoom(i)
    /\ window' = [window EXCEPT ![i].unacked = @ \cup {<<None, 1>>}]
    /\ Fault
    /\ UNCHANGED <<dbVars, worker, routes, part, produced, streamVars>>

DatasetChunkAcked(i) ==
    /\ <<None, 1>> \in window[i].unacked
    /\ Ack(i, None, 1)
    /\ UNCHANGED <<dbVars, worker, routes, part, envVars, streamVars>>

-----------------------------------------------------------------------------
\* The environment.

Produce ==
    /\ produced < MaxMessage
    /\ produced' = produced + 1
    /\ UNCHANGED <<dbVars, procVars, streamVars, faults>>

\* The runtime's stream is accepted by process i.
Connect(i, s) ==
    /\ Alive(i) /\ conn[s] = None
    /\ conn' = [conn EXCEPT ![s] = i]
    /\ UNCHANGED <<dbVars, procVars, envVars, flight>>

\* The stream ends: the frames in flight, or their acknowledgements, are lost.
Disconnect(s) ==
    /\ conn[s] # None
    /\ conn' = [conn EXCEPT ![s] = None]
    /\ flight' = [flight EXCEPT ![s] = <<>>]
    /\ Fault
    /\ UNCHANGED <<dbVars, procVars, produced>>

\* A process dies with all it keeps in memory, or is shut down; its leases stay.
ProcessDies(i) ==
    /\ Alive(i)
    /\ worker' = [worker EXCEPT ![i] = [FreshLoop EXCEPT !.pc = "dead"]]
    /\ routes' = [routes EXCEPT ![i] = {}]
    /\ part' = [part EXCEPT ![i] = NoConsumer]
    /\ window' = [window EXCEPT ![i] = EmptyWindow]
    /\ conn' = [s \in Sub |-> IF conn[s] = i THEN None ELSE conn[s]]
    /\ flight' = [s \in Sub |-> IF conn[s] = i THEN <<>> ELSE flight[s]]
    /\ Fault
    /\ UNCHANGED <<dbVars, produced>>

-----------------------------------------------------------------------------
Refreshes(i) == ListSubscriptions(i) \/ RenewNext(i) \/ EnsureTopicConsumers(i)

Delivers(i) ==
    \/ RenewForMessage(i) \/ SkipsSubscription(i) \/ DropsStale(i)
    \/ DeliverLiveKlineBatch(i) \/ DeliveryFails(i) \/ Backpressured(i)
    \/ RecordsProgress(i)

Next ==
    \/ \E s \in Sub :
         \/ CreateSessionMarketDataSubscriptions(s)
         \/ ReleaseSessionMarketDataSubscriptions(s)
         \/ RuntimeStatusChanges(s)
         \/ HandleRuntimeDataAck(s)
         \/ Disconnect(s)
         \/ \E i \in Instance : Connect(i, s) \/ ReleaseStreamDeliveryLease(i, s)
    \/ \E i \in Instance :
         \/ Refreshes(i)
         \/ RefreshFails(i)
         \/ TopicConsumerFails(i)
         \/ TakeMessage(i)
         \/ PartitionStops(i)
         \/ Delivers(i)
         \/ DeliverDatasetChunk(i)
         \/ DatasetChunkAcked(i)
         \/ ProcessDies(i)
    \/ Produce
    \/ Tick

Safety == Init /\ [][Next]_vars

\* The statements of the consumer that wait for the database at most.
Handles(i) ==
    \/ RenewForMessage(i) \/ SkipsSubscription(i)
    \/ DeliveryFails(i) /\ conn[part[i].cur] # i
    \/ Backpressured(i) \/ RecordsProgress(i)

\* The ticker keeps the refresh loop going, the loop runs to the end of a
\* refresh, the consumer goes on, and time passes, as long as the database
\* answers.  No delivery to a connected runtime is owed to end: sendFrame has no
\* deadline, and blocks while the runtime does not read.
Spec ==
    /\ Safety
    /\ \A i \in Instance :
         /\ WF_vars(ListSubscriptions(i))
         /\ WF_vars(RenewNext(i))
         /\ WF_vars(EnsureTopicConsumers(i))
         /\ WF_vars(Handles(i))
    /\ WF_vars(Tick)

\* What only the runtimes can promise: they read, so that a delivery returns.
RuntimesRead ==
    \A i \in Instance :
        WF_vars(DropsStale(i) \/ DeliverLiveKlineBatch(i) \/ DeliveryFails(i))

-----------------------------------------------------------------------------
\* Every variable has its type.
DeliveryTypeOK ==
    /\ sub \in [Sub -> {"none", "active", "hidden", "released"}]
    /\ lease \in [Sub -> LeaseRow]
    /\ worker \in [Instance -> Loop]
    /\ routes \in [Instance -> SUBSET Sub]
    /\ part \in [Instance -> Consumer]
    /\ produced \in Offset
    /\ faults \in 0..MaxFaults
    /\ window \in [Instance -> Window]
    /\ conn \in [Sub -> Instance \cup {None}]
    /\ flight \in [Sub -> Seq(Frame)]

\* A process sends a message only after it renewed the lease of the
\* subscription for it: of two processes that are between their renewal and
\* the end of the message for one subscription, at most one has a lease that
\* has not expired (handleKlineMessage, CreateOrRenewStreamDeliveryLease).
OneValidSender ==
    \A i, j \in Instance :
        /\ part[i].left > 0 /\ part[j].left > 0
        /\ part[i].cur = part[j].cur
        => i = j

\* What is on a session's stream was sent by the process that has the stream,
\* in the order of the partition and with growing sequence numbers, across
\* restarts of the consumer (startTopicConsumer, RuntimeDataWindow.Enqueue).
StreamInOrder ==
    \A s \in Sub : \A k \in DOMAIN flight[s] :
        /\ flight[s][k].by = conn[s]
        /\ k > 1 => /\ flight[s][k - 1].msg < flight[s][k].msg
                    /\ flight[s][k - 1].seq < flight[s][k].seq

\* A frame that is in flight still has its slot in the window: an
\* acknowledgement frees the slot of its own frame only, and the window bounds
\* what a process has in flight (RuntimeDataWindow.Ack).
FlightHoldsSlots ==
    /\ \A s \in Sub : \A k \in DOMAIN flight[s] :
         <<s, flight[s][k].seq>> \in window[flight[s][k].by].unacked
    /\ \A i \in Instance : Cardinality(window[i].unacked) <= Capacity

\* While a subscription stays active and some worker keeps running, its lease
\* comes to a worker that runs and has not let it expire, however its former
\* owner ended.
LeaseFailsOver ==
    \A s \in Sub :
        <>[](sub[s] = "active" /\ \E i \in Instance : Running(i)) =>
        []<>(lease[s].left > 0 /\ \E i \in Instance : lease[s].owner = i /\ Running(i))

\* If the runtimes read what they are sent, a worker that runs and has routes has
\* a consumer that comes back to the partition: one that stopped is started
\* again, one at work finishes.
ConsumerComesBack ==
    RuntimesRead =>
        \A i \in Instance :
            <>[](Running(i) /\ routes[i] # {}) => []<>(part[i].st = "idle")
=============================================================================
