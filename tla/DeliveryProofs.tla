--------------------------- MODULE DeliveryProofs ---------------------------
(***************************************************************************)
(* What is delivered to the runtimes.  Live data (LiveDelivery): of all    *)
(* processes at most one sends under a valid lease of a subscription, what *)
(* is on a stream is in order, and every frame on it holds a slot of the   *)
(* window.  Order events (OrderDelivery): what a process has sent of a     *)
(* session is what its cursor has passed, so that no event is skipped and  *)
(* none is sent twice while the process runs.                              *)
(***************************************************************************)
EXTENDS LiveDelivery, OrderDelivery, FiniteSetTheorems, WellFoundedInduction, TLAPS

-----------------------------------------------------------------------------
(* Types *)

LEMMA RecordsTyped ==
  /\ NoLease \in LeaseRow
  /\ FreshLoop \in Loop
  /\ NoConsumer \in Consumer
  /\ EmptyWindow \in Window
  /\ \A n \in Offset : [FreshLoop EXCEPT !.pc = "ended", !.fetched = n] \in Loop
  /\ [FreshLoop EXCEPT !.pc = "dead"] \in Loop
  /\ \A n \in Offset : [NoConsumer EXCEPT !.st = "idle", !.pos = n] \in Consumer
<1>1. NoLease \in LeaseRow
  BY DeliveryAssumption DEF NoLease, LeaseRow, Left, Offset
<1>2. FreshLoop \in Loop
  BY DeliveryAssumption DEF FreshLoop, Loop, Offset, Refreshing
<1>3. NoConsumer \in Consumer
  BY DeliveryAssumption DEF NoConsumer, Consumer, Left, Offset
<1>4. EmptyWindow \in Window
  BY DEF EmptyWindow, Window
<1>5. \A n \in Offset : [FreshLoop EXCEPT !.pc = "ended", !.fetched = n] \in Loop
  BY <1>2 DEF Loop
<1>6. [FreshLoop EXCEPT !.pc = "dead"] \in Loop
  BY <1>2 DEF Loop
<1>7. \A n \in Offset : [NoConsumer EXCEPT !.st = "idle", !.pos = n] \in Consumer
  BY <1>3 DEF Consumer
<1> QED BY <1>1, <1>2, <1>3, <1>4, <1>5, <1>6, <1>7

LEMMA FaultTyped ==
  ASSUME DeliveryTypeOK, Fault \/ UNCHANGED faults
  PROVE  faults' \in 0 .. MaxFaults
  BY DeliveryAssumption DEF Fault, DeliveryTypeOK

LEMMA DoneTyped ==
  ASSUME DeliveryTypeOK, NEW i \in Instance, NEW s
  PROVE  /\ Done(i, s) \in Consumer
         /\ Done(i, s).left = 0 /\ Done(i, s).cur = None
         /\ Done(i, s).todo = part[i].todo \ {s} /\ Done(i, s).pos = part[i].pos
         /\ Done(i, s).st \in {"idle", "busy"}
<1>1. part[i] \in Consumer
  BY DEF DeliveryTypeOK
<1>2. 0 \in Left
  BY DeliveryAssumption DEF Left
<1> QED BY <1>1, <1>2 DEF Done, Consumer

\* Part, lease, window: a process or a subscription gets a new value.
LEMMA GrantTyped ==
  ASSUME DeliveryTypeOK, NEW i \in Instance, NEW s \in Sub,
         CreateOrRenewStreamDeliveryLease(i, s)
  PROVE  /\ lease' \in [Sub -> LeaseRow]
         /\ lease'[s].owner = i /\ lease'[s].left = TTL
         /\ \A r \in Sub \ {s} : lease'[r] = lease[r]
<1>1. lease[s] \in LeaseRow
  BY DEF DeliveryTypeOK
<1>2. lease' = [lease EXCEPT ![s] = [lease[s] EXCEPT !.owner = i, !.left = TTL]]
  BY DEF CreateOrRenewStreamDeliveryLease, DeliveryTypeOK
<1>3. TTL \in Left
  BY DeliveryAssumption DEF Left
<1>4. [lease[s] EXCEPT !.owner = i, !.left = TTL] \in LeaseRow
  BY <1>1, <1>3 DEF LeaseRow
<1> QED BY <1>1, <1>2, <1>4 DEF DeliveryTypeOK, LeaseRow

LEMMA EnqueueTyped ==
  ASSUME DeliveryTypeOK, NEW i \in Instance, NEW s \in Sub, Enqueue(i, s)
  PROVE  /\ window' \in [Instance -> Window]
         /\ NextSequence(i, s) \in Nat \ {0} /\ NextSequence(i, s) = window[i].seq[s] + 1
         /\ window[i].seq[s] \in Nat
         /\ window'[i].seq = [window[i].seq EXCEPT ![s] = NextSequence(i, s)]
         /\ window'[i].unacked = window[i].unacked \cup {<<s, NextSequence(i, s)>>}
         /\ \A j \in Instance \ {i} : window'[j] = window[j]
<1> DEFINE n == NextSequence(i, s)
           w == [window[i] EXCEPT !.seq = [window[i].seq EXCEPT ![s] = n],
                                  !.unacked = @ \cup {<<s, n>>}]
<1>1. window[i] \in Window /\ window[i].seq[s] \in Nat
  BY DEF DeliveryTypeOK, Window
<1>2. n \in Nat \ {0} /\ n = window[i].seq[s] + 1
  BY <1>1 DEF NextSequence
<1> HIDE DEF n
<1>3. window' = [window EXCEPT ![i] = w]
  BY DEF Enqueue, DeliveryTypeOK, n
<1>4. /\ w.seq = [window[i].seq EXCEPT ![s] = n]
      /\ w.unacked = window[i].unacked \cup {<<s, n>>}
  BY <1>1 DEF Window
<1>5. w.seq \in [Sub -> Nat]
  BY <1>1, <1>2, <1>4 DEF Window
<1>6. <<s, n>> \in (Sub \cup {None}) \X (Nat \ {0})
  BY <1>2
<1>7. w.unacked \subseteq (Sub \cup {None}) \X (Nat \ {0})
  BY <1>1, <1>4, <1>6 DEF Window
<1>8. w \in Window
  BY <1>1, <1>5, <1>7, <1>4 DEF Window
<1> HIDE DEF w
<1> QED BY <1>1, <1>2, <1>3, <1>4, <1>8 DEF DeliveryTypeOK, n

LEMMA AckTyped ==
  ASSUME DeliveryTypeOK, NEW i \in Instance, NEW s, NEW n, Ack(i, s, n)
  PROVE  /\ window' \in [Instance -> Window]
         /\ \A j \in Instance : window'[j].seq = window[j].seq
         /\ window'[i].unacked = window[i].unacked \ {<<s, n>>}
         /\ \A j \in Instance \ {i} : window'[j] = window[j]
<1> DEFINE w == [window[i] EXCEPT !.unacked = @ \ {<<s, n>>}]
<1>1. window[i] \in Window
  BY DEF DeliveryTypeOK
<1>2. window' = [window EXCEPT ![i] = w]
  BY DEF Ack, DeliveryTypeOK
<1>3. w \in Window /\ w.seq = window[i].seq /\ w.unacked = window[i].unacked \ {<<s, n>>}
  BY <1>1 DEF Window
<1> HIDE DEF w
<1> QED BY <1>1, <1>2, <1>3 DEF DeliveryTypeOK

LEMMA InitTyped == Init => DeliveryTypeOK
<1> SUFFICES ASSUME Init PROVE DeliveryTypeOK
  OBVIOUS
<1>1. produced \in Offset /\ faults \in 0 .. MaxFaults
  BY DeliveryAssumption DEF Init, Offset
<1>2. /\ lease \in [Sub -> LeaseRow] /\ worker \in [Instance -> Loop]
      /\ part \in [Instance -> Consumer] /\ window \in [Instance -> Window]
  BY RecordsTyped DEF Init
<1>3. flight \in [Sub -> Seq(Frame)]
  BY DEF Init
<1>4. /\ sub \in [Sub -> {"none", "active", "hidden", "released"}]
      /\ routes \in [Instance -> SUBSET Sub]
      /\ conn \in [Sub -> Instance \cup {None}]
  BY DEF Init
<1> QED BY <1>1, <1>2, <1>3, <1>4 DEF DeliveryTypeOK

\* What the refresh loop does to its own record.
LEMMA LoopTyped ==
  ASSUME NEW l \in Loop, NEW t \in SUBSET Sub, NEW n \in SUBSET Sub,
         NEW p \in Refreshing
  PROVE  /\ [l EXCEPT !.pc = p, !.todo = t, !.next = n] \in Loop
         /\ [l EXCEPT !.todo = t, !.next = n] \in Loop
         /\ [l EXCEPT !.todo = t] \in Loop
         /\ [l EXCEPT !.pc = p, !.next = n] \in Loop
  BY DEF Loop

\* Only the subscription changes.
LEMMA SubscriptionActionsTyped ==
  ASSUME DeliveryTypeOK, NEW s \in Sub,
         \/ CreateSessionMarketDataSubscriptions(s)
         \/ ReleaseSessionMarketDataSubscriptions(s)
         \/ RuntimeStatusChanges(s)
  PROVE  DeliveryTypeOK'
<1>1. sub' \in [Sub -> {"none", "active", "hidden", "released"}]
  BY DEF DeliveryTypeOK, CreateSessionMarketDataSubscriptions,
         ReleaseSessionMarketDataSubscriptions, RuntimeStatusChanges,
         UpsertSessionMarketDataSubscription, ReleasesSubscription
<1>2. faults' \in 0 .. MaxFaults
  BY FaultTyped DEF CreateSessionMarketDataSubscriptions, envVars,
         ReleaseSessionMarketDataSubscriptions, RuntimeStatusChanges
<1>3. UNCHANGED <<lease, procVars, produced, streamVars>>
  BY DEF CreateSessionMarketDataSubscriptions, envVars,
         ReleaseSessionMarketDataSubscriptions, RuntimeStatusChanges
<1> QED BY <1>1, <1>2, <1>3 DEF DeliveryTypeOK, procVars, streamVars

\* Leases, of all rows or of one, and the copy a consumer acts on.
LEMMA LeaseActionsTyped ==
  ASSUME DeliveryTypeOK,
         \/ Tick
         \/ \E i \in Instance, s \in Sub : ReleaseStreamDeliveryLease(i, s)
  PROVE  DeliveryTypeOK'
<1>1. CASE Tick
  <2>1. \A d \in Left : (IF d = 0 THEN 0 ELSE d - 1) \in Left
    BY DeliveryAssumption DEF Left
  <2>2. \A r \in LeaseRow : [r EXCEPT !.left = IF @ = 0 THEN 0 ELSE @ - 1] \in LeaseRow
    BY <2>1 DEF LeaseRow
  <2>3. \A c \in Consumer : [c EXCEPT !.left = IF @ = 0 THEN 0 ELSE @ - 1] \in Consumer
    BY <2>1 DEF Consumer
  <2>4. lease' \in [Sub -> LeaseRow] /\ part' \in [Instance -> Consumer]
    BY <1>1, <2>2, <2>3 DEF Tick, DeliveryTypeOK
  <2> QED BY <1>1, <2>4 DEF Tick, DeliveryTypeOK, envVars, streamVars
<1>2. ASSUME NEW i \in Instance, NEW s \in Sub, ReleaseStreamDeliveryLease(i, s)
      PROVE  DeliveryTypeOK'
  <2>1. lease' \in [Sub -> LeaseRow]
    BY <1>2, RecordsTyped DEF ReleaseStreamDeliveryLease, EndsStreamDeliveryLease,
           DeliveryTypeOK
  <2>2. 0 \in Left
    BY DeliveryAssumption DEF Left
  <2>3. part[i] \in Consumer /\ part[i].left \in Left
    BY <1>2 DEF DeliveryTypeOK, Consumer
  <2>4. (IF part[i].cur = s THEN 0 ELSE part[i].left) \in Left
    BY <2>2, <2>3
  <2>5. [part[i] EXCEPT !.left = IF part[i].cur = s THEN 0 ELSE part[i].left] \in Consumer
    BY <2>3, <2>4 DEF Consumer
  <2>6. part' \in [Instance -> Consumer]
    BY <1>2, <2>5 DEF ReleaseStreamDeliveryLease, DeliveryTypeOK
  <2>7. faults' \in 0 .. MaxFaults
    BY <1>2, FaultTyped DEF ReleaseStreamDeliveryLease
  <2> QED BY <1>2, <2>1, <2>6, <2>7
          DEF ReleaseStreamDeliveryLease, DeliveryTypeOK, streamVars
<1> QED BY <1>1, <1>2

\* The refresh loop.
LEMMA LoopActionsTyped ==
  ASSUME DeliveryTypeOK, NEW i \in Instance,
         Refreshes(i) \/ RefreshFails(i) \/ TopicConsumerFails(i)
  PROVE  DeliveryTypeOK'
<1> USE DEF dbVars, envVars, streamVars
<1>0. /\ worker[i] \in Loop /\ part[i] \in Consumer /\ produced \in Offset
      /\ worker[i].todo \in SUBSET Sub /\ worker[i].next \in SUBSET Sub
      /\ "wait" \in Refreshing /\ "renew" \in Refreshing
  BY DEF DeliveryTypeOK, Loop, Refreshing
<1>1. CASE ListSubscriptions(i)
  <2>1. Listed \in SUBSET Sub /\ {} \in SUBSET Sub
    BY DEF Listed
  <2>2. [worker[i] EXCEPT !.pc = "renew", !.todo = Listed, !.next = {}] \in Loop
    BY <1>0, <2>1, LoopTyped
  <2>3. worker' \in [Instance -> Loop]
    BY <1>1, <2>2 DEF ListSubscriptions, DeliveryTypeOK
  <2> QED BY <1>1, <2>3 DEF ListSubscriptions, DeliveryTypeOK
<1>2. CASE RenewNext(i)
  <2>1. PICK s \in worker[i].todo :
          \/ /\ CreateOrRenewStreamDeliveryLease(i, s)
             /\ worker' = [worker EXCEPT ![i].todo = @ \ {s}, ![i].next = @ \cup {s}]
          \/ /\ worker' = [worker EXCEPT ![i].todo = @ \ {s}]
             /\ UNCHANGED lease
    BY <1>2 DEF RenewNext
  <2>2. s \in Sub
    BY <1>0, <2>1
  <2>3. lease' \in [Sub -> LeaseRow]
    BY <2>1, <2>2, GrantTyped DEF DeliveryTypeOK
  <2>4. /\ [worker[i] EXCEPT !.todo = worker[i].todo \ {s},
                             !.next = worker[i].next \cup {s}] \in Loop
        /\ [worker[i] EXCEPT !.todo = worker[i].todo \ {s}] \in Loop
    BY <1>0, <2>2, LoopTyped
  <2>5. worker' \in [Instance -> Loop]
    BY <2>1, <2>4 DEF DeliveryTypeOK
  <2> QED BY <1>2, <2>3, <2>5 DEF RenewNext, DeliveryTypeOK
<1>3. CASE EnsureTopicConsumers(i)
  <2>1. [worker[i] EXCEPT !.pc = "wait", !.next = {}] \in Loop
    BY <1>0, LoopTyped
  <2>2. worker' \in [Instance -> Loop]
    BY <1>3, <2>1 DEF EnsureTopicConsumers, DeliveryTypeOK
  <2>3. part' \in [Instance -> Consumer]
    BY <1>0, <1>3, RecordsTyped DEF EnsureTopicConsumers, StartTopicConsumer, DeliveryTypeOK
  <2>4. routes' \in [Instance -> SUBSET Sub]
    BY <1>0, <1>3 DEF EnsureTopicConsumers, InstallRoutes, DeliveryTypeOK
  <2> QED BY <1>3, <2>2, <2>3, <2>4 DEF EnsureTopicConsumers, DeliveryTypeOK
<1>4. CASE RefreshFails(i) \/ TopicConsumerFails(i)
  <2>1. worker' \in [Instance -> Loop]
    BY <1>0, <1>4, RecordsTyped DEF RefreshFails, TopicConsumerFails, WorkerEnds, DeliveryTypeOK
  <2>2. faults' \in 0 .. MaxFaults
    BY <1>4, FaultTyped DEF RefreshFails, TopicConsumerFails
  <2>3. routes' \in [Instance -> SUBSET Sub]
    BY <1>0, <1>4 DEF RefreshFails, TopicConsumerFails, InstallRoutes, DeliveryTypeOK
  <2> QED BY <1>4, <2>1, <2>2, <2>3 DEF RefreshFails, TopicConsumerFails, DeliveryTypeOK
<1> QED BY <1>1, <1>2, <1>3, <1>4 DEF Refreshes

-----------------------------------------------------------------------------
(* The lease behind a consumer *)

\* A consumer that is between its renewal and the end of the message for a
\* subscription names it, and while the time the renewal gave it is not over
\* the lease is its own and lasts at least as long.
Backed(i) ==
  /\ part[i].st \in {"granted", "handled"} => part[i].cur \in Sub
  /\ part[i].left > 0 =>
       /\ part[i].cur \in Sub
       /\ lease[part[i].cur].owner = i
       /\ part[i].left <= lease[part[i].cur].left

SafetyInv ==
  /\ DeliveryTypeOK
  /\ \A i \in Instance : Backed(i)

\* The consumer takes and handles messages.
LEMMA ConsumerActionsTyped ==
  ASSUME SafetyInv, NEW i \in Instance,
         TakeMessage(i) \/ PartitionStops(i) \/ Delivers(i)
  PROVE  DeliveryTypeOK'
<1> USE DEF dbVars, envVars, streamVars
<1>0. /\ DeliveryTypeOK
      /\ part[i] \in Consumer /\ part[i].todo \in SUBSET Sub /\ part[i].pos \in Offset
      /\ part[i].cur \in Sub \cup {None}
      /\ routes[i] \in SUBSET Sub /\ produced \in Offset /\ TTL \in Left
  BY DeliveryAssumption DEF SafetyInv, DeliveryTypeOK, Consumer, Left
<1>1. CASE TakeMessage(i)
  <2> DEFINE m == part[i].pos + 1
             q == IF routes[i] = {} THEN "idle" ELSE "busy"
  <2>1. m \in Offset /\ q \in {"none", "idle", "busy", "granted", "handled"}
    BY <1>0, <1>1, DeliveryAssumption DEF TakeMessage, Offset
  <2>2. part' = [part EXCEPT ![i] = [part[i] EXCEPT !.pos = m, !.todo = routes[i], !.st = q]]
    BY <1>0, <1>1 DEF TakeMessage, DeliveryTypeOK
  <2> HIDE DEF m, q
  <2>3. [part[i] EXCEPT !.pos = m, !.todo = routes[i], !.st = q] \in Consumer
    BY <1>0, <2>1 DEF Consumer
  <2>4. part' \in [Instance -> Consumer]
    BY <1>0, <2>2, <2>3 DEF DeliveryTypeOK
  <2> QED BY <1>0, <1>1, <2>4 DEF TakeMessage, DeliveryTypeOK
<1>2. CASE PartitionStops(i)
  <2>1. part' \in [Instance -> Consumer]
    BY <1>0, <1>2, RecordsTyped DEF PartitionStops, DeliveryTypeOK
  <2>2. faults' \in 0 .. MaxFaults
    BY <1>0, <1>2, FaultTyped DEF PartitionStops
  <2> QED BY <1>0, <1>2, <2>1, <2>2 DEF PartitionStops, DeliveryTypeOK
<1>3. CASE RenewForMessage(i)
  <2>1. PICK s \in Sub :
          /\ CreateOrRenewStreamDeliveryLease(i, s)
          /\ part' = [part EXCEPT ![i].st = "granted", ![i].cur = s, ![i].left = TTL]
    BY <1>0, <1>3 DEF RenewForMessage
  <2>2. [part[i] EXCEPT !.st = "granted", !.cur = s, !.left = TTL] \in Consumer
    BY <1>0, <2>1 DEF Consumer
  <2>3. part' \in [Instance -> Consumer]
    BY <1>0, <2>1, <2>2 DEF DeliveryTypeOK
  <2>4. lease' \in [Sub -> LeaseRow]
    BY <1>0, <2>1, GrantTyped
  <2> QED BY <1>0, <1>3, <2>3, <2>4 DEF RenewForMessage, DeliveryTypeOK
<1>4. CASE SkipsSubscription(i)
  <2>1. part' \in [Instance -> Consumer]
    BY <1>0, <1>4, DoneTyped DEF SkipsSubscription, DeliveryTypeOK
  <2>2. faults' \in 0 .. MaxFaults
    BY <1>0, <1>4, FaultTyped DEF SkipsSubscription
  <2> QED BY <1>0, <1>4, <2>1, <2>2 DEF SkipsSubscription, DeliveryTypeOK
<1>5. CASE DropsStale(i)
  <2>1. [part[i] EXCEPT !.st = "handled"] \in Consumer
    BY <1>0 DEF Consumer
  <2>2. part' \in [Instance -> Consumer]
    BY <1>0, <1>5, <2>1 DEF DropsStale, DeliveryTypeOK
  <2> QED BY <1>0, <1>5, <2>2 DEF DropsStale, DeliveryTypeOK
<1>6. CASE DeliverLiveKlineBatch(i)
  <2>1. PICK s \in Sub : s = part[i].cur /\ Enqueue(i, s)
    BY <1>6 DEF DeliverLiveKlineBatch, SafetyInv, Backed
  <2> DEFINE f == [by |-> i, msg |-> part[i].pos, seq |-> NextSequence(i, s)]
  <2>2. window' \in [Instance -> Window] /\ NextSequence(i, s) \in Nat \ {0}
    BY <1>0, <2>1, EnqueueTyped
  <2>3. f \in Frame
    BY <1>0, <2>2 DEF Frame
  <2>4. flight' = [flight EXCEPT ![s] = Append(flight[s], f)]
    BY <1>6, <2>1 DEF DeliverLiveKlineBatch
  <2> HIDE DEF f
  <2>5. flight' \in [Sub -> Seq(Frame)]
    BY <1>0, <2>3, <2>4 DEF DeliveryTypeOK
  <2>6. [part[i] EXCEPT !.st = "handled"] \in Consumer
    BY <1>0 DEF Consumer
  <2>7. part' \in [Instance -> Consumer]
    BY <1>0, <1>6, <2>6 DEF DeliverLiveKlineBatch, DeliveryTypeOK
  <2> QED BY <1>0, <1>6, <2>2, <2>5, <2>7 DEF DeliverLiveKlineBatch, DeliveryTypeOK
<1>7. CASE DeliveryFails(i)
  <2>1. PICK s \in Sub : s = part[i].cur /\ Enqueue(i, s)
    BY <1>7 DEF DeliveryFails, SafetyInv, Backed
  <2>2. window' \in [Instance -> Window]
    BY <1>0, <2>1, EnqueueTyped
  <2>3. part' \in [Instance -> Consumer]
    BY <1>0, <1>7, DoneTyped DEF DeliveryFails, DeliveryTypeOK
  <2>4. faults' \in 0 .. MaxFaults
    BY <1>0, <1>7, FaultTyped DEF DeliveryFails
  <2> QED BY <1>0, <1>7, <2>2, <2>3, <2>4 DEF DeliveryFails, DeliveryTypeOK
<1>8. CASE Backpressured(i)
  <2>1. part' \in [Instance -> Consumer]
    BY <1>0, <1>8, DoneTyped DEF Backpressured, DeliveryTypeOK
  <2> QED BY <1>0, <1>8, <2>1 DEF Backpressured, DeliveryTypeOK
<1>9. CASE RecordsProgress(i)
  <2>1. PICK s \in Sub : s = part[i].cur
    BY <1>9 DEF RecordsProgress, SafetyInv, Backed
  <2>2. part' \in [Instance -> Consumer]
    BY <1>0, <1>9, DoneTyped DEF RecordsProgress, DeliveryTypeOK
  <2>3. faults' \in 0 .. MaxFaults
    BY <1>0, <1>9, FaultTyped DEF RecordsProgress
  <2>4. [lease[s] EXCEPT !.offset = part[i].pos] \in LeaseRow
    <3>1. lease[s] \in LeaseRow
      BY <1>0 DEF DeliveryTypeOK
    <3>2. part[i].pos \in Offset
      BY <1>0 DEF DeliveryTypeOK, Consumer
    <3> QED BY <3>1, <3>2 DEF LeaseRow
  <2>5. lease' \in [Sub -> LeaseRow]
    BY <1>0, <1>9, <2>1, <2>4 DEF RecordsProgress, RecordStreamDeliveryProgress, DeliveryTypeOK
  <2> QED BY <1>0, <1>9, <2>2, <2>3, <2>5 DEF RecordsProgress, DeliveryTypeOK
<1> QED BY <1>1, <1>2, <1>3, <1>4, <1>5, <1>6, <1>7, <1>8, <1>9 DEF Delivers

\* The stream, the other users of the window, and the process itself.
LEMMA StreamActionsTyped ==
  ASSUME DeliveryTypeOK,
         \/ \E s \in Sub : \/ HandleRuntimeDataAck(s) \/ Disconnect(s)
                          \/ \E i \in Instance : Connect(i, s)
         \/ \E i \in Instance : DeliverDatasetChunk(i) \/ DatasetChunkAcked(i) \/ ProcessDies(i)
         \/ Produce
  PROVE  DeliveryTypeOK'
<1> USE DEF dbVars, procVars, envVars, streamVars
<1>1. ASSUME NEW s \in Sub, HandleRuntimeDataAck(s)
      PROVE  DeliveryTypeOK'
  <2>1. flight[s] \in Seq(Frame) /\ flight[s] # <<>>
    BY <1>1 DEF HandleRuntimeDataAck, DeliveryTypeOK
  <2>2. Head(flight[s]) \in Frame /\ Tail(flight[s]) \in Seq(Frame)
    BY <2>1
  <2>3. PICK j \in Instance : j = Head(flight[s]).by
    BY <2>2 DEF Frame
  <2>4. window' \in [Instance -> Window]
    BY <1>1, <2>3, AckTyped DEF HandleRuntimeDataAck
  <2>5. flight' \in [Sub -> Seq(Frame)]
    BY <1>1, <2>2 DEF HandleRuntimeDataAck, DeliveryTypeOK
  <2> QED BY <1>1, <2>4, <2>5 DEF HandleRuntimeDataAck, DeliveryTypeOK
<1>2. ASSUME NEW s \in Sub, Disconnect(s) PROVE DeliveryTypeOK'
  <2>1. <<>> \in Seq(Frame) /\ faults' \in 0 .. MaxFaults
    BY <1>2, FaultTyped DEF Disconnect
  <2>2. flight' \in [Sub -> Seq(Frame)] /\ conn' \in [Sub -> Instance \cup {None}]
    BY <1>2, <2>1 DEF Disconnect, DeliveryTypeOK
  <2> QED BY <1>2, <2>1, <2>2 DEF Disconnect, DeliveryTypeOK
<1>3. ASSUME NEW s \in Sub, NEW i \in Instance, Connect(i, s) PROVE DeliveryTypeOK'
  BY <1>3 DEF Connect, DeliveryTypeOK
<1>4. ASSUME NEW i \in Instance, DeliverDatasetChunk(i) PROVE DeliveryTypeOK'
  <2>1. window[i] \in Window /\ <<None, 1>> \in (Sub \cup {None}) \X (Nat \ {0})
    BY <1>4 DEF DeliveryTypeOK
  <2>2. [window[i] EXCEPT !.unacked = @ \cup {<<None, 1>>}] \in Window
    BY <2>1 DEF Window
  <2>3. window' \in [Instance -> Window]
    BY <1>4, <2>2 DEF DeliverDatasetChunk, DeliveryTypeOK
  <2>4. faults' \in 0 .. MaxFaults
    BY <1>4, FaultTyped DEF DeliverDatasetChunk
  <2> QED BY <1>4, <2>3, <2>4 DEF DeliverDatasetChunk, DeliveryTypeOK
<1>5. ASSUME NEW i \in Instance, DatasetChunkAcked(i) PROVE DeliveryTypeOK'
  <2>1. window' \in [Instance -> Window]
    BY <1>5, AckTyped DEF DatasetChunkAcked
  <2> QED BY <1>5, <2>1 DEF DatasetChunkAcked, DeliveryTypeOK
<1>6. ASSUME NEW i \in Instance, ProcessDies(i) PROVE DeliveryTypeOK'
  <2>1. worker' \in [Instance -> Loop] /\ part' \in [Instance -> Consumer]
    BY <1>6, RecordsTyped DEF ProcessDies, DeliveryTypeOK
  <2>2. window' \in [Instance -> Window] /\ routes' \in [Instance -> SUBSET Sub]
    BY <1>6, RecordsTyped DEF ProcessDies, DeliveryTypeOK
  <2>3. faults' \in 0 .. MaxFaults
    BY <1>6, FaultTyped DEF ProcessDies
  <2>4. conn' \in [Sub -> Instance \cup {None}]
    BY <1>6 DEF ProcessDies, DeliveryTypeOK
  <2>5. <<>> \in Seq(Frame)
    OBVIOUS
  <2>6. flight' \in [Sub -> Seq(Frame)]
    BY <1>6, <2>5 DEF ProcessDies, DeliveryTypeOK
  <2> QED BY <1>6, <2>1, <2>2, <2>3, <2>4, <2>6 DEF ProcessDies, DeliveryTypeOK
<1>7. ASSUME Produce PROVE DeliveryTypeOK'
  <2>1. produced' \in Offset
    BY <1>7, DeliveryAssumption DEF Produce, DeliveryTypeOK, Offset
  <2> QED BY <1>7, <2>1 DEF Produce, DeliveryTypeOK
<1> QED BY <1>1, <1>2, <1>3, <1>4, <1>5, <1>6, <1>7

LEMMA StepTyped ==
  ASSUME SafetyInv, [Next]_vars
  PROVE  DeliveryTypeOK'
<1>0. DeliveryTypeOK
  BY DEF SafetyInv
<1>1. CASE Next
  BY <1>0, <1>1, SubscriptionActionsTyped, LeaseActionsTyped, LoopActionsTyped,
     ConsumerActionsTyped, StreamActionsTyped DEF Next
<1>2. CASE UNCHANGED vars
  BY <1>0, <1>2 DEF DeliveryTypeOK, vars, dbVars, procVars, envVars, streamVars
<1> QED BY <1>1, <1>2

\* Nothing but the consumer itself, time and the leases disturbs Backed.
LEMMA UndisturbedBacked ==
  ASSUME NEW j \in Instance, Backed(j), part'[j] = part[j],
         \A s \in Sub : /\ lease'[s].owner = lease[s].owner
                       /\ lease'[s].left = lease[s].left
  PROVE  Backed(j)'
  BY DEF Backed

\* A consumer that is done with a subscription, or is replaced, claims nothing.
LEMMA IdleBacked ==
  ASSUME NEW j \in Instance, part'[j].left = 0,
         part'[j].st \notin {"granted", "handled"}
  PROVE  Backed(j)'
  BY DEF Backed

\* A grant to i leaves what every consumer claims backed.
LEMMA GrantBacked ==
  ASSUME SafetyInv, NEW i \in Instance, NEW s \in Sub,
         CreateOrRenewStreamDeliveryLease(i, s),
         NEW j \in Instance, part'[j] = part[j]
  PROVE  Backed(j)'
<1>1. /\ Backed(j) /\ part[j] \in Consumer /\ part[j].left \in Left
      /\ lease[s] \in LeaseRow /\ lease[s].left \in Left
  BY DEF SafetyInv, DeliveryTypeOK, Consumer, LeaseRow
<1>2. /\ lease'[s].owner = i /\ lease'[s].left = TTL
      /\ \A r \in Sub \ {s} : lease'[r] = lease[r]
  BY GrantTyped DEF SafetyInv
<1>3. CASE part[j].left > 0 /\ part[j].cur = s
  <2>1. lease[s].owner = j /\ part[j].left <= lease[s].left
    BY <1>1, <1>3 DEF Backed
  <2>2. lease[s].left # 0
    BY <1>1, <1>3, <2>1, DeliveryAssumption DEF Left
  <2>3. j # None
    BY DeliveryAssumption
  <2>4. i = j
    BY <2>1, <2>2, <2>3 DEF CreateOrRenewStreamDeliveryLease, Grants
  <2>5. part[j].left <= TTL
    BY <1>1, DeliveryAssumption DEF Left
  <2> QED BY <1>1, <1>2, <1>3, <2>4, <2>5 DEF Backed
<1>4. CASE ~(part[j].left > 0 /\ part[j].cur = s)
  BY <1>1, <1>2, <1>4 DEF Backed
<1> QED BY <1>3, <1>4

LEMMA LeaseActionsBacked ==
  ASSUME SafetyInv, NEW j \in Instance,
         \/ Tick
         \/ \E i \in Instance, s \in Sub : ReleaseStreamDeliveryLease(i, s)
  PROVE  Backed(j)'
<1>1. /\ Backed(j) /\ part[j] \in Consumer /\ part[j].left \in Left
      /\ part \in [Instance -> Consumer] /\ lease \in [Sub -> LeaseRow]
  BY DEF SafetyInv, DeliveryTypeOK, Consumer
<1>2. CASE Tick
  <2>1. /\ part'[j] = [part[j] EXCEPT !.left = IF @ = 0 THEN 0 ELSE @ - 1]
        /\ \A s \in Sub : lease'[s] = [lease[s] EXCEPT !.left = IF @ = 0 THEN 0 ELSE @ - 1]
    BY <1>2 DEF Tick
  <2>2. /\ part'[j].st = part[j].st /\ part'[j].cur = part[j].cur
        /\ part'[j].left = IF part[j].left = 0 THEN 0 ELSE part[j].left - 1
    BY <1>1, <2>1 DEF Consumer
  <2>3. \A s \in Sub :
          /\ lease'[s].owner = lease[s].owner
          /\ lease'[s].left = IF lease[s].left = 0 THEN 0 ELSE lease[s].left - 1
          /\ lease[s].left \in Left
    <3> SUFFICES ASSUME NEW s \in Sub
                 PROVE  /\ lease'[s].owner = lease[s].owner
                        /\ lease'[s].left = IF lease[s].left = 0 THEN 0 ELSE lease[s].left - 1
                        /\ lease[s].left \in Left
      OBVIOUS
    <3>1. lease[s] \in LeaseRow
      BY <1>1
    <3>2. lease'[s] = [lease[s] EXCEPT !.left = IF lease[s].left = 0 THEN 0 ELSE lease[s].left - 1]
      BY <2>1
    <3> QED BY <3>1, <3>2 DEF LeaseRow
  <2> QED BY <1>1, <2>2, <2>3, DeliveryAssumption DEF Backed, Left
<1>3. ASSUME NEW i \in Instance, NEW s \in Sub, ReleaseStreamDeliveryLease(i, s)
      PROVE  Backed(j)'
  <2>1. /\ lease[s].owner = i
        /\ lease' = [lease EXCEPT ![s] = NoLease]
        /\ part' = [part EXCEPT ![i].left = IF part[i].cur = s THEN 0 ELSE @]
    BY <1>3 DEF ReleaseStreamDeliveryLease, EndsStreamDeliveryLease
  <2>2. \A r \in Sub \ {s} : lease'[r] = lease[r]
    BY <1>1, <2>1
  <2>3. CASE j = i
    <3>1. part'[i] = [part[i] EXCEPT !.left = IF part[i].cur = s THEN 0 ELSE part[i].left]
      BY <1>1, <2>1
    <3>2. /\ part'[i].st = part[i].st /\ part'[i].cur = part[i].cur
          /\ part'[i].left = IF part[i].cur = s THEN 0 ELSE part[i].left
      BY <1>1, <2>3, <3>1 DEF Consumer
    <3> QED BY <1>1, <2>2, <2>3, <3>2 DEF Backed
  <2>4. CASE j # i
    <3>1. part'[j] = part[j]
      BY <1>1, <2>1, <2>4
    <3>2. ~(part[j].left > 0 /\ part[j].cur = s)
      BY <1>1, <2>1, <2>4 DEF Backed
    <3> QED BY <1>1, <2>2, <3>1, <3>2 DEF Backed
  <2> QED BY <2>3, <2>4
<1> QED BY <1>2, <1>3

LEMMA LoopActionsBacked ==
  ASSUME SafetyInv, NEW i \in Instance, NEW j \in Instance,
         Refreshes(i) \/ RefreshFails(i) \/ TopicConsumerFails(i)
  PROVE  Backed(j)'
<1> USE DEF dbVars, envVars, streamVars
<1>0. Backed(j) /\ part \in [Instance -> Consumer] /\ worker[i] \in Loop
  BY DEF SafetyInv, DeliveryTypeOK
<1>1. CASE ListSubscriptions(i)
  BY <1>0, <1>1, UndisturbedBacked DEF ListSubscriptions
<1>2. CASE RenewNext(i)
  <2>1. PICK s \in worker[i].todo :
          CreateOrRenewStreamDeliveryLease(i, s) \/ UNCHANGED lease
    BY <1>2 DEF RenewNext
  <2>2. s \in Sub /\ part' = part
    BY <1>0, <1>2, <2>1 DEF RenewNext, Loop
  <2> QED BY <1>0, <2>1, <2>2, GrantBacked, UndisturbedBacked
<1>3. CASE EnsureTopicConsumers(i)
  <2>1. part' = part \/ part' = [part EXCEPT ![i] = [NoConsumer EXCEPT !.st = "idle", !.pos = produced]]
    BY <1>3 DEF EnsureTopicConsumers, StartTopicConsumer
  <2>2. lease' = lease
    BY <1>3 DEF EnsureTopicConsumers
  <2>3. CASE part'[j] = part[j]
    BY <1>0, <2>2, <2>3, UndisturbedBacked
  <2>4. CASE part'[j] = [NoConsumer EXCEPT !.st = "idle", !.pos = produced]
    BY <2>4, IdleBacked DEF NoConsumer
  <2> QED BY <1>0, <2>1, <2>3, <2>4
<1>4. CASE RefreshFails(i) \/ TopicConsumerFails(i)
  BY <1>0, <1>4, UndisturbedBacked DEF RefreshFails, TopicConsumerFails
<1> QED BY <1>1, <1>2, <1>3, <1>4 DEF Refreshes

LEMMA ConsumerActionsBacked ==
  ASSUME SafetyInv, NEW i \in Instance, NEW j \in Instance,
         TakeMessage(i) \/ PartitionStops(i) \/ Delivers(i)
  PROVE  Backed(j)'
<1> USE DEF dbVars, envVars, streamVars
<1>0. /\ Backed(i) /\ Backed(j) /\ DeliveryTypeOK
      /\ part \in [Instance -> Consumer] /\ part[i] \in Consumer
      /\ lease \in [Sub -> LeaseRow] /\ part[i].todo \in SUBSET Sub
  BY DEF SafetyInv, DeliveryTypeOK, Consumer
<1>1. CASE TakeMessage(i) \/ PartitionStops(i) \/ SkipsSubscription(i) \/ DropsStale(i)
           \/ DeliverLiveKlineBatch(i) \/ DeliveryFails(i) \/ Backpressured(i)
           \/ RecordsProgress(i)
  <2>1. \A s \in Sub : /\ lease'[s].owner = lease[s].owner
                       /\ lease'[s].left = lease[s].left
    <3>1. CASE RecordsProgress(i)
      BY <1>0, <3>1 DEF RecordsProgress, RecordStreamDeliveryProgress, LeaseRow
    <3>2. CASE ~RecordsProgress(i)
      BY <1>1, <3>2 DEF TakeMessage, PartitionStops, SkipsSubscription, DropsStale,
             DeliverLiveKlineBatch, DeliveryFails, Backpressured
    <3> QED BY <3>1, <3>2
  <2>2. CASE j # i
    <3>1. part'[j] = part[j]
      BY <1>0, <1>1, <2>2 DEF TakeMessage, PartitionStops, SkipsSubscription, DropsStale,
             DeliverLiveKlineBatch, DeliveryFails, Backpressured, RecordsProgress
    <3> QED BY <1>0, <2>1, <3>1, UndisturbedBacked
  <2>3. CASE j = i /\ (TakeMessage(i) \/ DropsStale(i) \/ DeliverLiveKlineBatch(i))
    <3>1. part'[i].cur = part[i].cur /\ part'[i].left = part[i].left
      BY <1>0, <2>3 DEF TakeMessage, DropsStale, DeliverLiveKlineBatch, Consumer
    <3>2. part'[i].st \in {"granted", "handled"} => part[i].st = "granted"
      BY <1>0, <2>3 DEF TakeMessage, DropsStale, DeliverLiveKlineBatch, Consumer
    <3> QED BY <1>0, <2>1, <2>3, <3>1, <3>2 DEF Backed
  <2>4. CASE j = i /\ PartitionStops(i)
    <3>1. part'[i] = NoConsumer
      BY <1>0, <2>4 DEF PartitionStops
    <3> QED BY <2>4, <3>1, IdleBacked DEF NoConsumer
  <2>5. CASE j = i /\ (SkipsSubscription(i) \/ DeliveryFails(i) \/ Backpressured(i)
                        \/ RecordsProgress(i))
    <3>1. PICK s \in Sub \cup {None} : part' = [part EXCEPT ![i] = Done(i, s)]
      BY <1>0, <2>5 DEF SkipsSubscription, DeliveryFails, Backpressured, RecordsProgress, Consumer
    <3>2. part'[i] = Done(i, s)
      BY <1>0, <3>1
    <3>3. part'[i].left = 0 /\ part'[i].st \in {"idle", "busy"}
      BY <1>0, <3>2, DoneTyped
    <3> QED BY <2>5, <3>3, IdleBacked
  <2> QED BY <1>1, <2>2, <2>3, <2>4, <2>5
<1>2. CASE RenewForMessage(i)
  <2>1. PICK s \in Sub :
          /\ CreateOrRenewStreamDeliveryLease(i, s)
          /\ part' = [part EXCEPT ![i].st = "granted", ![i].cur = s, ![i].left = TTL]
    BY <1>0, <1>2 DEF RenewForMessage
  <2>2. CASE j # i
    BY <1>0, <2>1, <2>2, GrantBacked
  <2>3. CASE j = i
    <3>1. part'[i] = [part[i] EXCEPT !.st = "granted", !.cur = s, !.left = TTL]
      BY <1>0, <2>1
    <3>2. part'[i].cur = s /\ part'[i].left = TTL
      BY <1>0, <3>1 DEF Consumer
    <3>3. lease'[s].owner = i /\ lease'[s].left = TTL
      BY <1>0, <2>1, GrantTyped
    <3> QED BY <2>3, <3>2, <3>3, DeliveryAssumption DEF Backed
  <2> QED BY <2>2, <2>3
<1> QED BY <1>1, <1>2 DEF Delivers

LEMMA StepBacked ==
  ASSUME SafetyInv, [Next]_vars, NEW j \in Instance
  PROVE  Backed(j)'
<1> USE DEF dbVars, procVars, envVars, streamVars
<1>0. Backed(j) /\ part \in [Instance -> Consumer]
  BY DEF SafetyInv, DeliveryTypeOK
<1>1. CASE \/ \E s \in Sub : \/ CreateSessionMarketDataSubscriptions(s)
                            \/ ReleaseSessionMarketDataSubscriptions(s)
                            \/ RuntimeStatusChanges(s)
                            \/ HandleRuntimeDataAck(s) \/ Disconnect(s)
                            \/ \E i \in Instance : Connect(i, s)
           \/ \E i \in Instance : DeliverDatasetChunk(i) \/ DatasetChunkAcked(i)
           \/ Produce
           \/ UNCHANGED vars
  <2>1. part' = part /\ lease' = lease
    BY <1>1 DEF CreateSessionMarketDataSubscriptions, ReleaseSessionMarketDataSubscriptions,
           RuntimeStatusChanges, HandleRuntimeDataAck, Disconnect, Connect,
           DeliverDatasetChunk, DatasetChunkAcked, Produce, vars
  <2> QED BY <1>0, <2>1, UndisturbedBacked
<1>2. ASSUME NEW i \in Instance, ProcessDies(i) PROVE Backed(j)'
  <2>1. lease' = lease /\ part'[i] = NoConsumer /\ (j # i => part'[j] = part[j])
    BY <1>0, <1>2 DEF ProcessDies
  <2>2. CASE j = i
    BY <2>1, <2>2, IdleBacked DEF NoConsumer
  <2> QED BY <1>0, <2>1, <2>2, UndisturbedBacked
<1>3. CASE Next
  BY <1>1, <1>2, <1>3, LeaseActionsBacked, LoopActionsBacked, ConsumerActionsBacked DEF Next
<1> QED BY <1>1, <1>3

LEMMA SafetyInvInductive == Safety => []SafetyInv
<1>1. Init => SafetyInv
  <2> SUFFICES ASSUME Init PROVE SafetyInv
    OBVIOUS
  <2>1. \A i \in Instance : Backed(i)
    BY DEF Init, Backed, NoConsumer
  <2> QED BY <2>1, InitTyped DEF SafetyInv
<1>2. SafetyInv /\ [Next]_vars => SafetyInv'
  <2> SUFFICES ASSUME SafetyInv, [Next]_vars PROVE SafetyInv'
    OBVIOUS
  <2>1. DeliveryTypeOK'
    BY StepTyped
  <2>2. \A i \in Instance : Backed(i)'
    BY StepBacked
  <2> QED BY <2>1, <2>2 DEF SafetyInv
<1> QED BY <1>1, <1>2, PTL DEF Safety

\* Every variable keeps its type, for any number of processes,
\* subscriptions, messages and faults and any length of a lease.
THEOREM DeliveryTyped == Safety => []DeliveryTypeOK
<1>1. SafetyInv => DeliveryTypeOK
  BY DEF SafetyInv
<1> QED BY <1>1, SafetyInvInductive, PTL

\* Of all processes at most one is between its renewal and the end of the
\* message for a subscription with a lease that has not expired
\* (handleKlineMessage, CreateOrRenewStreamDeliveryLease).
THEOREM OnlyOneValidSender == Safety => []OneValidSender
<1>1. SafetyInv => OneValidSender
  <2> SUFFICES ASSUME SafetyInv, NEW i \in Instance, NEW j \in Instance,
                      part[i].left > 0, part[j].left > 0, part[i].cur = part[j].cur
               PROVE  i = j
    BY DEF OneValidSender
  <2>1. lease[part[i].cur].owner = i /\ lease[part[j].cur].owner = j
    BY DEF SafetyInv, Backed
  <2> QED BY <2>1
<1> QED BY <1>1, SafetyInvInductive, PTL

-----------------------------------------------------------------------------
(* The order on a stream *)

\* What a consumer has in hand.
Work(i) ==
  /\ part[i].pos <= produced
  /\ part[i].st \in {"none", "idle"} => part[i].todo = {}
  /\ part[i].st \in {"granted", "handled"} => part[i].cur \in part[i].todo

\* A message m that was sent to s by process i: what i sends to s next is later.
MessageFits(i, s, m) ==
  /\ part[i].st # "none" => m <= part[i].pos
  /\ s \in part[i].todo /\ ~(part[i].st = "handled" /\ part[i].cur = s) => m < part[i].pos

\* A number n that was given out by process i for s and is not acknowledged.
NumberFits(i, s, n) == n <= window[i].seq[s] /\ <<s, n>> \in window[i].unacked

FrameFits(s, f) ==
  /\ f.by = conn[s]
  /\ f.msg <= produced
  /\ MessageFits(f.by, s, f.msg)
  /\ NumberFits(f.by, s, f.seq)

Growing(q) ==
  \A k, l \in DOMAIN q : k < l => q[k].msg < q[l].msg /\ q[k].seq < q[l].seq

StreamFits(s) ==
  /\ Growing(flight[s])
  /\ \A k \in DOMAIN flight[s] : FrameFits(s, flight[s][k])

WindowFits(i) ==
  IsFiniteSet(window[i].unacked) /\ Cardinality(window[i].unacked) <= Capacity

OrderInv ==
  /\ SafetyInv
  /\ \A i \in Instance : Work(i) /\ WindowFits(i)
  /\ \A s \in Sub : StreamFits(s)

\* The steps of process j's consumer, as changes of its record.
ConsumerStep(j) ==
  \/ UNCHANGED part
  \/ \E d \in Left : part' = [part EXCEPT ![j].left = d]
  \/ part' = [part EXCEPT ![j] = NoConsumer]
  \/ /\ part[j].st = "none"
     /\ part' = [part EXCEPT ![j] = [NoConsumer EXCEPT !.st = "idle", !.pos = produced]]
  \/ /\ part[j].st = "idle" /\ part[j].pos + 1 <= produced
     /\ part' = [part EXCEPT ![j].pos = part[j].pos + 1, ![j].todo = routes[j],
                             ![j].st = IF routes[j] = {} THEN "idle" ELSE "busy"]
  \/ /\ part[j].st = "busy"
     /\ \E s \in part[j].todo :
          \/ part' = [part EXCEPT ![j].st = "granted", ![j].cur = s, ![j].left = TTL]
          \/ part' = [part EXCEPT ![j] = Done(j, s)]
  \/ part[j].st = "granted" /\ part' = [part EXCEPT ![j].st = "handled"]
  \/ /\ part[j].st \in {"granted", "handled"}
     /\ part' = [part EXCEPT ![j] = Done(j, part[j].cur)]

LEMMA EveryConsumerStep ==
  ASSUME DeliveryTypeOK, [Next]_vars, ~Tick
  PROVE  \/ UNCHANGED part
         \/ \E j \in Instance : ConsumerStep(j)
<1> USE DEF dbVars, procVars, envVars, streamVars
<1>1. CASE \/ \E s \in Sub : \/ CreateSessionMarketDataSubscriptions(s)
                            \/ ReleaseSessionMarketDataSubscriptions(s)
                            \/ RuntimeStatusChanges(s)
                            \/ HandleRuntimeDataAck(s) \/ Disconnect(s)
                            \/ \E i \in Instance : Connect(i, s)
           \/ \E i \in Instance : DeliverDatasetChunk(i) \/ DatasetChunkAcked(i)
           \/ Produce
           \/ UNCHANGED vars
  BY <1>1 DEF CreateSessionMarketDataSubscriptions, ReleaseSessionMarketDataSubscriptions,
         RuntimeStatusChanges, HandleRuntimeDataAck, Disconnect, Connect,
         DeliverDatasetChunk, DatasetChunkAcked, Produce, vars
<1>2. ASSUME NEW j \in Instance, NEW s \in Sub, ReleaseStreamDeliveryLease(j, s)
      PROVE  ConsumerStep(j)
  <2>1. part' = [part EXCEPT ![j].left = IF part[j].cur = s THEN 0 ELSE part[j].left]
    BY <1>2 DEF ReleaseStreamDeliveryLease
  <2>2. (IF part[j].cur = s THEN 0 ELSE part[j].left) \in Left
    BY DeliveryAssumption DEF DeliveryTypeOK, Consumer, Left
  <2> QED BY <2>1, <2>2 DEF ConsumerStep
<1>3. ASSUME NEW j \in Instance, Refreshes(j) \/ RefreshFails(j) \/ TopicConsumerFails(j)
      PROVE  ConsumerStep(j)
  BY <1>3 DEF ConsumerStep, Refreshes, ListSubscriptions, RenewNext, EnsureTopicConsumers,
         StartTopicConsumer, RefreshFails, TopicConsumerFails
<1>4. ASSUME NEW j \in Instance, TakeMessage(j) PROVE ConsumerStep(j)
  BY <1>4 DEF ConsumerStep, TakeMessage
<1>5. ASSUME NEW j \in Instance, PartitionStops(j) \/ ProcessDies(j) PROVE ConsumerStep(j)
  BY <1>5 DEF ConsumerStep, PartitionStops, ProcessDies
<1>6. ASSUME NEW j \in Instance, Delivers(j) PROVE ConsumerStep(j)
  BY <1>6 DEF ConsumerStep, Delivers, RenewForMessage, SkipsSubscription, DropsStale,
         DeliverLiveKlineBatch, DeliveryFails, Backpressured, RecordsProgress
<1> QED BY <1>1, <1>2, <1>3, <1>4, <1>5, <1>6 DEF Next

\* Whatever a consumer does next, it stays within what was produced, and
\* a message it sent stays behind what it sends next.
LEMMA ConsumerFits ==
  ASSUME DeliveryTypeOK, DeliveryTypeOK', [Next]_vars, NEW i \in Instance, Work(i),
         produced <= produced'
  PROVE  /\ Work(i)'
         /\ \A s \in Sub, m \in Offset :
              m <= produced /\ MessageFits(i, s, m) => MessageFits(i, s, m)'
<1>0. /\ part \in [Instance -> Consumer] /\ part' \in [Instance -> Consumer]
      /\ part[i] \in Consumer /\ part'[i] \in Consumer
      /\ produced \in Nat /\ produced' \in Nat /\ part[i].pos \in Nat /\ part'[i].pos \in Nat
      /\ Offset \subseteq Nat /\ part[i].todo \in SUBSET Sub
  BY DeliveryAssumption DEF DeliveryTypeOK, Consumer, Offset
<1> DEFINE Same == /\ part'[i].st = part[i].st /\ part'[i].pos = part[i].pos
                   /\ part'[i].todo = part[i].todo /\ part'[i].cur = part[i].cur
<1>1. CASE Same
  BY <1>0, <1>1 DEF Work, MessageFits
<1>2. CASE Tick
  <2>1. part'[i] = [part[i] EXCEPT !.left = IF part[i].left = 0 THEN 0 ELSE part[i].left - 1]
    BY <1>2 DEF Tick
  <2>2. Same
    BY <1>0, <2>1 DEF Consumer
  <2> QED BY <1>1, <2>2
<1>3. ASSUME NEW j \in Instance, ConsumerStep(j), ~Same
      PROVE  /\ Work(i)'
             /\ \A s \in Sub, m \in Offset :
                  m <= produced /\ MessageFits(i, s, m) => MessageFits(i, s, m)'
  <2>1. j = i
    BY <1>0, <1>3 DEF ConsumerStep
  <2>2. CASE \E d \in Left : part' = [part EXCEPT ![j].left = d]
    BY <1>0, <1>3, <2>1, <2>2 DEF Consumer
  <2>3. CASE part' = [part EXCEPT ![j] = NoConsumer]
    BY <1>0, <2>1, <2>3 DEF Work, MessageFits, NoConsumer
  <2>4. CASE /\ part[j].st = "none"
             /\ part' = [part EXCEPT ![j] = [NoConsumer EXCEPT !.st = "idle", !.pos = produced]]
    BY <1>0, <2>1, <2>4 DEF Work, MessageFits, NoConsumer
  <2>5. CASE /\ part[j].st = "idle" /\ part[j].pos + 1 <= produced
             /\ part' = [part EXCEPT ![j].pos = part[j].pos + 1, ![j].todo = routes[j],
                                     ![j].st = IF routes[j] = {} THEN "idle" ELSE "busy"]
    <3>1. /\ part'[i].pos = part[i].pos + 1 /\ part'[i].todo = routes[i]
          /\ part'[i].st = IF routes[i] = {} THEN "idle" ELSE "busy"
      BY <1>0, <2>1, <2>5 DEF Consumer
    <3> QED BY <1>0, <2>1, <2>5, <3>1 DEF Work, MessageFits
  <2>6. ASSUME part[j].st = "busy", NEW s \in part[j].todo,
               part' = [part EXCEPT ![j].st = "granted", ![j].cur = s, ![j].left = TTL]
        PROVE  /\ Work(i)'
               /\ \A r \in Sub, m \in Offset :
                    m <= produced /\ MessageFits(i, r, m) => MessageFits(i, r, m)'
    <3>1. /\ part'[i].pos = part[i].pos /\ part'[i].todo = part[i].todo
          /\ part'[i].st = "granted" /\ part'[i].cur = s
      BY <1>0, <2>1, <2>6 DEF Consumer
    <3> QED BY <1>0, <2>1, <2>6, <3>1 DEF Work, MessageFits
  <2>7. CASE part[j].st = "granted" /\ part' = [part EXCEPT ![j].st = "handled"]
    <3>1. /\ part'[i].pos = part[i].pos /\ part'[i].todo = part[i].todo
          /\ part'[i].st = "handled" /\ part'[i].cur = part[i].cur
      BY <1>0, <2>1, <2>7 DEF Consumer
    <3> QED BY <1>0, <2>1, <2>7, <3>1 DEF Work, MessageFits
  <2>8. ASSUME NEW s \in part[j].todo, part[j].st \in {"busy", "granted", "handled"},
               part[j].st \in {"granted", "handled"} => s = part[j].cur,
               part' = [part EXCEPT ![j] = Done(j, s)]
        PROVE  /\ Work(i)'
               /\ \A r \in Sub, m \in Offset :
                    m <= produced /\ MessageFits(i, r, m) => MessageFits(i, r, m)'
    <3>1. part'[i] = Done(i, s)
      BY <1>0, <2>1, <2>8
    <3>2. /\ part'[i].pos = part[i].pos /\ part'[i].todo = part[i].todo \ {s}
          /\ part'[i].st = IF part[i].todo = {s} THEN "idle" ELSE "busy"
      BY <1>0, <3>1 DEF Done, Consumer
    <3> QED BY <1>0, <2>1, <2>8, <3>2 DEF Work, MessageFits
  <2>9. CASE /\ part[j].st \in {"granted", "handled"}
             /\ part' = [part EXCEPT ![j] = Done(j, part[j].cur)]
    <3>1. part[j].cur \in part[j].todo
      BY <2>1, <2>9 DEF Work
    <3> QED BY <2>8, <2>9, <3>1
  <2>10. CASE UNCHANGED part
    BY <1>3, <2>10
  <2>11. CASE /\ part[j].st = "busy"
              /\ \E s \in part[j].todo :
                   \/ part' = [part EXCEPT ![j].st = "granted", ![j].cur = s, ![j].left = TTL]
                   \/ part' = [part EXCEPT ![j] = Done(j, s)]
    <3>1. PICK s \in part[j].todo :
            \/ part' = [part EXCEPT ![j].st = "granted", ![j].cur = s, ![j].left = TTL]
            \/ part' = [part EXCEPT ![j] = Done(j, s)]
      BY <2>11
    <3>2. CASE part' = [part EXCEPT ![j].st = "granted", ![j].cur = s, ![j].left = TTL]
      BY <2>6, <2>11, <3>2
    <3>3. CASE part' = [part EXCEPT ![j] = Done(j, s)]
      BY <2>8, <2>11, <3>3
    <3> QED BY <3>1, <3>2, <3>3
  <2> QED BY <1>3, <2>2, <2>3, <2>4, <2>5, <2>7, <2>9, <2>10, <2>11 DEF ConsumerStep
<1>4. CASE UNCHANGED part
  BY <1>1, <1>4
<1> QED BY <1>1, <1>2, <1>3, <1>4, EveryConsumerStep

LEMMA ProducedGrows ==
  ASSUME DeliveryTypeOK, [Next]_vars
  PROVE  produced <= produced'
<1> USE DEF dbVars, procVars, envVars, streamVars
<1>0. produced \in Nat
  BY DeliveryAssumption DEF DeliveryTypeOK, Offset
<1>1. CASE Produce
  BY <1>0, <1>1 DEF Produce
<1>2. CASE ~Produce
  <2>1. produced' = produced
    BY <1>2 DEF Next, vars, CreateSessionMarketDataSubscriptions,
           ReleaseSessionMarketDataSubscriptions, RuntimeStatusChanges,
           HandleRuntimeDataAck, Disconnect, Connect, ReleaseStreamDeliveryLease,
           Refreshes, ListSubscriptions, RenewNext, EnsureTopicConsumers, RefreshFails,
           TopicConsumerFails, TakeMessage, PartitionStops, Delivers, RenewForMessage,
           SkipsSubscription, DropsStale, DeliverLiveKlineBatch, DeliveryFails,
           Backpressured, RecordsProgress, DeliverDatasetChunk, DatasetChunkAcked,
           ProcessDies, Tick
  <2> QED BY <1>0, <2>1
<1> QED BY <1>1, <1>2

\* A frame stays fit while its stream and its slot stay.
LEMMA FrameKept ==
  ASSUME OrderInv, DeliveryTypeOK', [Next]_vars,
         NEW s \in Sub, NEW f \in Frame, FrameFits(s, f),
         conn'[s] = conn[s], NumberFits(f.by, s, f.seq)'
  PROVE  FrameFits(s, f)'
<1>1. f.by \in Instance /\ f.msg \in Offset /\ Offset \subseteq Nat
  BY DeliveryAssumption DEF Frame, Offset
<1>2. DeliveryTypeOK /\ Work(f.by)
  BY <1>1 DEF OrderInv, SafetyInv
<1>3. produced <= produced'
  BY <1>2, ProducedGrows
<1>4. f.msg <= produced /\ MessageFits(f.by, s, f.msg)
  BY DEF FrameFits
<1> DEFINE j == f.by
           m == f.msg
<1>5. j \in Instance /\ m \in Offset /\ Work(j) /\ m <= produced /\ MessageFits(j, s, m)
  BY <1>1, <1>2, <1>4
<1>6. ASSUME NEW i \in Instance, NEW n \in Offset, Work(i), n <= produced, MessageFits(i, s, n)
      PROVE  MessageFits(i, s, n)'
  BY <1>2, <1>3, <1>6, ConsumerFits
<1> HIDE DEF j, m
<1>7. MessageFits(j, s, m)'
  BY <1>5, <1>6
<1>8. f.msg \in Nat /\ produced \in Nat /\ produced' \in Nat
  BY <1>1, <1>2 DEF DeliveryTypeOK
<1>9. f.msg <= produced'
  BY <1>3, <1>4, <1>8
<1> QED BY <1>7, <1>9 DEF FrameFits, j, m, MessageFits

\* A stream whose frames and whose slots stay, stays in order.
LEMMA StreamKept ==
  ASSUME OrderInv, DeliveryTypeOK', [Next]_vars, NEW s \in Sub,
         flight'[s] = flight[s], flight[s] # <<>> => conn'[s] = conn[s],
         \A k \in DOMAIN flight[s] :
            NumberFits(flight[s][k].by, s, flight[s][k].seq)
            => NumberFits(flight[s][k].by, s, flight[s][k].seq)'
  PROVE  StreamFits(s)'
<1>1. StreamFits(s) /\ flight[s] \in Seq(Frame)
  BY DEF OrderInv, SafetyInv, DeliveryTypeOK
<1>2. ASSUME NEW k \in DOMAIN flight[s]
      PROVE  FrameFits(s, flight[s][k])'
  <2>1. flight[s][k] \in Frame /\ flight[s] # <<>>
    BY <1>1, <1>2
  <2>2. PICK f \in Frame : f = flight[s][k] /\ f = flight'[s][k]
    BY <2>1
  <2>3. FrameFits(s, f) /\ conn'[s] = conn[s]
    BY <1>1, <1>2, <2>1, <2>2 DEF StreamFits
  <2>4. NumberFits(f.by, s, f.seq)'
    BY <1>2, <2>2, <2>3 DEF FrameFits, NumberFits
  <2>5. FrameFits(s, f)'
    BY <2>3, <2>4, FrameKept
  <2> QED BY <2>2, <2>5 DEF FrameFits, MessageFits, NumberFits
<1>3. Growing(flight[s])'
  BY <1>1 DEF StreamFits, Growing
<1>4. DOMAIN flight'[s] = DOMAIN flight[s]
  OBVIOUS
<1> QED BY <1>2, <1>3, <1>4 DEF StreamFits

\* One more slot is taken only where there is room; a slot may always be freed.
LEMMA SlotTaken ==
  ASSUME NEW i \in Instance, WindowFits(i), HasRoom(i), NEW e,
         window'[i].unacked = window[i].unacked \cup {e}
  PROVE  WindowFits(i)'
<1>1. /\ IsFiniteSet(window[i].unacked) /\ Cardinality(window[i].unacked) \in Nat
      /\ Cardinality(window[i].unacked) < Capacity
  BY FS_CardinalityType DEF WindowFits, HasRoom
<1>2. /\ IsFiniteSet(window[i].unacked \cup {e})
      /\ \/ Cardinality(window[i].unacked \cup {e}) = Cardinality(window[i].unacked)
         \/ Cardinality(window[i].unacked \cup {e}) = Cardinality(window[i].unacked) + 1
  BY <1>1, FS_AddElement
<1>3. Cardinality(window[i].unacked \cup {e}) <= Capacity
  BY <1>1, <1>2, DeliveryAssumption
<1> QED BY <1>2, <1>3 DEF WindowFits

LEMMA SlotFreed ==
  ASSUME NEW i \in Instance, WindowFits(i), NEW e,
         window'[i].unacked = window[i].unacked \ {e}
  PROVE  WindowFits(i)'
<1>1. /\ IsFiniteSet(window[i].unacked) /\ Cardinality(window[i].unacked) \in Nat
      /\ Cardinality(window[i].unacked) <= Capacity
  BY FS_CardinalityType DEF WindowFits
<1>2. /\ IsFiniteSet(window[i].unacked \ {e})
      /\ Cardinality(window[i].unacked \ {e}) <= Cardinality(window[i].unacked)
      /\ Cardinality(window[i].unacked \ {e}) \in Nat
  BY <1>1, FS_Subset, FS_CardinalityType
<1>3. Cardinality(window[i].unacked \ {e}) <= Capacity
  BY <1>1, <1>2, DeliveryAssumption
<1> QED BY <1>2, <1>3 DEF WindowFits

\* The actions that leave the windows and the streams alone.
Elsewhere ==
  \/ \E s \in Sub : \/ CreateSessionMarketDataSubscriptions(s)
                    \/ ReleaseSessionMarketDataSubscriptions(s)
                    \/ RuntimeStatusChanges(s)
                    \/ \E i \in Instance : ReleaseStreamDeliveryLease(i, s)
  \/ \E i \in Instance :
       \/ Refreshes(i) \/ RefreshFails(i) \/ TopicConsumerFails(i)
       \/ TakeMessage(i) \/ PartitionStops(i)
       \/ RenewForMessage(i) \/ SkipsSubscription(i) \/ DropsStale(i)
       \/ Backpressured(i) \/ RecordsProgress(i)
  \/ Produce \/ Tick
  \/ UNCHANGED vars

LEMMA ElsewhereKeeps == Elsewhere => UNCHANGED <<window, conn, flight>>
  BY DEF Elsewhere, vars, dbVars, procVars, envVars, streamVars,
     CreateSessionMarketDataSubscriptions,
     ReleaseSessionMarketDataSubscriptions, RuntimeStatusChanges, ReleaseStreamDeliveryLease,
     Refreshes, ListSubscriptions, RenewNext, EnsureTopicConsumers, RefreshFails,
     TopicConsumerFails, TakeMessage, PartitionStops, RenewForMessage,
     SkipsSubscription, DropsStale, Backpressured, RecordsProgress, Produce, Tick

LEMMA StepWindow ==
  ASSUME OrderInv, [Next]_vars, NEW j \in Instance
  PROVE  WindowFits(j)'
<1>0. DeliveryTypeOK /\ WindowFits(j) /\ \A i \in Instance : Backed(i)
  BY DEF OrderInv, SafetyInv
<1>1. CASE window'[j] = window[j]
  BY <1>0, <1>1 DEF WindowFits
<1>2. CASE Elsewhere \/ \E s \in Sub : Disconnect(s) \/ \E i \in Instance : Connect(i, s)
  BY <1>1, <1>2, ElsewhereKeeps DEF Disconnect, Connect, procVars
<1>3. ASSUME NEW i \in Instance, DeliverLiveKlineBatch(i) \/ DeliveryFails(i)
      PROVE  WindowFits(j)'
  <2>1. PICK s \in Sub : s = part[i].cur
    BY <1>0, <1>3 DEF DeliverLiveKlineBatch, DeliveryFails, Backed
  <2>2. Enqueue(i, s) /\ HasRoom(i)
    BY <1>3, <2>1 DEF DeliverLiveKlineBatch, DeliveryFails
  <2>3. /\ window'[i].unacked = window[i].unacked \cup {<<s, NextSequence(i, s)>>}
        /\ \A k \in Instance \ {i} : window'[k] = window[k]
    BY <1>0, <2>2, EnqueueTyped
  <2>4. CASE j = i
    BY <1>0, <2>2, <2>3, <2>4, SlotTaken
  <2> QED BY <1>1, <2>3, <2>4
<1>4. ASSUME NEW s \in Sub, HandleRuntimeDataAck(s) PROVE WindowFits(j)'
  <2>1. Head(flight[s]) \in Frame
    BY <1>0, <1>4 DEF HandleRuntimeDataAck, DeliveryTypeOK
  <2>2. PICK i \in Instance : i = Head(flight[s]).by
    BY <2>1 DEF Frame
  <2>3. /\ window'[i].unacked = window[i].unacked \ {<<s, Head(flight[s]).seq>>}
        /\ \A k \in Instance \ {i} : window'[k] = window[k]
    BY <1>0, <1>4, <2>2, AckTyped DEF HandleRuntimeDataAck
  <2>4. CASE j = i
    BY <1>0, <2>3, <2>4, SlotFreed
  <2> QED BY <1>1, <2>3, <2>4
<1>5. ASSUME NEW i \in Instance, DatasetChunkAcked(i) PROVE WindowFits(j)'
  <2>1. /\ window'[i].unacked = window[i].unacked \ {<<None, 1>>}
        /\ \A k \in Instance \ {i} : window'[k] = window[k]
    BY <1>0, <1>5, AckTyped DEF DatasetChunkAcked
  <2>2. CASE j = i
    BY <1>0, <2>1, <2>2, SlotFreed
  <2> QED BY <1>1, <2>1, <2>2
<1>6. ASSUME NEW i \in Instance, DeliverDatasetChunk(i) PROVE WindowFits(j)'
  <2>1. /\ window'[i].unacked = window[i].unacked \cup {<<None, 1>>}
        /\ \A k \in Instance \ {i} : window'[k] = window[k]
        /\ HasRoom(i)
    BY <1>0, <1>6 DEF DeliverDatasetChunk, DeliveryTypeOK, Window
  <2>2. CASE j = i
    BY <1>0, <2>1, <2>2, SlotTaken
  <2> QED BY <1>1, <2>1, <2>2
<1>7. ASSUME NEW i \in Instance, ProcessDies(i) PROVE WindowFits(j)'
  <2>1. window'[j] = window[j] \/ window'[j].unacked = {}
    BY <1>0, <1>7 DEF ProcessDies, DeliveryTypeOK, EmptyWindow
  <2>2. CASE window'[j].unacked = {}
    BY <2>2, FS_EmptySet, DeliveryAssumption DEF WindowFits
  <2> QED BY <1>1, <2>1, <2>2
<1> QED BY <1>2, <1>3, <1>4, <1>5, <1>6, <1>7 DEF Next, Delivers, Elsewhere

\* Numbers only grow, and a slot stays, when another frame is enqueued.
LEMMA EnqueueKeepsNumbers ==
  ASSUME DeliveryTypeOK, NEW i \in Instance, NEW r \in Sub, Enqueue(i, r),
         NEW j \in Instance, NEW s \in Sub, NEW n \in Nat, NumberFits(j, s, n)
  PROVE  NumberFits(j, s, n)'
<1>1. /\ window'[i].seq = [window[i].seq EXCEPT ![r] = NextSequence(i, r)]
      /\ window'[i].unacked = window[i].unacked \cup {<<r, NextSequence(i, r)>>}
      /\ NextSequence(i, r) = window[i].seq[r] + 1
      /\ \A k \in Instance \ {i} : window'[k] = window[k]
  BY EnqueueTyped
<1>2. window[i].seq \in [Sub -> Nat]
  BY DEF DeliveryTypeOK, Window
<1>3. window[i].seq[s] \in Nat /\ window'[i].seq[s] \in {window[i].seq[s], window[i].seq[s] + 1}
  BY <1>1, <1>2
<1>4. CASE j = i
  <2>1. n <= window[i].seq[s] /\ <<s, n>> \in window[i].unacked
    BY <1>4 DEF NumberFits
  <2>2. n <= window'[i].seq[s]
    BY <1>3, <2>1
  <2>3. <<s, n>> \in window'[i].unacked
    BY <1>1, <2>1
  <2> QED BY <1>4, <2>2, <2>3 DEF NumberFits
<1>5. CASE j # i
  BY <1>1, <1>5 DEF NumberFits
<1> QED BY <1>4, <1>5

LEMMA EmptyStreamFits ==
  ASSUME NEW s \in Sub, flight'[s] = <<>>
  PROVE  StreamFits(s)'
  BY DEF StreamFits, Growing

LEMMA SentStreamFits ==
  ASSUME OrderInv, DeliveryTypeOK', [Next]_vars, NEW i \in Instance, NEW s \in Sub,
         DeliverLiveKlineBatch(i), s = part[i].cur
  PROVE  StreamFits(s)'
<1>0. /\ DeliveryTypeOK /\ StreamFits(s) /\ Work(i) /\ part[i].st = "granted" /\ conn[s] = i
      /\ Enqueue(i, s) /\ conn' = conn /\ part[i] \in Consumer
      /\ part'[i] = [part[i] EXCEPT !.st = "handled"]
      /\ flight[s] \in Seq(Frame) /\ flight \in [Sub -> Seq(Frame)]
  BY DEF OrderInv, SafetyInv, DeliveryTypeOK, DeliverLiveKlineBatch
<1> DEFINE n == NextSequence(i, s)
           f == [by |-> i, msg |-> part[i].pos, seq |-> n]
<1>1. /\ n \in Nat \ {0} /\ n = window[i].seq[s] + 1 /\ window[i].seq[s] \in Nat
      /\ window'[i].seq = [window[i].seq EXCEPT ![s] = n]
      /\ window'[i].unacked = window[i].unacked \cup {<<s, n>>}
  BY <1>0, EnqueueTyped
<1>2. flight' = [flight EXCEPT ![s] = Append(flight[s], f)]
  BY DEF DeliverLiveKlineBatch
<1> HIDE DEF n
<1>3. f \in Frame
  BY <1>0, <1>1 DEF Frame, Consumer
<1>4. PICK g : g = f
  OBVIOUS
<1> HIDE DEF f
<1>5. g \in Frame /\ flight'[s] = Append(flight[s], g)
  BY <1>0, <1>2, <1>3, <1>4
<1>6. g.by = i /\ g.msg = part[i].pos /\ g.seq = n
  BY <1>4 DEF f
<1>7. /\ part'[i].pos = part[i].pos /\ part'[i].st = "handled" /\ part'[i].cur = s
      /\ part[i].cur \in part[i].todo /\ part[i].pos <= produced /\ part[i].pos \in Nat
      /\ produced \in Nat /\ produced' \in Nat /\ produced <= produced'
  BY <1>0, ProducedGrows, DeliveryAssumption DEF Work, Consumer, DeliveryTypeOK, Offset
\* The new frame fits: its number is the new one, its message the one in hand.
<1>8. FrameFits(s, g)'
  <2>1. conn'[s] = i
    BY <1>0
  <2>2. part'[i].pos <= produced' /\ part'[i].pos <= part'[i].pos
    BY <1>7
  <2>3. MessageFits(i, s, part[i].pos)'
    BY <1>7 DEF MessageFits
  <2>4. window[i].seq \in [Sub -> Nat]
    BY <1>0 DEF DeliveryTypeOK, Window
  <2>5. window'[i].seq[s] = n /\ n <= n /\ <<s, n>> \in window'[i].unacked
    BY <1>1, <2>4
  <2> QED BY <1>6, <1>7, <2>1, <2>2, <2>3, <2>5 DEF FrameFits, MessageFits, NumberFits
\* The frames before it stay fit, and are of earlier messages and numbers.
<1>9. ASSUME NEW k \in DOMAIN flight[s]
      PROVE  /\ FrameFits(s, flight[s][k])'
             /\ flight[s][k].msg < g.msg /\ flight[s][k].seq < g.seq
             /\ flight'[s][k] = flight[s][k]
  <2>1. flight[s][k] \in Frame /\ flight'[s][k] = flight[s][k]
    BY <1>0, <1>5, <1>9
  <2>2. PICK h \in Frame : h = flight[s][k]
    BY <2>1
  <2>3. FrameFits(s, h) /\ h.by = i /\ h.seq \in Nat /\ h.msg \in Nat
    BY <1>0, <1>9, <2>2, DeliveryAssumption DEF StreamFits, FrameFits, Frame, Offset
  <2>4. NumberFits(i, s, h.seq)'
    <3>1. NumberFits(i, s, h.seq)
      BY <2>3 DEF FrameFits
    <3>2. PICK c \in Nat : c = h.seq
      BY <2>3
    <3> QED BY <1>0, <3>1, <3>2, EnqueueKeepsNumbers
  <2>5. FrameFits(s, h)'
    BY <1>0, <2>3, <2>4, FrameKept DEF NumberFits
  <2>6. h.seq < n
    BY <1>1, <2>3 DEF FrameFits, NumberFits
  <2>7. h.msg < part[i].pos
    BY <1>0, <1>7, <2>3 DEF FrameFits, MessageFits
  <2> QED BY <1>6, <2>1, <2>2, <2>5, <2>6, <2>7 DEF FrameFits, MessageFits, NumberFits
<1>10. /\ DOMAIN flight'[s] = 1 .. Len(flight[s]) + 1
       /\ DOMAIN flight[s] = 1 .. Len(flight[s])
       /\ Len(flight[s]) \in Nat
       /\ flight'[s][Len(flight[s]) + 1] = g
  BY <1>0, <1>5
<1>11. \A k \in DOMAIN flight'[s] : FrameFits(s, flight[s][k])'
  <2> SUFFICES ASSUME NEW k \in DOMAIN flight'[s] PROVE FrameFits(s, flight[s][k])'
    OBVIOUS
  <2>1. CASE k \in DOMAIN flight[s]
    BY <1>9, <2>1
  <2>2. CASE k = Len(flight[s]) + 1
    BY <1>8, <1>10, <2>2 DEF FrameFits, MessageFits, NumberFits
  <2> QED BY <1>10, <2>1, <2>2
<1>12. Growing(flight'[s])
  <2> SUFFICES ASSUME NEW k \in DOMAIN flight'[s], NEW l \in DOMAIN flight'[s], k < l
               PROVE  /\ flight'[s][k].msg < flight'[s][l].msg
                      /\ flight'[s][k].seq < flight'[s][l].seq
    BY DEF Growing
  <2>1. k \in DOMAIN flight[s]
    BY <1>10
  <2>2. CASE l \in DOMAIN flight[s]
    <3>1. flight'[s][k] = flight[s][k] /\ flight'[s][l] = flight[s][l]
      BY <1>9, <2>1, <2>2
    <3> QED BY <1>0, <2>1, <2>2, <3>1 DEF StreamFits, Growing
  <2>3. CASE l = Len(flight[s]) + 1
    BY <1>9, <1>10, <2>1, <2>3
  <2> QED BY <1>10, <2>2, <2>3
<1> QED BY <1>11, <1>12 DEF StreamFits, Growing

\* The runtime takes the first frame: its slot is not that of a later one.
LEMMA AckedStreamFits ==
  ASSUME OrderInv, DeliveryTypeOK', [Next]_vars, NEW r \in Sub, HandleRuntimeDataAck(r),
         NEW s \in Sub
  PROVE  StreamFits(s)'
<1>0. /\ DeliveryTypeOK /\ StreamFits(s) /\ StreamFits(r) /\ conn' = conn
      /\ flight[r] \in Seq(Frame) /\ flight[r] # <<>> /\ flight \in [Sub -> Seq(Frame)]
      /\ flight' = [flight EXCEPT ![r] = Tail(flight[r])]
  BY DEF OrderInv, SafetyInv, DeliveryTypeOK, HandleRuntimeDataAck
<1>1. PICK h \in Frame : h = Head(flight[r])
  BY <1>0
<1>2. /\ Ack(h.by, r, h.seq) /\ h.by \in Instance /\ h.seq \in Nat
  BY <1>1 DEF HandleRuntimeDataAck, Frame
<1>3. /\ \A j \in Instance : window'[j].seq = window[j].seq
      /\ window'[h.by].unacked = window[h.by].unacked \ {<<r, h.seq>>}
      /\ \A j \in Instance \ {h.by} : window'[j] = window[j]
  BY <1>0, <1>2, AckTyped
<1>4. ASSUME NEW j \in Instance, NEW q \in Sub, NEW n \in Nat, NumberFits(j, q, n),
             <<q, n>> # <<r, h.seq>>
      PROVE  NumberFits(j, q, n)'
  <2>1. n <= window'[j].seq[q]
    BY <1>3, <1>4 DEF NumberFits
  <2>2. <<q, n>> \in window'[j].unacked
    BY <1>3, <1>4 DEF NumberFits
  <2> QED BY <2>1, <2>2 DEF NumberFits
<1>5. CASE s # r
  <2>1. flight'[s] = flight[s] /\ flight[s] \in Seq(Frame)
    BY <1>0, <1>5
  <2>2. ASSUME NEW k \in DOMAIN flight[s],
               NumberFits(flight[s][k].by, s, flight[s][k].seq)
        PROVE  NumberFits(flight[s][k].by, s, flight[s][k].seq)'
    <3>1. flight[s][k] \in Frame
      BY <2>1
    <3>2. PICK j \in Instance, n \in Nat :
            j = flight[s][k].by /\ n = flight[s][k].seq
      BY <3>1 DEF Frame
    <3>3. <<s, n>> # <<r, h.seq>>
      BY <1>5
    <3>4. NumberFits(j, s, n)'
      BY <1>4, <2>2, <3>2, <3>3
    <3> QED BY <2>1, <3>2, <3>4 DEF NumberFits
  <2> QED BY <1>0, <2>1, <2>2, StreamKept
<1>6. CASE s = r
  <2>1. /\ flight'[s] = Tail(flight[s]) /\ flight[s] \in Seq(Frame) /\ flight[s] # <<>>
        /\ flight[s][1] = h
    BY <1>0, <1>1, <1>6
  <2>2. /\ Len(flight[s]) \in Nat \ {0} /\ DOMAIN flight[s] = 1 .. Len(flight[s])
        /\ DOMAIN flight'[s] = 1 .. Len(flight[s]) - 1
        /\ \A k \in DOMAIN flight'[s] : flight'[s][k] = flight[s][k + 1]
    BY <2>1
  <2>3. ASSUME NEW k \in DOMAIN flight'[s]
        PROVE  FrameFits(s, flight[s][k])'
    <3>1. k + 1 \in DOMAIN flight[s] /\ 1 \in DOMAIN flight[s] /\ 1 < k + 1
      BY <2>2
    <3>2. PICK f \in Frame : f = flight[s][k + 1] /\ f = flight'[s][k]
      BY <2>1, <2>2, <3>1
    <3>3. FrameFits(s, f) /\ f.seq \in Nat /\ f.by \in Instance
      BY <1>0, <3>1, <3>2 DEF StreamFits, Frame
    <3>4. h.seq < f.seq
      BY <1>0, <2>1, <3>1, <3>2 DEF StreamFits, Growing
    <3>5. NumberFits(f.by, s, f.seq)'
      <4>1. NumberFits(f.by, s, f.seq) /\ <<s, f.seq>> # <<r, h.seq>>
        BY <1>2, <3>3, <3>4 DEF FrameFits
      <4>2. PICK j \in Instance, n \in Nat : j = f.by /\ n = f.seq
        BY <3>3
      <4> QED BY <1>4, <4>1, <4>2
    <3>6. FrameFits(s, f)'
      BY <1>0, <3>3, <3>5, FrameKept
    <3> QED BY <3>2, <3>6 DEF FrameFits, MessageFits, NumberFits
  <2>4. Growing(flight'[s])
    <3> SUFFICES ASSUME NEW k \in DOMAIN flight'[s], NEW l \in DOMAIN flight'[s], k < l
                 PROVE  /\ flight'[s][k].msg < flight'[s][l].msg
                        /\ flight'[s][k].seq < flight'[s][l].seq
      BY DEF Growing
    <3>1. k + 1 \in DOMAIN flight[s] /\ l + 1 \in DOMAIN flight[s] /\ k + 1 < l + 1
      BY <2>2
    <3>2. /\ flight[s][k + 1].msg < flight[s][l + 1].msg
          /\ flight[s][k + 1].seq < flight[s][l + 1].seq
      BY <1>0, <3>1 DEF StreamFits, Growing
    <3> QED BY <2>2, <3>2
  <2> QED BY <2>3, <2>4 DEF StreamFits, Growing
<1> QED BY <1>5, <1>6

LEMMA StepStream ==
  ASSUME OrderInv, DeliveryTypeOK', [Next]_vars, NEW s \in Sub
  PROVE  StreamFits(s)'
<1> DEFINE Slots == \A k \in DOMAIN flight[s] :
                      NumberFits(flight[s][k].by, s, flight[s][k].seq)
                      => NumberFits(flight[s][k].by, s, flight[s][k].seq)'
<1>0. /\ DeliveryTypeOK /\ StreamFits(s) /\ \A i \in Instance : Backed(i)
      /\ flight[s] \in Seq(Frame) /\ flight \in [Sub -> Seq(Frame)]
      /\ \A k \in DOMAIN flight[s] : flight[s][k] \in Frame /\ flight[s][k].by = conn[s]
  BY DEF OrderInv, SafetyInv, DeliveryTypeOK, StreamFits, FrameFits
<1>1. CASE Elsewhere
  BY <1>1, ElsewhereKeeps, StreamKept DEF NumberFits
<1>2. ASSUME NEW i \in Instance, NEW r \in Sub, Connect(i, r) PROVE StreamFits(s)'
  <2>1. /\ conn[r] = None /\ conn' = [conn EXCEPT ![r] = i] /\ flight' = flight
        /\ window' = window
    BY <1>2 DEF Connect, procVars
  <2>2. flight[s] # <<>> => conn[s] \in Instance
    BY <1>0 DEF Frame
  <2>3. flight[s] # <<>> => conn'[s] = conn[s]
    BY <2>1, <2>2, DeliveryAssumption
  <2> QED BY <2>1, <2>3, StreamKept DEF NumberFits
<1>3. ASSUME NEW r \in Sub, Disconnect(r) PROVE StreamFits(s)'
  <2>1. CASE s = r
    BY <1>0, <1>3, <2>1, EmptyStreamFits DEF Disconnect
  <2>2. CASE s # r
    <3>1. flight'[s] = flight[s] /\ conn'[s] = conn[s] /\ window' = window
      BY <1>0, <1>3, <2>2 DEF Disconnect, procVars, DeliveryTypeOK
    <3> QED BY <3>1, StreamKept DEF NumberFits
  <2> QED BY <2>1, <2>2
<1>4. ASSUME NEW r \in Sub, HandleRuntimeDataAck(r) PROVE StreamFits(s)'
  BY <1>4, AckedStreamFits
<1>5. ASSUME NEW i \in Instance, DeliverLiveKlineBatch(i) \/ DeliveryFails(i),
             ~(DeliverLiveKlineBatch(i) /\ s = part[i].cur)
      PROVE  StreamFits(s)'
  <2>1. PICK r \in Sub : r = part[i].cur
    BY <1>0, <1>5 DEF DeliverLiveKlineBatch, DeliveryFails, Backed
  <2>2. Enqueue(i, r) /\ flight'[s] = flight[s] /\ conn' = conn
    BY <1>0, <1>5, <2>1 DEF DeliverLiveKlineBatch, DeliveryFails, streamVars
  <2>3. ASSUME NEW k \in DOMAIN flight[s],
               NumberFits(flight[s][k].by, s, flight[s][k].seq)
        PROVE  NumberFits(flight[s][k].by, s, flight[s][k].seq)'
    <3>1. PICK j \in Instance, n \in Nat : j = flight[s][k].by /\ n = flight[s][k].seq
      BY <1>0 DEF Frame
    <3>2. NumberFits(j, s, n)'
      BY <1>0, <2>2, <2>3, <3>1, EnqueueKeepsNumbers
    <3> QED BY <2>2, <3>1, <3>2 DEF NumberFits
  <2> QED BY <2>2, <2>3, StreamKept
<1>6. ASSUME NEW i \in Instance, DeliverLiveKlineBatch(i), s = part[i].cur
      PROVE  StreamFits(s)'
  BY <1>6, SentStreamFits
<1>7. ASSUME NEW i \in Instance, DeliverDatasetChunk(i) \/ DatasetChunkAcked(i)
      PROVE  StreamFits(s)'
  <2>1. /\ \A j \in Instance : window'[j].seq = window[j].seq
        /\ \A j \in Instance : window[j].unacked \ {<<None, 1>>} \subseteq window'[j].unacked
    <3>1. CASE DeliverDatasetChunk(i)
      BY <1>0, <3>1 DEF DeliverDatasetChunk, DeliveryTypeOK, Window
    <3>2. CASE DatasetChunkAcked(i)
      <4>1. /\ \A j \in Instance : window'[j].seq = window[j].seq
            /\ window'[i].unacked = window[i].unacked \ {<<None, 1>>}
            /\ \A j \in Instance \ {i} : window'[j] = window[j]
        BY <1>0, <3>2, AckTyped DEF DatasetChunkAcked
      <4> QED BY <4>1
    <3> QED BY <1>7, <3>1, <3>2
  <2>2. flight' = flight /\ conn' = conn
    BY <1>7 DEF DeliverDatasetChunk, DatasetChunkAcked, streamVars
  <2>3. ASSUME NEW k \in DOMAIN flight[s],
               NumberFits(flight[s][k].by, s, flight[s][k].seq)
        PROVE  NumberFits(flight[s][k].by, s, flight[s][k].seq)'
    <3>1. PICK j \in Instance, n \in Nat : j = flight[s][k].by /\ n = flight[s][k].seq
      BY <1>0 DEF Frame
    <3>2. <<s, n>> # <<None, 1>>
      BY DeliveryAssumption
    <3>3. NumberFits(j, s, n)'
      BY <2>1, <2>3, <3>1, <3>2 DEF NumberFits
    <3> QED BY <2>2, <3>1, <3>3 DEF NumberFits
  <2> QED BY <2>2, <2>3, StreamKept
<1>8. ASSUME NEW i \in Instance, ProcessDies(i) PROVE StreamFits(s)'
  <2>1. CASE conn[s] = i
    BY <1>8, <2>1, EmptyStreamFits DEF ProcessDies
  <2>2. CASE conn[s] # i
    <3>1. flight'[s] = flight[s] /\ conn'[s] = conn[s]
      BY <1>8, <2>2 DEF ProcessDies
    <3>2. \A j \in Instance \ {i} : window'[j] = window[j]
      BY <1>0, <1>8 DEF ProcessDies, DeliveryTypeOK
    <3>3. ASSUME NEW k \in DOMAIN flight[s],
                 NumberFits(flight[s][k].by, s, flight[s][k].seq)
          PROVE  NumberFits(flight[s][k].by, s, flight[s][k].seq)'
      <4>1. PICK j \in Instance \ {i} : j = flight[s][k].by
        BY <1>0, <2>2 DEF Frame
      <4> QED BY <3>1, <3>2, <3>3, <4>1 DEF NumberFits
    <3> QED BY <3>1, <3>3, StreamKept
  <2> QED BY <2>1, <2>2
<1> QED BY <1>1, <1>2, <1>3, <1>4, <1>5, <1>6, <1>7, <1>8 DEF Next, Delivers, Elsewhere

LEMMA OrderInvInductive == Safety => []OrderInv
<1>1. Init => OrderInv
  <2> SUFFICES ASSUME Init PROVE OrderInv
    OBVIOUS
  <2>1. SafetyInv
    BY InitTyped DEF Init, SafetyInv, Backed, NoConsumer
  <2>2. \A i \in Instance : Work(i)
    BY DEF Init, Work, NoConsumer
  <2>3. \A i \in Instance : WindowFits(i)
    <3>1. \A i \in Instance : window[i].unacked = {}
      BY DEF Init, EmptyWindow
    <3>2. IsFiniteSet({}) /\ Cardinality({}) = 0 /\ 0 <= Capacity
      BY FS_EmptySet, DeliveryAssumption
    <3> QED BY <3>1, <3>2 DEF WindowFits
  <2>4. \A s \in Sub : StreamFits(s)
    BY DEF Init, StreamFits, Growing
  <2> QED BY <2>1, <2>2, <2>3, <2>4 DEF OrderInv
<1>2. OrderInv /\ [Next]_vars => OrderInv'
  <2> SUFFICES ASSUME OrderInv, [Next]_vars PROVE OrderInv'
    OBVIOUS
  <2>1. SafetyInv /\ DeliveryTypeOK
    BY DEF OrderInv, SafetyInv
  <2>2. DeliveryTypeOK' /\ \A i \in Instance : Backed(i)'
    BY <2>1, StepTyped, StepBacked
  <2>3. ASSUME NEW i \in Instance PROVE Work(i)'
    BY <2>1, <2>2, <2>3, ProducedGrows, ConsumerFits DEF OrderInv
  <2>4. \A i \in Instance : WindowFits(i)'
    BY StepWindow
  <2>5. \A s \in Sub : StreamFits(s)'
    BY <2>2, StepStream
  <2> QED BY <2>2, <2>3, <2>4, <2>5 DEF OrderInv, SafetyInv
<1> QED BY <1>1, <1>2, PTL DEF Safety

\* What is on a stream comes from the process that has the stream, in the order
\* of the partition and of the sequence numbers, over any number of processes,
\* subscriptions, restarts and failures (startTopicConsumer, Enqueue).
THEOREM StreamsInOrder == Safety => []StreamInOrder
<1>1. OrderInv => StreamInOrder
  <2> SUFFICES ASSUME OrderInv, NEW s \in Sub, NEW k \in DOMAIN flight[s]
               PROVE  /\ flight[s][k].by = conn[s]
                      /\ k > 1 => /\ flight[s][k - 1].msg < flight[s][k].msg
                                  /\ flight[s][k - 1].seq < flight[s][k].seq
    BY DEF StreamInOrder
  <2>1. StreamFits(s) /\ flight[s] \in Seq(Frame)
    BY DEF OrderInv, SafetyInv, DeliveryTypeOK
  <2>2. k > 1 => k - 1 \in DOMAIN flight[s] /\ k - 1 < k
    BY <2>1
  <2> QED BY <2>1, <2>2 DEF StreamFits, FrameFits, Growing
<1> QED BY <1>1, OrderInvInductive, PTL

\* A frame in flight has its slot, and a process has no more slots in use than
\* its window has (RuntimeDataWindow.Enqueue, RuntimeDataWindow.Ack).
THEOREM FlightHasSlots == Safety => []FlightHoldsSlots
<1>1. OrderInv => FlightHoldsSlots
  BY DEF OrderInv, StreamFits, FrameFits, NumberFits, WindowFits, FlightHoldsSlots
<1> QED BY <1>1, OrderInvInductive, PTL

-----------------------------------------------------------------------------
(* Order events *)

\* Neither property is inductive: the one says what the cursor covers, the other
\* that nothing beyond it was sent.
SentIsPassed == \A i \in Visitor, s \in Session : sent[i][s] = 1..cursor[i][s]

\* A cursor is behind the last event, which never goes back.
CursorBehind == \A i \in Visitor, s \in Session : cursor[i][s] <= events[s]

\* A batch on its way is of the session whose turn it is, and follows the cursor.
BatchFollows(i) ==
    pass[i].pc = "send" =>
        /\ pass[i].todo # {}
        /\ cursor[i][Turn(i)] < pass[i].upto
        /\ pass[i].upto <= events[Turn(i)]

CursorInv ==
    /\ SentIsPassed
    /\ CursorBehind
    /\ \A i \in Visitor : BatchFollows(i)

-----------------------------------------------------------------------------
\* A pass that has sessions left visits one of them.
LEMMA TurnIsVisited ==
    ASSUME OrdersTypeOK, NEW i \in Visitor, pass[i].todo # {}
    PROVE  Turn(i) \in pass[i].todo /\ Turn(i) \in Session
<1> DEFINE T == pass[i].todo
<1>1. T \subseteq Session /\ T \subseteq Nat
  BY OrderAssumption DEF OrdersTypeOK, Pass
<1>2. \E s \in T : \A r \in T : ~(<<r, s>> \in OpToRel(<, Nat))
  BY <1>1, NatLessThanWellFounded, WFMin
<1>3. PICK s \in T : \A r \in T : s <= r
  <2>1. PICK s \in T : \A r \in T : ~(<<r, s>> \in OpToRel(<, Nat))
    BY <1>2
  <2>2. ASSUME NEW r \in T PROVE ~(r < s)
    BY <1>1, <2>1 DEF OpToRel
  <2>3. \A r \in T : s <= r
    BY <1>1, <2>2
  <2> QED BY <2>3
<1>4. Turn(i) \in T
  BY <1>3 DEF Turn
<1> QED BY <1>1, <1>4

LEMMA NoPassTyped == NoPass \in Pass /\ NoPass.pc = "wait"
  BY OrderAssumption DEF NoPass, Pass

LEMMA OrderInitTyped == OrdersInit => OrdersTypeOK /\ CursorInv
<1> SUFFICES ASSUME OrdersInit PROVE OrdersTypeOK /\ CursorInv
  OBVIOUS
<1>1. OrdersTypeOK
  BY NoPassTyped, OrderAssumption DEF OrdersInit, OrdersTypeOK
<1>2. CursorInv
  BY NoPassTyped DEF OrdersInit, CursorInv, SentIsPassed, CursorBehind, BatchFollows
<1> QED BY <1>1, <1>2

-----------------------------------------------------------------------------
(* The steps of SyncOnce *)

\* Sessions, events and streams come and go; the passes do not move.
LEMMA EnvironmentKeeps ==
    ASSUME OrdersTypeOK, CursorInv, NEW s \in Session,
           \/ SessionStarts(s) \/ SessionEnds(s) \/ OrderEvent(s) \/ RuntimeLeaves(s)
           \/ \E i \in Visitor : RuntimeConnects(i, s)
    PROVE  OrdersTypeOK' /\ CursorInv'
<1>1. UNCHANGED <<cursor, pass, sent>>
  BY DEF SessionStarts, SessionEnds, OrderEvent, RuntimeLeaves, RuntimeConnects
<1>2. \A r \in Session : events[r] <= events'[r]
  BY DEF SessionStarts, SessionEnds, OrderEvent, RuntimeLeaves, RuntimeConnects, OrdersTypeOK
<1>3. OrdersTypeOK'
  <2>1. CASE SessionStarts(s)
    BY <2>1 DEF SessionStarts, OrdersTypeOK
  <2>2. CASE SessionEnds(s)
    BY <2>2, OrderAssumption DEF SessionEnds, Failure, OrdersTypeOK
  <2>3. CASE OrderEvent(s)
    BY <2>3, OrderAssumption DEF OrderEvent, OrdersTypeOK
  <2>4. CASE RuntimeLeaves(s)
    BY <2>4, OrderAssumption DEF RuntimeLeaves, Failure, OrdersTypeOK
  <2>5. CASE \E i \in Visitor : RuntimeConnects(i, s)
    BY <2>5 DEF RuntimeConnects, OrdersTypeOK
  <2> QED BY <2>1, <2>2, <2>3, <2>4, <2>5
<1>4. SentIsPassed'
  BY <1>1 DEF CursorInv, SentIsPassed
<1>5. \A r \in Session : events[r] \in Int /\ events'[r] \in Int
  BY <1>3 DEF OrdersTypeOK
<1>6. CursorBehind'
  <2>1. \A i \in Visitor, r \in Session : cursor[i][r] \in Int
    BY DEF OrdersTypeOK
  <2> QED BY <1>1, <1>2, <1>5, <2>1 DEF CursorInv, CursorBehind
<1>7. ASSUME NEW i \in Visitor PROVE BatchFollows(i)'
  <2>1. Turn(i)' = Turn(i)
    BY <1>1 DEF Turn
  <2>2. pass[i].upto \in Int
    BY DEF OrdersTypeOK, Pass
  <2>3. pass[i].todo # {} => Turn(i) \in Session
    BY TurnIsVisited
  <2> QED BY <1>1, <1>2, <1>5, <2>1, <2>2, <2>3 DEF CursorInv, BatchFollows
<1> QED BY <1>3, <1>4, <1>6, <1>7 DEF CursorInv

\* A process that restarts begins every session again.
LEMMA RestartKeeps ==
    ASSUME OrdersTypeOK, CursorInv, NEW i \in Visitor, Restart(i)
    PROVE  OrdersTypeOK' /\ CursorInv'
<1>1. OrdersTypeOK'
  BY NoPassTyped, OrderAssumption DEF Restart, Failure, OrdersTypeOK
<1>2. \A j \in Visitor : /\ pass'[j] = IF j = i THEN NoPass ELSE pass[j]
                         /\ cursor'[j] = IF j = i THEN [s \in Session |-> 0] ELSE cursor[j]
                         /\ sent'[j] = IF j = i THEN [s \in Session |-> {}] ELSE sent[j]
  BY DEF Restart, OrdersTypeOK
<1>3. events' = events /\ \A s \in Session : events[s] \in Nat
  BY DEF Restart, OrdersTypeOK
<1>4. SentIsPassed'
  <2> SUFFICES ASSUME NEW j \in Visitor, NEW s \in Session
               PROVE  sent'[j][s] = 1..cursor'[j][s]
    BY DEF SentIsPassed
  <2>1. CASE j = i
    <3>1. sent'[j][s] = {} /\ cursor'[j][s] = 0
      BY <1>2, <2>1
    <3>2. 1..0 = {}
      OBVIOUS
    <3> QED BY <3>1, <3>2
  <2>2. CASE j # i
    <3>1. sent'[j] = sent[j] /\ cursor'[j] = cursor[j]
      BY <1>2, <2>2
    <3> QED BY <3>1 DEF CursorInv, SentIsPassed
  <2> QED BY <2>1, <2>2
<1>5. CursorBehind'
  BY <1>2, <1>3 DEF CursorInv, CursorBehind
<1>6. ASSUME NEW j \in Visitor PROVE BatchFollows(j)'
  <2>1. CASE j = i
    BY <1>2, <2>1, NoPassTyped DEF BatchFollows
  <2>2. CASE j # i
    BY <1>2, <1>3, <2>2 DEF CursorInv, BatchFollows, Turn
  <2> QED BY <2>1, <2>2
<1> QED BY <1>1, <1>4, <1>5, <1>6 DEF CursorInv

\* A pass that moves on without sending.
LEMMA PassMoves ==
    ASSUME OrdersTypeOK, CursorInv, UNCHANGED <<cursor, sent, events>>,
           NEW i \in Visitor, NEW p \in Pass, pass' = [pass EXCEPT ![i] = p],
           p.pc = "send" => /\ p.todo = pass[i].todo /\ p.todo # {}
                            /\ cursor[i][Turn(i)] < p.upto /\ p.upto <= events[Turn(i)]
    PROVE  CursorInv'
<1>1. \A j \in Visitor : pass'[j] = IF j = i THEN p ELSE pass[j]
  BY DEF OrdersTypeOK
<1>2. SentIsPassed' /\ CursorBehind'
  BY DEF CursorInv, SentIsPassed, CursorBehind
<1>3. ASSUME NEW j \in Visitor PROVE BatchFollows(j)'
  <2>1. CASE j = i
    BY <1>1, <2>1 DEF BatchFollows, Turn
  <2>2. CASE j # i
    BY <1>1, <2>2 DEF CursorInv, BatchFollows, Turn
  <2> QED BY <2>1, <2>2
<1> QED BY <1>2, <1>3 DEF CursorInv

\* A pass begins, ends or fails.
LEMMA PassKeeps ==
    ASSUME OrdersTypeOK, CursorInv, NEW i \in Visitor,
           StartPass(i) \/ PassEndsAtRoute(i) \/ PassFails(i) \/ EndPass(i)
    PROVE  OrdersTypeOK' /\ CursorInv'
<1>1. CASE StartPass(i)
  <2> DEFINE p == [pass[i] EXCEPT !.pc = "route", !.todo = active]
  <2>1. p \in Pass /\ p.pc = "route" /\ pass' = [pass EXCEPT ![i] = p]
    BY <1>1 DEF StartPass, OrdersTypeOK, Pass
  <2> HIDE DEF p
  <2>2. OrdersTypeOK'
    BY <1>1, <2>1 DEF StartPass, OrdersTypeOK
  <2>3. CursorInv'
    BY <1>1, <2>1, PassMoves DEF StartPass
  <2> QED BY <2>2, <2>3
<1>2. CASE PassEndsAtRoute(i) \/ PassFails(i) \/ EndPass(i)
  <2>1. OrdersTypeOK'
    <3>1. /\ pass' = [pass EXCEPT ![i] = NoPass]
          /\ UNCHANGED <<active, events, route, cursor, sent>>
          /\ UNCHANGED failures \/ Failure
      BY <1>2 DEF PassEndsAtRoute, PassFails, EndPass
    <3>2. failures' \in 0..MaxFailures
      BY <3>1, OrderAssumption DEF Failure, OrdersTypeOK
    <3> QED BY <3>1, <3>2, NoPassTyped DEF OrdersTypeOK
  <2>2. CursorInv'
    BY <1>2, NoPassTyped, PassMoves DEF PassEndsAtRoute, PassFails, EndPass
  <2> QED BY <2>1, <2>2
<1> QED BY <1>1, <1>2

\* A fetch asks for the batch after the cursor, or leaves the session.
LEMMA FetchKeeps ==
    ASSUME OrdersTypeOK, CursorInv, NEW i \in Visitor, FetchEvents(i)
    PROVE  OrdersTypeOK' /\ CursorInv'
<1> DEFINE s == Turn(i)
           last == LastOfBatch(i, s)
<1>1. s \in Session /\ pass[i].todo # {} /\ pass[i].pc = "route"
  BY TurnIsVisited DEF FetchEvents
<1>2. last \in 0..MaxEvent /\ last <= events[s] /\ cursor[i][s] <= last
  <2>1. cursor[i][s] \in 0..MaxEvent /\ events[s] \in 0..MaxEvent /\ cursor[i][s] <= events[s]
    BY <1>1 DEF OrdersTypeOK, CursorInv, CursorBehind
  <2> QED BY <2>1, OrderAssumption DEF LastOfBatch
<1>3. pass[i] \in Pass /\ pass[i].todo \subseteq Session
  BY DEF OrdersTypeOK, Pass
<1>4. UNCHANGED <<active, events, route, cursor, sent, failures>>
  BY DEF FetchEvents
<1>5. CASE last = cursor[i][s]
  <2> DEFINE p == [pass[i] EXCEPT !.todo = @ \ {s}]
  <2>1. pass' = [pass EXCEPT ![i].todo = @ \ {s}]
    BY <1>5 DEF FetchEvents
  <2>2. p \in Pass /\ p.pc = "route" /\ pass' = [pass EXCEPT ![i] = p]
    BY <1>1, <1>3, <2>1 DEF Pass
  <2> HIDE DEF p
  <2>3. OrdersTypeOK'
    BY <1>4, <2>2 DEF OrdersTypeOK
  <2>4. CursorInv'
    BY <1>4, <2>2, PassMoves
  <2> QED BY <2>3, <2>4
<1>6. CASE last # cursor[i][s]
  <2> DEFINE p == [pass[i] EXCEPT !.pc = "send", !.upto = last]
  <2>1. pass' = [pass EXCEPT ![i].pc = "send", ![i].upto = last]
    BY <1>6 DEF FetchEvents
  <2>2. /\ p \in Pass /\ p.todo = pass[i].todo /\ p.upto = last
        /\ pass' = [pass EXCEPT ![i] = p]
    BY <1>2, <1>3, <2>1 DEF Pass
  <2>3. cursor[i][s] < last
    <3>1. cursor[i][s] \in Int /\ last \in Int
      BY <1>1, <1>2 DEF OrdersTypeOK
    <3> HIDE DEF last
    <3> QED BY <1>2, <1>6, <3>1
  <2> HIDE DEF p
  <2>4. OrdersTypeOK'
    BY <1>4, <2>2 DEF OrdersTypeOK
  <2>5. CursorInv'
    BY <1>1, <1>2, <1>4, <2>2, <2>3, PassMoves
  <2> QED BY <2>4, <2>5
<1> QED BY <1>5, <1>6

\* A send puts the batch behind the cursor.
LEMMA SendKeeps ==
    ASSUME OrdersTypeOK, CursorInv, NEW i \in Visitor, SendBatch(i)
    PROVE  OrdersTypeOK' /\ CursorInv'
<1> DEFINE s == Turn(i)
           p == [pc |-> "route", todo |-> pass[i].todo \ {s}, upto |-> 0]
           upto == pass[i].upto
<1>1. pass[i].pc = "send" /\ pass[i].todo # {} /\ cursor[i][s] < upto /\ upto <= events[s]
  BY DEF SendBatch, CursorInv, BatchFollows
<1>2. s \in Session
  BY <1>1, TurnIsVisited
<1>3. upto \in 0..MaxEvent /\ cursor[i][s] \in 0..MaxEvent /\ events[s] \in 0..MaxEvent
  BY <1>2 DEF OrdersTypeOK, Pass
<1>4. p \in Pass /\ p.pc = "route"
  BY OrderAssumption DEF OrdersTypeOK, Pass
<1>5. /\ UNCHANGED <<active, events, route, failures>>
      /\ pass' = [pass EXCEPT ![i] = p]
      /\ cursor' = [cursor EXCEPT ![i][s] = upto]
      /\ sent' = [sent EXCEPT ![i][s] = @ \cup Batch(i, s)]
  BY DEF SendBatch
<1>6. \A j \in Visitor, r \in Session :
         /\ cursor'[j][r] = IF j = i /\ r = s THEN upto ELSE cursor[j][r]
         /\ sent'[j][r] = IF j = i /\ r = s THEN sent[j][r] \cup Batch(i, s) ELSE sent[j][r]
  BY <1>2, <1>5 DEF OrdersTypeOK
<1>7. sent[i][s] \cup Batch(i, s) = 1..upto
  <2>1. sent[i][s] = 1..cursor[i][s]
    BY <1>2 DEF CursorInv, SentIsPassed
  <2> QED BY <1>1, <1>3, <2>1, OrderAssumption DEF Batch
<1> HIDE DEF p
<1>8. OrdersTypeOK'
  <2>1. sent[i][s] \cup Batch(i, s) \in SUBSET Event
    BY <1>3, <1>7, OrderAssumption DEF Event
  <2>2. sent' \in [Visitor -> [Session -> SUBSET Event]]
    BY <1>2, <1>5, <2>1 DEF OrdersTypeOK
  <2>3. cursor' \in [Visitor -> [Session -> 0..MaxEvent]]
    BY <1>2, <1>3, <1>5 DEF OrdersTypeOK
  <2>4. pass' \in [Visitor -> Pass]
    BY <1>4, <1>5 DEF OrdersTypeOK
  <2> QED BY <1>5, <2>2, <2>3, <2>4 DEF OrdersTypeOK
<1>9. SentIsPassed'
  <2> SUFFICES ASSUME NEW j \in Visitor, NEW r \in Session
               PROVE  sent'[j][r] = 1..cursor'[j][r]
    BY DEF SentIsPassed
  <2>1. sent[j][r] = 1..cursor[j][r]
    BY DEF CursorInv, SentIsPassed
  <2>2. CASE j = i /\ r = s
    <3>1. sent'[i][s] = 1..upto /\ cursor'[i][s] = upto
      BY <1>2, <1>6, <1>7
    <3> QED BY <2>2, <3>1
  <2>3. CASE ~(j = i /\ r = s)
    <3>1. sent'[j][r] = sent[j][r] /\ cursor'[j][r] = cursor[j][r]
      BY <1>6, <2>3
    <3> QED BY <2>1, <3>1
  <2> QED BY <2>2, <2>3
<1>10. CursorBehind'
  BY <1>1, <1>5, <1>6 DEF CursorInv, CursorBehind
<1>11. ASSUME NEW j \in Visitor PROVE BatchFollows(j)'
  <2>1. CASE j = i
    BY <1>4, <1>5, <2>1 DEF BatchFollows, OrdersTypeOK
  <2>2. CASE j # i
    <3>1. pass'[j] = pass[j] /\ cursor'[j] = cursor[j] /\ Turn(j)' = Turn(j)
      BY <1>5, <2>2 DEF OrdersTypeOK, Turn
    <3> QED BY <1>5, <3>1 DEF CursorInv, BatchFollows
  <2> QED BY <2>1, <2>2
<1> QED BY <1>8, <1>9, <1>10, <1>11 DEF CursorInv

LEMMA OrderKeeps == OrdersTypeOK /\ CursorInv /\ [OrdersNext]_orderVars => OrdersTypeOK' /\ CursorInv'
<1> SUFFICES ASSUME OrdersTypeOK, CursorInv, [OrdersNext]_orderVars PROVE OrdersTypeOK' /\ CursorInv'
  OBVIOUS
<1>1. CASE UNCHANGED orderVars
  BY <1>1 DEF orderVars, OrdersTypeOK, CursorInv, SentIsPassed, CursorBehind, BatchFollows, Turn
<1>2. CASE OrdersNext
  BY <1>2, EnvironmentKeeps, RestartKeeps, PassKeeps, FetchKeeps, SendKeeps DEF OrdersNext, SyncOnce
<1> QED BY <1>1, <1>2

-----------------------------------------------------------------------------
\* The sessions, the cursors and the passes are as the worker writes them.
THEOREM OrdersTyped == OrdersSpec => []OrdersTypeOK
  BY OrderInitTyped, OrderKeeps, PTL DEF OrdersSpec

\* No failed fetch, failed send, missing route or restart makes a cursor pass an event
\* that its process has not sent (SyncOnce).
THEOREM NothingSkipped == OrdersSpec => []NoEventSkipped
<1>1. CursorInv => NoEventSkipped
  BY DEF CursorInv, SentIsPassed, NoEventSkipped
<1> QED BY <1>1, OrderInitTyped, OrderKeeps, PTL DEF OrdersSpec

\* A process that keeps running sends an event of a session at most once, and no batch
\* is empty (SyncOnce, DeliverOrderLifecycleBatch).
THEOREM EventsSentOnce == OrdersSpec => []SentOnce
<1>1. OrdersTypeOK /\ CursorInv => SentOnce
  <2> SUFFICES ASSUME OrdersTypeOK, CursorInv, NEW i \in Visitor, pass[i].pc = "send"
               PROVE  Batch(i, Turn(i)) # {} /\ Batch(i, Turn(i)) \cap sent[i][Turn(i)] = {}
    BY DEF SentOnce
  <2>1. pass[i].todo # {} /\ cursor[i][Turn(i)] < pass[i].upto
    BY DEF CursorInv, BatchFollows
  <2>2. Turn(i) \in Session
    BY <2>1, TurnIsVisited
  <2>3. cursor[i][Turn(i)] \in Nat /\ pass[i].upto \in Nat
    BY <2>2 DEF OrdersTypeOK, Pass
  <2>4. sent[i][Turn(i)] = 1..cursor[i][Turn(i)]
    BY <2>2 DEF CursorInv, SentIsPassed
  <2>5. pass[i].upto \in Batch(i, Turn(i))
    BY <2>1, <2>3 DEF Batch
  <2> QED BY <2>3, <2>4, <2>5 DEF Batch
<1> QED BY <1>1, OrderInitTyped, OrderKeeps, PTL DEF OrdersSpec

=============================================================================
