--------------------------- MODULE OrderDelivery ---------------------------
(***************************************************************************)
(* The order lifecycle worker of every control-panel process: once a       *)
(* second it visits the sessions with active subscriptions, in one order,  *)
(* fetches the order events after its cursor and sends them to the         *)
(* session's runtime.  No lease says which process serves a session: every *)
(* process visits every session, and the runtime is connected to one.      *)
(***************************************************************************)
EXTENDS Integers, FiniteSets

CONSTANTS
    Visitor,     \* control-panel processes
    Session,     \* sessions, numbered in the order of their subscriptions
    MaxEvent,    \* bound: order events of a session
    Limit,       \* events in a batch
    MaxFailures, \* bound: failures and changes made from outside
    Nowhere      \* of a runtime without a stream

ASSUME OrderAssumption ==
    /\ Session \subseteq Nat /\ IsFiniteSet(Session)
    /\ MaxEvent \in Nat /\ MaxFailures \in Nat
    /\ Limit \in Nat \ {0}
    /\ Nowhere \notin Visitor

VARIABLES
    active,    \* sessions with an active subscription on a routable runtime
    events,    \* per session: id of its last order event (core-service)
    route,     \* per session: the process that has its runtime's stream
    cursor,    \* per process and session: cursor
    pass,      \* per process: progress of SyncOnce
    sent,      \* per process and session: events it sent (history)
    failures   \* how often something failed so far

orderVars == <<active, events, route, cursor, pass, sent, failures>>

-----------------------------------------------------------------------------
Event == 1..MaxEvent
Pass == [pc : {"wait", "route", "send"}, todo : SUBSET Session, upto : 0..MaxEvent]
NoPass == [pc |-> "wait", todo |-> {}, upto |-> 0]

OrdersInit ==
    /\ active = {}
    /\ events = [s \in Session |-> 0]
    /\ route = [s \in Session |-> Nowhere]
    /\ cursor = [i \in Visitor |-> [s \in Session |-> 0]]
    /\ pass = [i \in Visitor |-> NoPass]
    /\ sent = [i \in Visitor |-> [s \in Session |-> {}]]
    /\ failures = 0

Failure ==
    /\ failures < MaxFailures
    /\ failures' = failures + 1

\* The session whose turn it is.
Turn(i) == CHOOSE s \in pass[i].todo : \A r \in pass[i].todo : s <= r

-----------------------------------------------------------------------------
\* The environment: sessions, order events, streams, processes.

SessionStarts(s) ==
    /\ s \notin active
    /\ active' = active \cup {s}
    /\ UNCHANGED <<events, route, cursor, pass, sent, failures>>

SessionEnds(s) ==
    /\ s \in active
    /\ active' = active \ {s}
    /\ Failure
    /\ UNCHANGED <<events, route, cursor, pass, sent>>

OrderEvent(s) ==
    /\ events[s] < MaxEvent
    /\ events' = [events EXCEPT ![s] = @ + 1]
    /\ UNCHANGED <<active, route, cursor, pass, sent, failures>>

RuntimeConnects(i, s) ==
    /\ route[s] = Nowhere
    /\ route' = [route EXCEPT ![s] = i]
    /\ UNCHANGED <<active, events, cursor, pass, sent, failures>>

RuntimeLeaves(s) ==
    /\ route[s] # Nowhere
    /\ route' = [route EXCEPT ![s] = Nowhere]
    /\ Failure
    /\ UNCHANGED <<active, events, cursor, pass, sent>>

\* A process restarts: its cursor and its streams are gone.
Restart(i) ==
    /\ cursor' = [cursor EXCEPT ![i] = [s \in Session |-> 0]]
    /\ pass' = [pass EXCEPT ![i] = NoPass]
    /\ sent' = [sent EXCEPT ![i] = [s \in Session |-> {}]]
    /\ route' = [s \in Session |-> IF route[s] = i THEN Nowhere ELSE route[s]]
    /\ Failure
    /\ UNCHANGED <<active, events>>

-----------------------------------------------------------------------------
\* SyncOnce

\* activeRoutes
StartPass(i) ==
    /\ pass[i].pc = "wait"
    /\ pass' = [pass EXCEPT ![i].pc = "route", ![i].todo = active]
    /\ UNCHANGED <<active, events, route, cursor, sent, failures>>

Batch(i, s) == (cursor[i][s] + 1)..pass[i].upto

\* ListOrderLifecycleEvents returns at most Limit events after the cursor.
LastOfBatch(i, s) ==
    IF cursor[i][s] + Limit < events[s] THEN cursor[i][s] + Limit ELSE events[s]

\* Faulty: a fetch moves the cursor, whatever becomes of the batch.
FetchMovesCursor(i) ==
    LET s == Turn(i) IN
    /\ pass[i].pc = "route"
    /\ pass[i].todo # {}
    /\ pass' = IF LastOfBatch(i, s) = cursor[i][s]
               THEN [pass EXCEPT ![i].todo = @ \ {s}]
               ELSE [pass EXCEPT ![i].pc = "send", ![i].upto = LastOfBatch(i, s)]
    /\ cursor' = [cursor EXCEPT ![i][s] = LastOfBatch(i, s)]
    /\ UNCHANGED <<active, events, route, sent, failures>>

\* Faulty: a session without new events ends the pass.
EmptyBatchEndsPass(i) ==
    LET s == Turn(i) IN
    /\ pass[i].pc = "route"
    /\ pass[i].todo # {}
    /\ pass' = IF LastOfBatch(i, s) = cursor[i][s]
               THEN [pass EXCEPT ![i] = NoPass]
               ELSE [pass EXCEPT ![i].pc = "send", ![i].upto = LastOfBatch(i, s)]
    /\ UNCHANGED <<active, events, route, cursor, sent, failures>>

FetchEvents(i) ==
    LET s == Turn(i) IN
    /\ pass[i].pc = "route"
    /\ pass[i].todo # {}
    /\ pass' = IF LastOfBatch(i, s) = cursor[i][s]
               THEN [pass EXCEPT ![i].todo = @ \ {s}]
               ELSE [pass EXCEPT ![i].pc = "send", ![i].upto = LastOfBatch(i, s)]
    /\ UNCHANGED <<active, events, route, cursor, sent, failures>>

\* Faulty: the cursor stops before the last event of the batch.
CursorOneShort(i) ==
    LET s == Turn(i) IN
    /\ pass[i].pc = "send"
    /\ route[s] = i
    /\ sent' = [sent EXCEPT ![i][s] = @ \cup Batch(i, s)]
    /\ cursor' = [cursor EXCEPT ![i][s] = pass[i].upto - 1]
    /\ pass' = [pass EXCEPT ![i] = [pc |-> "route", todo |-> @.todo \ {s}, upto |-> 0]]
    /\ UNCHANGED <<active, events, route, failures>>

\* DeliverOrderLifecycleBatch found the stream and queued the frame.
SendBatch(i) ==
    LET s == Turn(i) IN
    /\ pass[i].pc = "send"
    /\ route[s] = i
    /\ sent' = [sent EXCEPT ![i][s] = @ \cup Batch(i, s)]
    /\ cursor' = [cursor EXCEPT ![i][s] = pass[i].upto]
    /\ pass' = [pass EXCEPT ![i] = [pc |-> "route", todo |-> @.todo \ {s}, upto |-> 0]]
    /\ UNCHANGED <<active, events, route, failures>>

\* The runtime is not connected here: the pass ends, with the sessions that
\* follow not visited.
PassEndsAtRoute(i) ==
    /\ pass[i].pc = "send"
    /\ route[Turn(i)] # i
    /\ pass' = [pass EXCEPT ![i] = NoPass]
    /\ UNCHANGED <<active, events, route, cursor, sent, failures>>

\* Core-service does not answer, or the stream closes under the send.
PassFails(i) ==
    /\ \/ pass[i].pc = "route" /\ pass[i].todo # {}
       \/ pass[i].pc = "send" /\ route[Turn(i)] = i
    /\ pass' = [pass EXCEPT ![i] = NoPass]
    /\ Failure
    /\ UNCHANGED <<active, events, route, cursor, sent>>

EndPass(i) ==
    /\ pass[i].pc = "route"
    /\ pass[i].todo = {}
    /\ pass' = [pass EXCEPT ![i] = NoPass]
    /\ UNCHANGED <<active, events, route, cursor, sent, failures>>

SyncOnce(i) ==
    \/ StartPass(i) \/ FetchEvents(i) \/ SendBatch(i) \/ PassEndsAtRoute(i) \/ EndPass(i)

OrdersNext ==
    \/ \E s \in Session :
         \/ SessionStarts(s)
         \/ SessionEnds(s)
         \/ OrderEvent(s)
         \/ RuntimeLeaves(s)
         \/ \E i \in Visitor : RuntimeConnects(i, s)
    \/ \E i \in Visitor :
         \/ SyncOnce(i)
         \/ PassFails(i)
         \/ Restart(i)

\* The ticker starts pass after pass, and a pass ends with its sessions or at a
\* runtime without a stream here.  Nothing is owed to the call of core-service
\* and to the send, which have no deadline.
OrdersSpec ==
    /\ OrdersInit /\ [][OrdersNext]_orderVars
    /\ \A i \in Visitor : WF_orderVars(StartPass(i) \/ PassEndsAtRoute(i) \/ EndPass(i))

\* What the worker waits for: core-service answers, and the runtimes read what
\* they are sent.
PeersAnswer ==
    \A i \in Visitor : WF_orderVars(FetchEvents(i)) /\ WF_orderVars(SendBatch(i))

-----------------------------------------------------------------------------
\* Every variable has its type.
OrdersTypeOK ==
    /\ active \subseteq Session
    /\ events \in [Session -> 0..MaxEvent]
    /\ route \in [Session -> Visitor \cup {Nowhere}]
    /\ cursor \in [Visitor -> [Session -> 0..MaxEvent]]
    /\ pass \in [Visitor -> Pass]
    /\ sent \in [Visitor -> [Session -> SUBSET Event]]
    /\ failures \in 0..MaxFailures

\* A cursor never passes an event that its process has not sent, whichever
\* fetch, send or pass fails (SyncOnce moves it after the send alone).
NoEventSkipped ==
    \A i \in Visitor, s \in Session : 1..cursor[i][s] \subseteq sent[i][s]

\* A process that keeps running sends every event of a session once: a batch
\* under way is not empty and holds no event that was sent.
SentOnce ==
    \A i \in Visitor : pass[i].pc = "send" =>
        LET s == Turn(i) IN
        /\ Batch(i, s) # {}
        /\ Batch(i, s) \cap sent[i][s] = {}

\* If core-service answers and the runtimes read, a process serves a session to
\* which its runtime is connected as long as the runtimes of all active sessions
\* before it are connected there too.
EventsArrive ==
    PeersAnswer =>
        \A i \in Visitor, s \in Session :
            <>[](s \in active /\ \A r \in active : r <= s => route[r] = i) =>
            []<>(cursor[i][s] = events[s])
=============================================================================
