------------------------- MODULE MarketDataRequests -------------------------
(***************************************************************************)
(* Who wants a market-data stream: the requests of users, the leases of    *)
(* sessions, and the row of the stream that sums them up for the scraper.  *)
(*                                                                         *)
(* Every call is served by a goroutine of some control-panel process; what *)
(* the calls share is the database.  Its transactions are READ COMMITTED:  *)
(* a statement sees what was committed when it began, and the writes of    *)
(* its own transaction.  A row that a transaction wrote is locked until it *)
(* ends.  An UPDATE that waited for a lock goes on with the snapshot it    *)
(* had before it waited, so an aggregate may be computed from old rows.    *)
(*                                                                         *)
(* One stream and one history window are modelled: other streams and       *)
(* windows share nothing with them but the sequence of the request ids.    *)
(***************************************************************************)
EXTENDS Naturals, FiniteSets

CONSTANTS
    User,         \* users
    Session,      \* strategy sessions
    Caller,       \* calls that run at the same time
    HistoryReport,\* the statuses a history worker may report
    ActualReport, \* the actual states a scraper may report
    MaxRequest,   \* bound: request ids drawn from the sequence in a behaviour
    None

Request == 1 .. MaxRequest
NoRequest == 0

ASSUME RequestsAssumption ==
    /\ MaxRequest \in Nat
    /\ HistoryReport \subseteq {"running", "verifying", "ready", "error"}
    /\ ActualReport \subseteq {"pending", "starting", "running", "draining", "stopped", "error"}
    /\ None \notin User \cup Session \cup Caller

VARIABLES
    request,   \* market_data_requests and market_data_history_requests, by request id
    lastId,    \* the sequence both tables draw their ids from
    lease,     \* market_data_leases of the stream, by session
    stream,    \* the row of the stream in market_data_streams
    holder,    \* the call whose transaction has locked that row
    call,      \* per caller: its position, its snapshot and its uncommitted writes
    exact      \* no commit overtook the recompute that wrote the row last (history)

tables == <<request, lastId, lease, stream>>
vars == <<tables, holder, call, exact>>

-----------------------------------------------------------------------------
(* Rows *)

NoRow == [scope |-> "none", user |-> None, status |-> "none", live |-> FALSE]
LiveRow(u, needsLive) ==
    [scope |-> "live", user |-> u, status |-> "active", live |-> needsLive]
HistoryRow(u) ==
    [scope |-> "historical", user |-> u, status |-> "pending", live |-> FALSE]

OpenLive(r) == r.scope = "live" /\ r.status # "cancelled"
OpenHistory(r) == r.scope = "historical" /\ r.status # "cancelled"

\* A lease is released (or was never taken), active, or past its expires_at and
\* not released.
LeaseStatus == {"released", "active", "expired"}

NoStream == [desired |-> "absent", live |-> FALSE]

\* The row as the scraper reads it: what is wanted of it, and what it has reported.
StreamRow(aggregate, actual) ==
    [desired |-> aggregate.desired, live |-> aggregate.live, actual |-> actual]

Absent == StreamRow(NoStream, "pending")

\* seen: the aggregate that the recompute found in its snapshot.  wrote, row:
\* the uncommitted write of a request.  leaseOf, leaseTo: that of a lease.
\* unexpired: the leases that were active at the transaction's NOW().
Idle == [pc |-> "idle", user |-> None, session |-> None, id |-> NoRequest, live |-> FALSE,
         wrote |-> NoRequest, row |-> NoRow, leaseOf |-> None, leaseTo |-> "released",
         unexpired |-> {}, seen |-> NoStream, overtaken |-> FALSE]

Unexpired == {s \in Session : lease[s] = "active"}

\* What the statements of t see of the two tables the aggregate is computed from.
RequestsSeen(t) == [i \in Request |-> IF i = call[t].wrote THEN call[t].row ELSE request[i]]
LeasesSeen(t) == [s \in Session |-> IF s = call[t].leaseOf THEN call[t].leaseTo ELSE lease[s]]

RequestLockedByOther(t, i) == \E o \in Caller \ {t} : call[o].wrote = i
LeaseLockedByOther(t, s) == \E o \in Caller \ {t} : call[o].leaseOf = s

\* The rows of u that an upsert finds.
OpenRequestsOf(u) == {i \in Request : OpenLive(request[i]) /\ request[i].user = u}
OpenHistoryOf(u) == {i \in Request : OpenHistory(request[i]) /\ request[i].user = u}

-----------------------------------------------------------------------------
Init ==
    /\ request = [i \in Request |-> NoRow]
    /\ lastId = 0
    /\ lease = [s \in Session |-> "released"]
    /\ stream = Absent
    /\ holder = None
    /\ call = [t \in Caller |-> Idle]
    /\ exact = TRUE

\* Faulty: the recompute runs before the statement whose effect it has to count.
RecomputedBefore(t) ==
    [desired |-> IF \E i \in Request : OpenLive(request[i]) THEN "running" ELSE "stopped",
     live |-> \/ \E i \in Request : OpenLive(request[i]) /\ request[i].live
              \/ \E s \in Session : lease[s] = "active"]

\* Requests decide whether the stream is wanted; leases only ask for its delivery.
Recomputed(t) ==
    LET R == RequestsSeen(t)  L == LeasesSeen(t)
    IN  [desired |-> IF \E i \in Request : OpenLive(R[i]) THEN "running" ELSE "stopped",
         live |-> \/ \E i \in Request : OpenLive(R[i]) /\ R[i].live
                  \/ \E s \in Session : \/ L[s] = "active"
                                        \/ L[s] = "expired" /\ s \in call[t].unexpired]

\* What a call keeps of itself when it has written, before its recompute.
Wrote(t, pc, i, r) ==
    call' = [call EXCEPT ![t] = [Idle EXCEPT !.pc = pc, !.wrote = i, !.row = r,
                                             !.unexpired = call[t].unexpired]]
WroteLease(t, status) ==
    call' = [call EXCEPT ![t] = [Idle EXCEPT !.pc = "snapshot", !.leaseOf = call[t].session,
                                             !.leaseTo = status,
                                             !.unexpired = call[t].unexpired \ {call[t].session}]]
WroteNothing(t) ==
    call' = [call EXCEPT ![t] = [Idle EXCEPT !.pc = "snapshot", !.unexpired = call[t].unexpired]]

\* The writes of t become visible, its locks are free, and whoever has taken
\* the snapshot of its recompute already has missed them.
Commit(t, aggregate) ==
    /\ request' = RequestsSeen(t)
    /\ lease' = LeasesSeen(t)
    /\ stream' = StreamRow(aggregate, stream.actual)
    /\ holder' = None
    /\ call' = [o \in Caller |-> IF o = t THEN Idle
                                 ELSE IF call[o].pc = "apply"
                                      THEN [call[o] EXCEPT !.overtaken = TRUE]
                                      ELSE call[o]]
    /\ exact' = ~call[t].overtaken
    /\ UNCHANGED lastId

-----------------------------------------------------------------------------
(* CreateMarketDataRequest with the live scope *)

\* Faulty: the stream is looked up without locking its row.
UpsertStreamUnlocked(t) ==
    /\ call[t].pc = "stream"
    /\ call' = [call EXCEPT ![t].pc = "write"]
    /\ UNCHANGED <<tables, holder, exact>>

\* INSERT ... ON CONFLICT DO UPDATE: whether it inserts or updates, the row is locked.
UpsertStream(t) ==
    /\ call[t].pc = "stream"
    /\ holder = None
    /\ holder' = t
    /\ call' = [call EXCEPT ![t].pc = "write"]
    /\ UNCHANGED <<tables, exact>>

\* The open request of the user is found and updated, once its lock is free.
UpdateRequest(t) ==
    /\ call[t].pc = "write"
    /\ \E i \in OpenRequestsOf(call[t].user) :
           /\ ~RequestLockedByOther(t, i)
           /\ Wrote(t, "commit", i, LiveRow(call[t].user, call[t].live))
    /\ UNCHANGED <<tables, holder, exact>>

\* There is none: the next statement inserts one.
FindNoRequest(t) ==
    /\ call[t].pc = "write"
    /\ OpenRequestsOf(call[t].user) = {}
    /\ call' = [call EXCEPT ![t].pc = "insert"]
    /\ UNCHANGED <<tables, holder, exact>>

\* uidx_market_data_requests_active_per_user_stream: the insert is refused if the user
\* has an open request by now, and waits for a transaction that has written one.
IndexAdmits(t) ==
    /\ OpenRequestsOf(call[t].user) = {}
    /\ \A o \in Caller \ {t} : ~(OpenLive(call[o].row) /\ call[o].row.user = call[t].user)

\* A row that is refused fails the transaction (CallFails).
InsertRequest(t) ==
    /\ call[t].pc = "insert"
    /\ IndexAdmits(t)
    /\ lastId < MaxRequest
    /\ lastId' = lastId + 1
    /\ Wrote(t, "commit", lastId + 1, LiveRow(call[t].user, call[t].live))
    /\ UNCHANGED <<request, lease, stream, holder, exact>>

\* The recompute need not wait: the transaction has the stream's row since it began.
CommitUpsert(t) == call[t].pc = "commit" /\ Commit(t, Recomputed(t))

-----------------------------------------------------------------------------
(* CancelMarketDataRequest: a live request, or else a historical one *)

\* Update the request of the caller, unless it is cancelled already.
CancelRequest(t) ==
    LET i == call[t].id
    IN  /\ call[t].pc = "cancel"
        /\ ~RequestLockedByOther(t, i)
        /\ IF request[i].status = "cancelled"
           THEN WroteNothing(t)
           ELSE Wrote(t, "snapshot", i, [request[i] EXCEPT !.status = "cancelled"])
        /\ UNCHANGED <<tables, holder, exact>>

CancelHistoryRequest(t) ==
    /\ call[t].pc = "cancel_history"
    /\ request' = [request EXCEPT ![call[t].id].status = "cancelled"]
    /\ call' = [call EXCEPT ![t] = Idle]
    /\ UNCHANGED <<lastId, lease, stream, holder, exact>>

-----------------------------------------------------------------------------
(* CreateOrRenewMarketDataLease and ReleaseMarketDataLease *)

\* A lease that was released or ran out is active again.
CreateOrRenewLease(t) ==
    /\ call[t].pc = "renew"
    /\ ~LeaseLockedByOther(t, call[t].session)
    /\ WroteLease(t, "active")
    /\ UNCHANGED <<tables, holder, exact>>

ReleaseLease(t) ==
    LET s == call[t].session
    IN  /\ call[t].pc = "release"
        /\ ~LeaseLockedByOther(t, s)
        /\ IF lease[s] # "released" THEN WroteLease(t, "released") ELSE WroteNothing(t)
        /\ UNCHANGED <<tables, holder, exact>>

-----------------------------------------------------------------------------
(* The recompute that ends a cancellation, a renewal and a release *)

\* The statement takes its snapshot, and then wants the lock of the stream's row.
RecomputeBegins(t) ==
    /\ call[t].pc = "snapshot"
    /\ call' = [call EXCEPT ![t].pc = "apply", ![t].seen = Recomputed(t),
                            ![t].unexpired = {}]
    /\ UNCHANGED <<tables, holder, exact>>

RecomputeApplies(t) == call[t].pc = "apply" /\ holder = None /\ Commit(t, call[t].seen)

-----------------------------------------------------------------------------
(* CreateMarketDataRequest with the historical scope, and the workers' reports *)

\* The row may have been cancelled since it was found; only an error is reset.
UpdateHistoryRequest(t) ==
    /\ call[t].pc = "update_history"
    /\ request' = [request EXCEPT ![call[t].id].status = IF @ = "error" THEN "pending" ELSE @]
    /\ call' = [call EXCEPT ![t] = Idle]
    /\ UNCHANGED <<lastId, lease, stream, holder, exact>>

\* The unique index refuses the row when another call inserted one meanwhile.
InsertHistoryRequest(t) ==
    /\ call[t].pc = "insert_history"
    /\ lastId < MaxRequest
    /\ lastId' = lastId + 1
    /\ request' = IF OpenHistoryOf(call[t].user) = {}
                  THEN [request EXCEPT ![lastId + 1] = HistoryRow(call[t].user)]
                  ELSE request
    /\ call' = [call EXCEPT ![t] = Idle]
    /\ UNCHANGED <<lease, stream, holder, exact>>

\* No guard on the status: a late report reopens a cancelled request, unless the
\* user has another open one for the window (the unique index).
UpdateHistoryRequestState(i, status) ==
    /\ OpenHistoryOf(request[i].user) \subseteq {i}
    /\ request' = [request EXCEPT ![i].status = status]

ReportMarketDataHistoryRequestState(i, status) ==
    /\ request[i].scope = "historical"
    /\ UpdateHistoryRequestState(i, status)
    /\ UNCHANGED <<lastId, lease, stream, holder, call, exact>>

\* The statement waits for the lock and touches nothing of the aggregate.
UpdateMarketDataStreamActualState(actual) ==
    /\ stream # Absent
    /\ holder = None
    /\ stream' = [stream EXCEPT !.actual = actual]

\* The report is taken from any scraper, with or without a lease to write the stream.
ReportMarketDataStreamState(actual) ==
    /\ UpdateMarketDataStreamActualState(actual)
    /\ UNCHANGED <<request, lastId, lease, holder, call, exact>>

-----------------------------------------------------------------------------
(* Calls begin and fail, leases run out *)

\* The bound: a call begins only if an id is left for it to draw.
IdsLeft == lastId + Cardinality({t \in Caller :
               call[t].pc \in {"stream", "write", "insert", "insert_history"}}) < MaxRequest

CreateMarketDataRequest(t, u) ==
    /\ call[t].pc = "idle"
    /\ IdsLeft
    /\ \/ \E needsLive \in BOOLEAN :
              call' = [call EXCEPT ![t] = [Idle EXCEPT !.pc = "stream", !.user = u,
                                                       !.live = needsLive,
                                                       !.unexpired = Unexpired]]
       \/ /\ OpenHistoryOf(u) = {}
          /\ call' = [call EXCEPT ![t] = [Idle EXCEPT !.pc = "insert_history", !.user = u]]
       \/ \E i \in OpenHistoryOf(u) :
              call' = [call EXCEPT ![t] = [Idle EXCEPT !.pc = "update_history",
                                                       !.user = u, !.id = i]]
    /\ UNCHANGED <<tables, holder, exact>>

\* The owner is compared before the transaction: other users are refused.
CancelMarketDataRequest(t, i) ==
    /\ call[t].pc = "idle"
    /\ request[i].scope # "none"
    /\ call' = [call EXCEPT ![t] =
           [Idle EXCEPT !.pc = IF request[i].scope = "live" THEN "cancel" ELSE "cancel_history",
                        !.user = request[i].user, !.id = i, !.unexpired = Unexpired]]
    /\ UNCHANGED <<tables, holder, exact>>

\* The lease refers to the stream, so it is refused while the stream has no row.
CallForLease(t, s, pc) ==
    /\ call[t].pc = "idle"
    /\ stream # Absent
    /\ call' = [call EXCEPT ![t] = [Idle EXCEPT !.pc = pc, !.session = s,
                                                !.unexpired = Unexpired]]
    /\ UNCHANGED <<tables, holder, exact>>

CreateOrRenewMarketDataLease(t, s) == CallForLease(t, s, "renew")
ReleaseMarketDataLease(t, s) == CallForLease(t, s, "release")

LeaseExpires(s) ==
    /\ lease[s] = "active"
    /\ lease' = [lease EXCEPT ![s] = "expired"]
    /\ UNCHANGED <<request, lastId, stream, holder, call, exact>>

\* Faulty: the rollback is forgotten, and the connection keeps the lock.
RollbackForgotten(t) ==
    /\ call' = [call EXCEPT ![t] = Idle]
    /\ UNCHANGED <<tables, holder, exact>>

\* The writes of t are dropped, its locks are free.
Rollback(t) ==
    /\ call' = [call EXCEPT ![t] = Idle]
    /\ holder' = IF holder = t THEN None ELSE holder
    /\ UNCHANGED <<tables, exact>>

\* A statement fails, the context of the caller ends or the process dies.
CallFails(t) == call[t].pc # "idle" /\ Rollback(t)

\* An upsert locks the stream and then a request, a cancellation the other way
\* round.  Postgres finds that they wait for one another and fails one of them.
Deadlocked(t, o) ==
    /\ holder = t
    /\ call[t].pc = "write"
    /\ call[o].pc = "apply"
    /\ call[o].wrote \in OpenRequestsOf(call[t].user)

DeadlockDetected ==
    \E t, o \in Caller : Deadlocked(t, o) /\ (Rollback(t) \/ Rollback(o))

-----------------------------------------------------------------------------
\* The next statement of a call.
Proceed(t) ==
    \/ UpsertStream(t) \/ UpdateRequest(t) \/ FindNoRequest(t) \/ InsertRequest(t)
    \/ CommitUpsert(t)
    \/ CancelRequest(t) \/ CancelHistoryRequest(t)
    \/ CreateOrRenewLease(t) \/ ReleaseLease(t)
    \/ RecomputeBegins(t) \/ RecomputeApplies(t)
    \/ UpdateHistoryRequest(t) \/ InsertHistoryRequest(t)

Next ==
    \/ \E t \in Caller : Proceed(t) \/ CallFails(t)
    \/ \E t \in Caller, u \in User : CreateMarketDataRequest(t, u)
    \/ \E t \in Caller, i \in Request : CancelMarketDataRequest(t, i)
    \/ \E t \in Caller, s \in Session :
           CreateOrRenewMarketDataLease(t, s) \/ ReleaseMarketDataLease(t, s)
    \/ \E i \in Request, status \in HistoryReport :
           ReportMarketDataHistoryRequestState(i, status)
    \/ \E actual \in ActualReport : ReportMarketDataStreamState(actual)
    \/ \E s \in Session : LeaseExpires(s)
    \/ DeadlockDetected

Spec == Init /\ [][Next]_vars

-----------------------------------------------------------------------------
(* Properties *)

RowType == [scope : {"none", "live", "historical"}, user : User \cup {None},
            status : {"none", "active", "pending", "running", "verifying",
                      "ready", "error", "cancelled"}, live : BOOLEAN]
StreamType == [desired : {"absent", "running", "stopped"}, live : BOOLEAN]
CallType ==
    [pc : {"idle", "stream", "write", "insert", "commit", "cancel", "renew", "release", "snapshot",
           "apply", "cancel_history", "update_history", "insert_history"},
     user : User \cup {None}, session : Session \cup {None},
     id : 0 .. MaxRequest, live : BOOLEAN, wrote : 0 .. MaxRequest, row : RowType,
     leaseOf : Session \cup {None}, leaseTo : LeaseStatus,
     unexpired : SUBSET Session, seen : StreamType, overtaken : BOOLEAN]

\* The tables hold what their columns allow; each scope has statuses of its own
\* (the CHECK constraints of migrations 0003 to 0006).
TypeOK ==
    /\ request \in [Request -> RowType]
    /\ \A i \in Request :
           request[i].scope = "live" => request[i].status \in {"active", "cancelled"}
    /\ lastId \in 0 .. MaxRequest
    /\ lease \in [Session -> LeaseStatus]
    /\ stream \in [desired : {"absent", "running", "stopped"}, live : BOOLEAN,
                   actual : ActualReport \cup {"pending"}]
    /\ holder \in Caller \cup {None}
    /\ call \in [Caller -> CallType]
    /\ exact \in BOOLEAN

\* A user never has two open live requests for the stream, nor two open requests
\* for the window: "can't accumulate unbounded active duplicates".  Unique indexes on
\* both tables see to it (migrations 0004 and 0006).
OneOpenRequest ==
    \A i, j \in Request :
        /\ request[i].user = request[j].user
        /\ \/ OpenLive(request[i]) /\ OpenLive(request[j])
           \/ OpenHistory(request[i]) /\ OpenHistory(request[j])
        => i = j

\* The index on the live requests never refuses an upsert, nor lets it wait: one that
\* found no open request of its user has the lock of the stream's row since before it
\* looked, so nobody else inserts or reopens one before it does.  Of two first
\* subscriptions of a user at the same time, both succeed, and the later one updates
\* the request of the earlier.  (UpsertMarketDataRequest.)
InsertUnopposed == \A t \in Caller : call[t].pc = "insert" => IndexAdmits(t)

\* The row of the stream says what the tables say, up to leases that ran out since,
\* provided that no commit overtook the last recompute between its snapshot and its
\* lock.  A recompute that was overtaken may leave the row wrong, and the next one
\* that is not puts it right.
AggregateExact ==
    exact /\ stream # Absent =>
        /\ stream.desired =
               IF \E i \in Request : OpenLive(request[i]) THEN "running" ELSE "stopped"
        /\ (\E i \in Request : OpenLive(request[i]) /\ request[i].live) => stream.live
        /\ (\E s \in Session : lease[s] = "active") => stream.live
        /\ stream.live => \/ \E i \in Request : OpenLive(request[i]) /\ request[i].live
                          \/ \E s \in Session : lease[s] \in {"active", "expired"}

\* Calls that run never all wait for locks, unless an upsert and a cancellation of
\* the same request, which lock the stream and the request in opposite orders, wait
\* for one another, and then Postgres ends one of them.
OnlyDeadlockStops ==
    (\E t \in Caller : call[t].pc # "idle") =>
        \/ \E t \in Caller : ENABLED Proceed(t)
        \/ \E t, o \in Caller : Deadlocked(t, o)
=============================================================================
